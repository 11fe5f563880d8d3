---------------------------- MODULE ClientProofs ----------------------------
(***************************************************************************)
(* Proofs about Client: whatever answers come in whatever order, the page  *)
(* shows the open workspace, keeps asking about a document it shows as     *)
(* being worked on, and waits for one question at a time.                  *)
(***************************************************************************)
EXTENDS Client, TLAPS

-----------------------------------------------------------------------------
(* Requests in flight. *)

(* One more request is in flight, the others still are. *)
LEMMA WithBag ==
    ASSUME NEW rs, IsABag(rs), NEW q
    PROVE  IsABag(With(rs, q)) /\ BagToSet(With(rs, q)) = BagToSet(rs) \cup {q}
  <1>1. DOMAIN SetToBag({q}) = {q} /\ SetToBag({q})[q] = 1
    BY DEF SetToBag
  <1>2. DOMAIN With(rs, q) = DOMAIN rs \cup {q}
    BY <1>1 DEF With, (+)
  <1>3. \A e \in DOMAIN With(rs, q) : With(rs, q)[e] \in {n \in Nat : n > 0}
    BY <1>1 DEF With, (+), IsABag
  <1>4. With(rs, q) = [e \in DOMAIN With(rs, q) |-> With(rs, q)[e]]
    BY DEF With, (+)
  <1> QED
    BY <1>2, <1>3, <1>4 DEF IsABag, BagToSet

(* One answer takes away nothing but its request. *)
LEMMA WithoutBag ==
    ASSUME IsABag(reqs), NEW q
    PROVE  /\ IsABag(Without(q))
           /\ BagToSet(Without(q)) \subseteq InFlight
           /\ InFlight \ {q} \subseteq BagToSet(Without(q))
  <1>1. DOMAIN SetToBag({q}) = {q} /\ SetToBag({q})[q] = 1
    BY DEF SetToBag
  <1> DEFINE left == [e \in DOMAIN reqs |-> IF e \in {q} THEN reqs[e] - 1 ELSE reqs[e]]
  <1>2. Without(q) = [e \in {d \in DOMAIN reqs : left[d] > 0} |-> left[e]]
    BY <1>1 DEF Without, (-)
  <1>3. \A e \in DOMAIN reqs : reqs[e] \in Nat /\ reqs[e] > 0
    BY DEF IsABag
  <1>4. \A e \in DOMAIN Without(q) : Without(q)[e] \in {n \in Nat : n > 0}
    BY <1>2, <1>3
  <1> QED
    BY <1>2, <1>3, <1>4 DEF IsABag, BagToSet, InFlight

-----------------------------------------------------------------------------
(* Types. *)

Entries == [ws : Ws \cup {NoWs}, what : {"empty", "history", "asked", "answered"}]

Inv == TypeOK /\ IsABag(reqs) /\ PaintedIsOpen /\ KeepsPolling

LEMMA InitInv == Init => Inv
  <1> SUFFICES ASSUME Init PROVE Inv
    OBVIOUS
  <1>1. IsABag(reqs) /\ InFlight = {}
    BY DEF Init, EmptyBag, SetToBag, IsABag, InFlight, BagToSet
  <1>2. TypeOK
    <2>1. page \in [title : Ws \cup {NoWs}, list : [ws : Ws \cup {NoWs}, docs : DocStates],
                   thread : SUBSET [ws : Ws \cup {NoWs},
                                    what : {"empty", "history", "asked", "answered"}]]
      BY DEF Init, NoList, DocStates
    <2>2. /\ {hash, workspaceId, currentWs} \subseteq Ws \cup {NoWs}
          /\ {changed, busy, toast} \subseteq BOOLEAN
      BY DEF Init
    <2>3. poll.armed \in Nat /\ (poll.last => poll.armed > 0)
      BY DEF Init, NoPoll
    <2> QED
      BY <1>1, <2>1, <2>2, <2>3 DEF TypeOK
  <1> QED
    BY <1>1, <1>2 DEF Init, Inv, PaintedIsOpen, KeepsPolling

(* What a timer's end and its handlers make of the polls that are armed. *)
LEMMA Polls ==
    ASSUME NEW p, p.armed \in Nat, p.last => p.armed > 0
    PROVE  /\ Cleared(p).armed \in Nat
           /\ Cleared(p).last => Cleared(p).armed > 0
           /\ \A docs : /\ Rearmed(p, docs).armed \in Nat
                        /\ Rearmed(p, docs).last => Rearmed(p, docs).armed > 0
                        /\ docs = "working" => Rearmed(p, docs).armed > 0
           /\ p.armed > 0 =>
                /\ Fired(p).armed \in Nat
                /\ Fired(p).last => Fired(p).armed > 0
  <1>1. Cleared(p).armed \in Nat /\ (Cleared(p).last => Cleared(p).armed > 0)
    BY DEF Cleared
  <1>2. ASSUME NEW docs
        PROVE  /\ Rearmed(p, docs).armed \in Nat
               /\ Rearmed(p, docs).last => Rearmed(p, docs).armed > 0
               /\ docs = "working" => Rearmed(p, docs).armed > 0
    BY DEF Rearmed, Armed
  <1>3. ASSUME p.armed > 0
        PROVE  /\ Fired(p).armed \in Nat
               /\ Fired(p).last => Fired(p).armed > 0
    <2>1. Fired(p).armed = p.armed - 1
      BY DEF Fired
    <2>2. Fired(p).last = (p.last /\ p.armed > 1)
      BY Zenon DEF Fired
    <2>3. Fired(p).last => p.armed > 1
      BY <2>2, Zenon
    <2> QED
      BY <1>3, <2>1, <2>3
  <1> QED
    BY <1>1, <1>2, <1>3

(* The page of a workspace about to be opened. *)
LEMMA PageTyped ==
    ASSUME TypeOK
    PROVE  /\ page = [title |-> page.title, list |-> page.list, thread |-> page.thread]
           /\ page.title \in Ws \cup {NoWs} /\ page.thread \in SUBSET Entries
           /\ page.list \in [ws : Ws \cup {NoWs}, docs : DocStates]
           /\ \A w \in Ws \cup {NoWs} : Empty(w) \in SUBSET Entries
           /\ NotEmpty(page.thread) \in SUBSET Entries
  BY DEF TypeOK, Entries, Empty, NotEmpty

(* What a step leaves in flight. *)
LEMMA ReqsTyped ==
    ASSUME Inv, [Next]_vars
    PROVE  IsABag(reqs)' /\ (InFlight \subseteq Requests)'
  <1> USE DEF Inv, TypeOK
  <1>b. IsABag(reqs) /\ InFlight = BagToSet(reqs)
    BY DEF InFlight
  <1>s. \A kind \in {"open", "refresh", "history", "ask", "upload", "remove", "clear", "delete"},
           w \in Ws : Sent(kind, w) \in Requests
    BY DEF Sent, Requests
  <1>1. CASE UNCHANGED reqs
    BY <1>1, <1>b DEF InFlight
  <1>2. ASSUME NEW q \in Requests, reqs' = With(reqs, q) PROVE IsABag(reqs)' /\ (InFlight \subseteq Requests)'
    BY <1>2, <1>b, WithBag DEF InFlight
  <1>3. ASSUME NEW q, reqs' = Without(q) PROVE IsABag(reqs)' /\ (InFlight \subseteq Requests)'
    BY <1>3, <1>b, WithoutBag DEF InFlight
  <1>4. ASSUME NEW q, NEW r \in Requests, reqs' = With(Without(q), r)
        PROVE  IsABag(reqs)' /\ (InFlight \subseteq Requests)'
    BY <1>4, <1>b, WithoutBag, WithBag DEF InFlight
  <1>5. ASSUME NEW q, NEW r \in Requests, NEW t \in Requests,
               reqs' = With(With(Without(q), r), t)
        PROVE  IsABag(reqs)' /\ (InFlight \subseteq Requests)'
    <2>1. /\ IsABag(Without(q)) /\ BagToSet(Without(q)) \subseteq Requests
      BY <1>b, WithoutBag
    <2>2. /\ IsABag(With(Without(q), r)) /\ BagToSet(With(Without(q), r)) \subseteq Requests
      BY <2>1, WithBag
    <2> QED
      BY <1>5, <2>2, WithBag DEF InFlight
  <1>6. CASE OpenWorkspace
    BY <1>6, <1>2, <1>s DEF OpenWorkspace
  <1>7. CASE Poll
    BY <1>7, <1>1, <1>2, <1>s DEF Poll
  <1>8. CASE Ask \/ Upload \/ RemoveDoc \/ Clear \/ DeleteWorkspace
    <2>1. page.list.ws \in Ws \cup {NoWs}
      BY PageTyped
    <2> QED
      BY <1>8, <2>1, <1>2, <1>s DEF Ask, Upload, RemoveDoc, Clear, DeleteWorkspace
  <1>9. ASSUME NEW q \in InFlight, Answer(q) PROVE IsABag(reqs)' /\ (InFlight \subseteq Requests)'
    <2>1. q.ws \in Ws
      BY DEF Requests
    <2>2. CASE Opened(q)
      <3>1. Sent("refresh", q.ws) \in Requests /\ Sent("history", q.ws) \in Requests
        BY <2>1, <1>s
      <3> QED
        BY <2>2, <3>1, <1>3, <1>5 DEF Opened
    <2>3. CASE Uploaded(q)
      BY <2>3, <1>3, <1>4, <1>s DEF Uploaded
    <2> QED
      BY <1>9, <1>3, <2>2, <2>3 DEF Answer, Replied, ClearedHistory, WorkspaceDeleted,
         Refreshed, HistoryLoaded, Failed
  <1> QED
    BY <1>1, <1>6, <1>7, <1>8, <1>9 DEF Next, vars, Navigate, OpenHome

LEMMA NextTyped == Inv /\ [Next]_vars => TypeOK'
  <1> SUFFICES ASSUME Inv, [Next]_vars PROVE TypeOK'
    OBVIOUS
  <1>r. (InFlight \subseteq Requests)'
    BY ReqsTyped
  <1>p. /\ poll.armed \in Nat /\ (poll.last => poll.armed > 0)
        /\ {hash, workspaceId, currentWs} \subseteq Ws \cup {NoWs}
        /\ {changed, busy, toast} \subseteq BOOLEAN
    BY DEF Inv, TypeOK
  <1> DEFINE PageOK == page \in [title : Ws \cup {NoWs},
                                 list : [ws : Ws \cup {NoWs}, docs : DocStates],
                                 thread : SUBSET Entries]
             PollOK == poll.armed \in Nat
                         /\ (poll.last => poll.armed > 0)
             RestOK == {hash, workspaceId, currentWs} \subseteq Ws \cup {NoWs}
                         /\ {changed, busy, toast} \subseteq BOOLEAN
  <1>t. TypeOK' <=> PageOK' /\ PollOK' /\ RestOK' /\ (InFlight \subseteq Requests)'
    BY DEF TypeOK, Entries
  <1>o. PageOK
    BY DEF Inv, TypeOK, Entries
  <1> HIDE DEF PageOK
  <1>1. CASE UNCHANGED vars
    BY <1>1, <1>p, <1>o, <1>r, <1>t DEF vars, PageOK
  <1>2. CASE (\E w \in Ws \cup {NoWs} : Navigate(w)) \/ OpenHome
    BY <1>2, <1>p, <1>o, <1>r, <1>t, Polls DEF Navigate, GoTo, OpenHome, PageOK
  <1>3. CASE OpenWorkspace
    <2>1. PageFor(hash) \in [title : Ws \cup {NoWs},
                             list : [ws : Ws \cup {NoWs}, docs : DocStates],
                             thread : SUBSET Entries]
      BY <1>o DEF PageFor, NoList, DocStates, PageOK
    <2> QED
      BY <1>3, <2>1, <1>p, <1>r, <1>t DEF OpenWorkspace, PageOK
  <1>4. CASE Poll
    BY <1>4, <1>p, <1>o, <1>r, <1>t, Polls DEF Poll, PageOK
  <1>5. CASE Ask
    <2>1. NotEmpty(page.thread) \cup {[ws |-> workspaceId, what |-> "asked"]} \in SUBSET Entries
      BY <1>p, PageTyped DEF Inv, Entries
    <2>2. PageOK'
      BY <1>5, <2>1, <1>o DEF Ask, PageOK
    <2> QED
      BY <1>5, <2>2, <1>p, <1>r, <1>t DEF Ask
  <1>6. CASE Upload \/ RemoveDoc \/ Clear \/ DeleteWorkspace
    BY <1>6, <1>p, <1>o, <1>r, <1>t DEF Upload, RemoveDoc, Clear, DeleteWorkspace, PageOK
  <1>7. ASSUME NEW q \in InFlight, Answer(q) PROVE TypeOK'
    <2>1. q.ws \in Ws
      BY DEF Inv, TypeOK, Requests
    <2>2. CASE Opened(q)
      <3>1. PageOK'
        BY <2>1, <2>2, <1>o DEF Opened, PageOK
      <3> QED
        BY <2>1, <2>2, <3>1, <1>p, <1>r, <1>t, Polls DEF Opened
    <2>3. CASE Replied(q)
      <3>1. PageOK'
        <4>1. (page.thread \ {[ws |-> q.ws, what |-> "asked"]})
                \cup {[ws |-> q.ws, what |-> "answered"]} \in SUBSET Entries
          BY <2>1, PageTyped DEF Inv, Entries
        <4> QED
          BY <2>3, <4>1, <1>o DEF Replied, PageOK
      <3> QED
        BY <2>3, <3>1, <1>p, <1>r, <1>t DEF Replied, Busy
    <2>4. CASE Uploaded(q)
      BY <2>4, <1>p, <1>o, <1>r, <1>t, Polls DEF Uploaded, PageOK
    <2>5. CASE ClearedHistory(q)
      <3>1. PageOK'
        BY <2>5, <1>o, <1>p, PageTyped DEF ClearedHistory, PageOK, Inv
      <3> QED
        BY <2>5, <3>1, <1>p, <1>r, <1>t DEF ClearedHistory
    <2>9. CASE WorkspaceDeleted(q)
      BY <2>9, <1>p, <1>o, <1>r, <1>t DEF WorkspaceDeleted, GoTo, PageOK
    <2>6. CASE Failed(q)
      <3>1. (changed \/ hash # NoWs) \in BOOLEAN /\ (toast \/ q.kind = "refresh") \in BOOLEAN
        BY <1>p
      <3> QED
        BY <2>6, <3>1, <1>p, <1>o, <1>r, <1>t DEF Failed, GoTo, PageOK
    <2>7. ASSUME NEW docs \in DocStates, Refreshed(q, docs) PROVE TypeOK'
      <3>1. PageOK'
        BY <2>1, <2>7, <1>o, PageTyped DEF Refreshed, PageOK, Inv
      <3> QED
        BY <2>1, <2>7, <3>1, <1>p, <1>r, <1>t, Polls DEF Refreshed
    <2>8. ASSUME NEW some \in BOOLEAN, HistoryLoaded(q, some) PROVE TypeOK'
      <3>1. PageOK'
        <4>1. {[ws |-> q.ws, what |-> "history"]} \in SUBSET Entries
                /\ Empty(currentWs) \in SUBSET Entries
          BY <2>1, <1>p, PageTyped DEF Inv, Entries
        <4> QED
          BY <2>8, <4>1, <1>o DEF HistoryLoaded, PageOK
      <3> QED
        BY <2>8, <3>1, <1>p, <1>r, <1>t DEF HistoryLoaded
    <2> QED
      BY <1>7, <2>2, <2>3, <2>4, <2>5, <2>6, <2>7, <2>8, <2>9 DEF Answer
  <1> QED
    BY <1>1, <1>2, <1>3, <1>4, <1>5, <1>6, <1>7 DEF Next

-----------------------------------------------------------------------------
(* What the page shows. *)

LEMMA NextPainted == Inv /\ [Next]_vars => PaintedIsOpen'
  <1> SUFFICES ASSUME Inv, [Next]_vars PROVE PaintedIsOpen'
    OBVIOUS
  <1>p. PaintedIsOpen
    BY DEF Inv
  <1>t. page = [title |-> page.title, list |-> page.list, thread |-> page.thread]
    BY PageTyped DEF Inv
  <1>1. CASE UNCHANGED <<page, workspaceId>>
    BY <1>1, <1>p DEF PaintedIsOpen
  <1>2. CASE OpenHome
    BY <1>2 DEF OpenHome, PaintedIsOpen
  <1>3. CASE OpenWorkspace
    BY <1>3, <1>p DEF OpenWorkspace, PageFor, PaintedIsOpen, NoList, NotEmpty
  <1>4. ASSUME workspaceId' = workspaceId, NEW thread,
               page' = [page EXCEPT !.thread = thread],
               \A e \in NotEmpty(thread) : e \in NotEmpty(page.thread) \/ e.ws = workspaceId
        PROVE  PaintedIsOpen'
    <2>1. page'.title = page.title /\ page'.list = page.list /\ page'.thread = thread
      BY <1>4, <1>t
    <2> QED
      BY <1>4, <2>1, <1>p DEF PaintedIsOpen, NotEmpty
  <1>5. CASE Ask
    <2> DEFINE thread == NotEmpty(page.thread) \cup {[ws |-> workspaceId, what |-> "asked"]}
    <2>1. \A e \in NotEmpty(thread) : e \in NotEmpty(page.thread) \/ e.ws = workspaceId
      BY DEF NotEmpty
    <2> QED
      BY <1>5, <2>1, <1>4 DEF Ask
  <1>6. ASSUME NEW q \in InFlight, Answer(q) PROVE PaintedIsOpen'
    <2>1. CASE Opened(q)
      BY <2>1, <1>p, <1>t, <1>1 DEF Opened, StillOpen, PaintedIsOpen, NotEmpty
    <2>2. CASE Replied(q)
      <3> DEFINE asked == [ws |-> q.ws, what |-> "asked"]
                 thread == (page.thread \ {asked}) \cup {[ws |-> q.ws, what |-> "answered"]}
      <3>1. CASE asked \in page.thread /\ workspaceId # NoWs
        <4>1. q.ws = workspaceId
          BY <3>1, <1>p DEF PaintedIsOpen, NotEmpty
        <4>2. \A e \in NotEmpty(thread) : e \in NotEmpty(page.thread) \/ e.ws = workspaceId
          BY <4>1 DEF NotEmpty
        <4> QED
          BY <2>2, <3>1, <4>2, <1>4 DEF Replied
      <3>2. CASE asked \notin page.thread
        BY <2>2, <3>2, <1>1 DEF Replied
      <3> QED
        BY <2>2, <3>1, <3>2 DEF Replied, PaintedIsOpen
    <2>3. CASE ClearedHistory(q)
      BY <2>3, <1>4 DEF ClearedHistory, Empty, NotEmpty
    <2>4. ASSUME NEW docs \in DocStates, Refreshed(q, docs) PROVE PaintedIsOpen'
      BY <2>4, <1>p, <1>1 DEF Refreshed, StillOpen, PaintedIsOpen, NotEmpty, Empty
    <2>5. ASSUME NEW some \in BOOLEAN, HistoryLoaded(q, some) PROVE PaintedIsOpen'
      <3>1. CASE ~StillOpen(q.ws)
        BY <2>5, <3>1, <1>1 DEF HistoryLoaded
      <3>2. CASE StillOpen(q.ws)
        BY <2>5, <3>2, <1>4 DEF HistoryLoaded, StillOpen, Empty, NotEmpty
      <3> QED
        BY <3>1, <3>2
    <2>6. CASE Uploaded(q) \/ WorkspaceDeleted(q) \/ Failed(q)
      BY <2>6, <1>1 DEF Uploaded, WorkspaceDeleted, Failed
    <2> QED
      BY <1>6, <2>1, <2>2, <2>3, <2>4, <2>5, <2>6 DEF Answer
  <1> QED
    BY <1>1, <1>2, <1>3, <1>5, <1>6 DEF Next, vars, Navigate, Poll, Upload, RemoveDoc, Clear,
       DeleteWorkspace

(* A shown document that is being worked on is asked about again. *)
LEMMA NextPolls == Inv /\ [Next]_vars => KeepsPolling'
  <1> SUFFICES ASSUME Inv, [Next]_vars, (workspaceId # NoWs)',
                      (page.list = [ws |-> workspaceId, docs |-> "working"])'
               PROVE  (poll.armed > 0 \/ Refreshing \/ toast)'
    BY DEF KeepsPolling
  <1>k. KeepsPolling /\ IsABag(reqs) /\ InFlight = BagToSet(reqs)
    BY DEF Inv, InFlight
  <1>t. page = [title |-> page.title, list |-> page.list, thread |-> page.thread]
    BY PageTyped DEF Inv
  <1>p. poll.armed \in Nat /\ (poll.last => poll.armed > 0)
    BY DEF Inv, TypeOK
  <1>s. \A r : r.kind = "refresh" /\ r.ws = workspaceId /\ r \in InFlight => Refreshing
    BY DEF Refreshing
  <1>1. ASSUME page'.list = page.list, workspaceId' = workspaceId, poll'.armed >= poll.armed,
               poll'.armed \in Nat, toast => toast', Refreshing => (Refreshing \/ toast)'
        PROVE  (poll.armed > 0 \/ Refreshing \/ toast)'
    BY <1>1, <1>k, <1>p DEF KeepsPolling
  <1>2. ASSUME NEW rs, IsABag(rs), reqs' = With(rs, Sent("refresh", workspaceId)),
               workspaceId' = workspaceId
        PROVE  Refreshing'
    BY <1>2, WithBag DEF Refreshing, InFlight, Sent
  <1>3. ASSUME InFlight \subseteq InFlight', workspaceId' = workspaceId PROVE Refreshing => Refreshing'
    BY <1>3 DEF Refreshing
  <1>4. ASSUME NEW q, reqs' = With(reqs, q) PROVE InFlight \subseteq InFlight'
    BY <1>4, <1>k, WithBag DEF InFlight
  <1>5. ASSUME NEW q, reqs' = Without(q), q.kind # "refresh", workspaceId' = workspaceId
        PROVE  Refreshing => Refreshing'
    BY <1>5, <1>k, WithoutBag DEF Refreshing, InFlight
  <1>6. CASE UNCHANGED vars \/ \E w \in Ws \cup {NoWs} : Navigate(w)
    BY <1>6, <1>1, <1>3, <1>p DEF vars, Navigate, InFlight
  <1>7. CASE OpenHome
    BY <1>7 DEF OpenHome
  <1>8. CASE OpenWorkspace
    <2>1. hash = workspaceId
      BY <1>8, ClientAssumption DEF OpenWorkspace, PageFor, NoList
    <2> QED
      BY <1>8, <2>1, <1>1, <1>3, <1>4, <1>p DEF OpenWorkspace, PageFor
  <1>9. CASE Poll
    BY <1>9, <1>2, <1>k DEF Poll
  <1>10. CASE Ask
    BY <1>10, <1>1, <1>3, <1>4, <1>p, <1>t DEF Ask
  <1>11. CASE Upload \/ RemoveDoc \/ Clear \/ DeleteWorkspace
    BY <1>11, <1>1, <1>3, <1>4, <1>p DEF Upload, RemoveDoc, Clear, DeleteWorkspace
  <1>12. ASSUME NEW q \in InFlight, Answer(q) PROVE (poll.armed > 0 \/ Refreshing \/ toast)'
    <2>b. IsABag(Without(q))
      BY <1>k, WithoutBag
    <2>1. CASE Opened(q)
      <3>1. CASE StillOpen(q.ws)
        <4>1. reqs' = With(With(Without(q), Sent("refresh", workspaceId)), Sent("history", q.ws))
                /\ workspaceId' = workspaceId
          BY <2>1, <3>1 DEF Opened, StillOpen
        <4>2. Sent("refresh", workspaceId) \in InFlight'
          BY <4>1, <2>b, WithBag DEF InFlight
        <4> QED
          BY <4>1, <4>2 DEF Refreshing, Sent
      <3>2. CASE ~StillOpen(q.ws)
        BY <2>1, <3>2, <1>1, <1>5, <1>p DEF Opened
      <3> QED
        BY <3>1, <3>2
    <2>2. CASE Replied(q)
      BY <2>2, <1>1, <1>5, <1>p, <1>t DEF Replied
    <2>3. CASE Uploaded(q)
      BY <2>3, <2>b, <1>2 DEF Uploaded
    <2>4. CASE ClearedHistory(q)
      BY <2>4, <1>1, <1>5, <1>p, <1>t DEF ClearedHistory
    <2>5. CASE WorkspaceDeleted(q)
      BY <2>5, <1>1, <1>5, <1>p DEF WorkspaceDeleted
    <2>6. CASE Failed(q)
      <3>1. q.kind = "refresh" => toast'
        BY <2>6 DEF Failed
      <3>2. q.kind # "refresh" => (Refreshing => Refreshing')
        BY <2>6, <1>5 DEF Failed
      <3>3. (toast => toast') /\ UNCHANGED <<page, poll, workspaceId>>
        BY <2>6 DEF Failed
      <3> QED
        BY <3>1, <3>2, <3>3, <1>1, <1>p
    <2>7. ASSUME NEW docs \in DocStates, Refreshed(q, docs)
          PROVE  (poll.armed > 0 \/ Refreshing \/ toast)'
      <3>1. CASE StillOpen(q.ws)
        <4>1. docs = "working" /\ poll' = Rearmed(poll, docs)
          BY <2>7, <3>1 DEF Refreshed
        <4> QED
          BY <4>1, <1>p, Polls
      <3>2. CASE ~StillOpen(q.ws)
        <4>1. Refreshing => Refreshing'
          BY <2>7, <3>2, <1>k, WithoutBag DEF Refreshed, Refreshing, InFlight, StillOpen
        <4> QED
          BY <2>7, <3>2, <4>1, <1>1, <1>p DEF Refreshed
      <3> QED
        BY <3>1, <3>2
    <2>8. ASSUME NEW some \in BOOLEAN, HistoryLoaded(q, some)
          PROVE  (poll.armed > 0 \/ Refreshing \/ toast)'
      BY <2>8, <1>1, <1>5, <1>p, <1>t DEF HistoryLoaded
    <2> QED
      BY <1>12, <2>1, <2>2, <2>3, <2>4, <2>5, <2>6, <2>7, <2>8 DEF Answer
  <1> QED
    BY <1>6, <1>7, <1>8, <1>9, <1>10, <1>11, <1>12 DEF Next

-----------------------------------------------------------------------------
(* The question that is being answered. *)

IsAsk(q) == q.kind = "ask"

(* The question form is locked while one question is in flight, and there  *)
(* is never a second one.                                                  *)
OneAsk ==
    /\ busy <=> \E q \in InFlight : IsAsk(q)
    /\ \A q \in InFlight : IsAsk(q) => reqs[q] = 1
    /\ \A q, r \in InFlight : IsAsk(q) /\ IsAsk(r) => q = r

(* A question on the page is the one in flight. *)
AskedIsSent ==
    \A e \in page.thread : e.what = "asked" =>
        \E q \in InFlight : IsAsk(q) /\ q.ws = e.ws

AskInv == OneAsk /\ AskedIsSent

(* The same requests, and as many of each, but for q. *)
SameBut(rs, ss, q) ==
    \A e : e # q => /\ e \in DOMAIN ss <=> e \in DOMAIN rs
                    /\ e \in DOMAIN rs => ss[e] = rs[e]

(* Sending a request and getting its answer change nothing of the others. *)
LEMMA WithCounts ==
    ASSUME NEW rs, IsABag(rs), NEW q
    PROVE  /\ SameBut(rs, With(rs, q), q)
           /\ q \notin DOMAIN rs => With(rs, q)[q] = 1
  <1>1. DOMAIN SetToBag({q}) = {q} /\ SetToBag({q})[q] = 1
    BY DEF SetToBag
  <1>2. DOMAIN With(rs, q) = DOMAIN rs \cup {q}
    BY <1>1 DEF With, (+)
  <1>3. \A e \in DOMAIN rs : rs[e] \in Nat
    BY DEF IsABag
  <1>4. \A e \in DOMAIN With(rs, q) :
          With(rs, q)[e] = (IF e \in DOMAIN rs THEN rs[e] ELSE 0) + (IF e = q THEN 1 ELSE 0)
    BY <1>1, <1>3 DEF With, (+)
  <1> QED
    BY <1>2, <1>3, <1>4 DEF SameBut

LEMMA WithoutCounts ==
    ASSUME IsABag(reqs), NEW q
    PROVE  /\ SameBut(reqs, Without(q), q)
           /\ q \in DOMAIN reqs /\ reqs[q] = 1 => q \notin DOMAIN Without(q)
  <1>1. DOMAIN SetToBag({q}) = {q} /\ SetToBag({q})[q] = 1
    BY DEF SetToBag
  <1> DEFINE left == [e \in DOMAIN reqs |-> IF e \in {q} THEN reqs[e] - 1 ELSE reqs[e]]
  <1>2. Without(q) = [e \in {d \in DOMAIN reqs : left[d] > 0} |-> left[e]]
    BY <1>1 DEF Without, (-)
  <1>3. \A e \in DOMAIN reqs : reqs[e] \in Nat /\ reqs[e] > 0
    BY DEF IsABag
  <1> QED
    BY <1>2, <1>3 DEF SameBut

(* A step in which no question is asked or answered. *)
LEMMA AsksKept ==
    ASSUME AskInv, UNCHANGED busy,
           \A e : IsAsk(e) => /\ e \in DOMAIN reqs' <=> e \in DOMAIN reqs
                              /\ e \in DOMAIN reqs => reqs'[e] = reqs[e],
           \A e \in page'.thread : e.what = "asked" => e \in page.thread
    PROVE  AskInv'
  <1>1. InFlight = DOMAIN reqs /\ InFlight' = DOMAIN reqs'
    BY DEF InFlight, BagToSet
  <1>2. OneAsk'
    BY <1>1 DEF AskInv, OneAsk
  <1>3. AskedIsSent'
    BY <1>1 DEF AskInv, AskedIsSent
  <1> QED
    BY <1>2, <1>3 DEF AskInv

(* A question is asked when none is in flight, *)
LEMMA AskSends == Inv /\ AskInv /\ Ask => AskInv'
  <1> SUFFICES ASSUME Inv, AskInv, Ask PROVE AskInv'
    OBVIOUS
  <1> DEFINE q == Sent("ask", workspaceId)
  <1>1. InFlight = DOMAIN reqs /\ InFlight' = DOMAIN reqs'
    BY DEF InFlight, BagToSet
  <1>2. busy' /\ reqs' = With(reqs, q) /\ \A e \in DOMAIN reqs : ~IsAsk(e)
    BY <1>1 DEF Ask, AskInv, OneAsk
  <1>3. IsAsk(q) /\ q.ws = workspaceId
    BY DEF Sent, IsAsk
  <1>4. q \notin DOMAIN reqs
    BY <1>2, <1>3
  <1>5. SameBut(reqs, reqs', q) /\ reqs'[q] = 1 /\ DOMAIN reqs' = DOMAIN reqs \cup {q}
    BY <1>2, <1>4, WithCounts, WithBag DEF Inv, BagToSet
  <1> HIDE DEF q
  <1>6. OneAsk'
    BY <1>1, <1>2, <1>3, <1>5 DEF OneAsk
  <1>7. page'.thread = NotEmpty(page.thread) \cup {[ws |-> workspaceId, what |-> "asked"]}
    BY PageTyped DEF Inv, Ask
  <1>8. AskedIsSent'
    BY <1>1, <1>2, <1>3, <1>5, <1>7 DEF AskInv, AskedIsSent, NotEmpty
  <1> QED
    BY <1>6, <1>8 DEF AskInv

(* and its answer replaces the only one on the page. *)
LEMMA ReplyAnswers ==
    ASSUME Inv, AskInv, NEW q \in InFlight, Replied(q)
    PROVE  AskInv'
  <1> DEFINE asked == [ws |-> q.ws, what |-> "asked"]
             answered == [ws |-> q.ws, what |-> "answered"]
  <1>1. InFlight = DOMAIN reqs /\ InFlight' = DOMAIN reqs'
    BY DEF InFlight, BagToSet
  <1>2. ~busy' /\ reqs' = Without(q) /\ IsAsk(q)
    BY DEF Replied, Busy, IsAsk
  <1>3. reqs[q] = 1 /\ \A r \in InFlight : IsAsk(r) => r = q
    BY <1>2 DEF AskInv, OneAsk
  <1>4. SameBut(reqs, reqs', q) /\ q \notin DOMAIN reqs'
    BY <1>1, <1>2, <1>3, WithoutCounts DEF Inv
  <1>5. \A e \in DOMAIN reqs' : ~IsAsk(e)
    BY <1>1, <1>3, <1>4 DEF SameBut
  <1>6. OneAsk'
    BY <1>1, <1>2, <1>5 DEF OneAsk
  <1>7. \A e \in page.thread : e.what = "asked" => e = asked
    <2> SUFFICES ASSUME NEW e \in page.thread, e.what = "asked" PROVE e = asked
      OBVIOUS
    <2>1. e.ws = q.ws
      BY <1>3 DEF AskInv, AskedIsSent
    <2>2. e \in Entries
      BY PageTyped DEF Inv
    <2> QED
      BY <2>1, <2>2 DEF Entries
  <1>8. page'.thread \subseteq (page.thread \ {asked}) \cup {answered}
    <2>1. CASE asked \in page.thread
      BY <2>1, PageTyped DEF Inv, Replied
    <2>2. CASE asked \notin page.thread
      BY <2>2 DEF Replied
    <2> QED
      BY <2>1, <2>2
  <1>9. \A e \in page'.thread : e.what # "asked"
    BY <1>7, <1>8
  <1> QED
    BY <1>6, <1>9 DEF AskInv, AskedIsSent

(* No other step asks or answers one. *)
LEMMA NextAsks == Inv /\ AskInv /\ [Next]_vars => AskInv'
  <1> SUFFICES ASSUME Inv, AskInv, [Next]_vars PROVE AskInv'
    OBVIOUS
  <1>b. IsABag(reqs) /\ \A q : IsABag(Without(q))
    BY WithoutBag DEF Inv
  <1>k. \A kind, w : kind # "ask" => ~IsAsk(Sent(kind, w))
    BY DEF Sent, IsAsk
  <1>t. \A t : [page EXCEPT !.thread = t].thread = t
    BY PageTyped DEF Inv
  <1>1. ASSUME UNCHANGED busy,
               \/ UNCHANGED reqs
               \/ \E q : ~IsAsk(q) /\ (reqs' = With(reqs, q) \/ reqs' = Without(q))
               \/ \E q, r : ~IsAsk(q) /\ ~IsAsk(r) /\ reqs' = With(Without(q), r)
               \/ \E q, r, s : /\ ~IsAsk(q) /\ ~IsAsk(r) /\ ~IsAsk(s)
                               /\ reqs' = With(With(Without(q), r), s),
               \A e \in page'.thread : e.what = "asked" => e \in page.thread
        PROVE  AskInv'
    <2>1. ASSUME NEW e, IsAsk(e)
          PROVE  /\ e \in DOMAIN reqs' <=> e \in DOMAIN reqs
                 /\ e \in DOMAIN reqs => reqs'[e] = reqs[e]
      <3>1. CASE UNCHANGED reqs
        BY <3>1
      <3>2. ASSUME NEW q, ~IsAsk(q), reqs' = With(reqs, q) \/ reqs' = Without(q)
            PROVE  /\ e \in DOMAIN reqs' <=> e \in DOMAIN reqs
                   /\ e \in DOMAIN reqs => reqs'[e] = reqs[e]
        BY <2>1, <3>2, <1>b, WithCounts, WithoutCounts DEF SameBut
      <3>3. ASSUME NEW q, NEW r, ~IsAsk(q), ~IsAsk(r), reqs' = With(Without(q), r)
            PROVE  /\ e \in DOMAIN reqs' <=> e \in DOMAIN reqs
                   /\ e \in DOMAIN reqs => reqs'[e] = reqs[e]
        BY <2>1, <3>3, <1>b, WithCounts, WithoutCounts DEF SameBut
      <3>4. ASSUME NEW q, NEW r, NEW s, ~IsAsk(q), ~IsAsk(r), ~IsAsk(s),
                   reqs' = With(With(Without(q), r), s)
            PROVE  /\ e \in DOMAIN reqs' <=> e \in DOMAIN reqs
                   /\ e \in DOMAIN reqs => reqs'[e] = reqs[e]
        <4>1. IsABag(With(Without(q), r))
          BY <1>b, WithBag
        <4> QED
          BY <2>1, <3>4, <4>1, <1>b, WithCounts, WithoutCounts DEF SameBut
      <3> QED
        BY <1>1, <3>1, <3>2, <3>3, <3>4
    <2> QED
      BY <1>1, <2>1, AsksKept
  <1>2. CASE UNCHANGED vars \/ (\E w \in Ws \cup {NoWs} : Navigate(w)) \/ OpenHome
    BY <1>2, <1>1 DEF vars, Navigate, OpenHome
  <1>3. CASE OpenWorkspace
    <2>1. PageFor(hash).thread = {} \/ PageFor(hash) = page
      BY DEF PageFor
    <2> QED
      BY <1>3, <2>1, <1>1, <1>k DEF OpenWorkspace
  <1>4. CASE Poll
    BY <1>4, <1>1, <1>k DEF Poll
  <1>5. CASE Upload \/ RemoveDoc \/ Clear \/ DeleteWorkspace
    BY <1>5, <1>1, <1>k DEF Upload, RemoveDoc, Clear, DeleteWorkspace
  <1>6. ASSUME NEW q \in InFlight, Answer(q) PROVE AskInv'
    <2>1. CASE Replied(q)
      BY <2>1, ReplyAnswers
    <2>2. CASE Opened(q)
      <3>1. ~IsAsk(q) /\ UNCHANGED busy
        BY <2>2 DEF Opened, IsAsk
      <3>2. page'.thread = page.thread
        BY <2>2, PageTyped DEF Opened, Inv
      <3>3. \/ reqs' = Without(q)
            \/ reqs' = With(With(Without(q), Sent("refresh", q.ws)), Sent("history", q.ws))
        BY <2>2 DEF Opened
      <3> QED
        BY <3>1, <3>2, <3>3, <1>1, <1>k
    <2>3. CASE Uploaded(q)
      <3>1. ~IsAsk(q) /\ UNCHANGED <<busy, page>>
        BY <2>3 DEF Uploaded, IsAsk
      <3>2. reqs' = Without(q) \/ reqs' = With(Without(q), Sent("refresh", workspaceId))
        BY <2>3 DEF Uploaded
      <3> QED
        BY <3>1, <3>2, <1>1, <1>k
    <2>4. CASE ClearedHistory(q)
      <3>1. ~IsAsk(q) /\ UNCHANGED busy /\ reqs' = Without(q)
        BY <2>4 DEF ClearedHistory, IsAsk
      <3>2. page'.thread = Empty(currentWs)
        BY <2>4, <1>t DEF ClearedHistory
      <3> QED
        BY <3>1, <3>2, <1>1 DEF Empty
    <2>5. CASE WorkspaceDeleted(q) \/ Failed(q)
      BY <2>5, <1>1 DEF WorkspaceDeleted, Failed, IsAsk
    <2>6. ASSUME NEW docs \in DocStates, Refreshed(q, docs) PROVE AskInv'
      <3>1. ~IsAsk(q) /\ UNCHANGED busy /\ reqs' = Without(q)
        BY <2>6 DEF Refreshed, IsAsk
      <3>2. page' = page \/ page'.thread = page.thread \/ page'.thread = Empty(q.ws)
        BY <2>6 DEF Refreshed
      <3> QED
        BY <3>1, <3>2, <1>1 DEF Empty
    <2>7. ASSUME NEW some \in BOOLEAN, HistoryLoaded(q, some) PROVE AskInv'
      <3>1. ~IsAsk(q) /\ UNCHANGED busy /\ reqs' = Without(q)
        BY <2>7 DEF HistoryLoaded, IsAsk
      <3>2. \/ page' = page
            \/ page'.thread = {[ws |-> q.ws, what |-> "history"]}
            \/ page'.thread = Empty(currentWs)
        BY <2>7, <1>t DEF HistoryLoaded
      <3> QED
        BY <3>1, <3>2, <1>1 DEF Empty
    <2> QED
      BY <1>6, <2>1, <2>2, <2>3, <2>4, <2>5, <2>6, <2>7 DEF Answer
  <1> QED
    BY <1>2, <1>3, <1>4, <1>5, <1>6, AskSends DEF Next

(* Initially none is on the page or in flight. *)
LEMMA InitAsks == Init => AskInv
  <1> SUFFICES ASSUME Init PROVE AskInv
    OBVIOUS
  <1>1. InFlight = {}
    BY DEF Init, EmptyBag, SetToBag, InFlight, BagToSet
  <1> QED
    BY <1>1 DEF Init, AskInv, OneAsk, AskedIsSent

-----------------------------------------------------------------------------
(* The theorems. *)

LEMMA SpecInv == Spec => []Inv
  <1>1. Inv /\ [Next]_vars => Inv'
    BY ReqsTyped, NextTyped, NextPainted, NextPolls DEF Inv
  <1> QED
    BY <1>1, InitInv, PTL DEF Spec

(* The page's state is well typed, for any number of workspaces, requests  *)
(* and polls.                                                              *)
THEOREM TypeCorrect == Spec => []TypeOK
  <1>1. Inv => TypeOK
    BY DEF Inv
  <1> QED
    BY <1>1, SpecInv, PTL

(* However many requests are answered in whatever order, the name, the     *)
(* documents and the conversation on the page are the open workspace's.    *)
THEOREM PageIsOpenWorkspace == Spec => []PaintedIsOpen
  <1>1. Inv => PaintedIsOpen
    BY DEF Inv
  <1> QED
    BY <1>1, SpecInv, PTL

(* A document shown as being worked on is polled for until it is not, or   *)
(* the user was told that asking failed.                                   *)
THEOREM WorkIsPolled == Spec => []KeepsPolling
  <1>1. Inv => KeepsPolling
    BY DEF Inv
  <1> QED
    BY <1>1, SpecInv, PTL

(* A question on the page that waits for its answer has one on its way,    *)
(* however many requests are in flight; and the form is locked while one   *)
(* question is, never for two.                                             *)
THEOREM QuestionsAreAnswered == Spec => [](AskedIsAnswered /\ OneAsk)
  <1>1. AskInv => AskedIsAnswered /\ OneAsk
    BY DEF AskInv, OneAsk, AskedIsSent, AskedIsAnswered, IsAsk
  <1> QED
    BY <1>1, SpecInv, InitAsks, NextAsks, PTL DEF Spec

=============================================================================
