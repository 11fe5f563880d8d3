-------------------------------- MODULE Chat --------------------------------
(***************************************************************************)
(* Questions to a workspace (app/api/chat.py): a request is authenticated, *)
(* finds its workspace, and is answered from what the workspace contains   *)
(* or, through embedder, search and LLM, from its passages; the exchange   *)
(* is saved before the answer goes out.  The same process runs ingestion,  *)
(* whose provider calls nobody waits for.  Sessions come from Accounts,    *)
(* provider calls from Backoff, each statement being a step of its own.    *)
(***************************************************************************)
EXTENDS Accounts, Backoff

CONSTANTS
    Requests,      \* chat and search requests handled at the same time
    Background,    \* ingestion runs that call the provider
    Workspaces,    \* workspace rows that may ever exist
    NoWorkspace,
    MaxAsks        \* bound: requests ever made

ASSUME ChatAssumption ==
    /\ Tasks = Requests \cup Background
    /\ Requests \cap Background = {}
    /\ NoWorkspace \notin Workspaces
    /\ MaxAsks \in Nat

VARIABLES
    ws,        \* "none", "unready", "ready" (some document is) or "gone"
    turns,     \* chat_messages: [ask, ws, user], a question with its answer
    wiped,     \* asks whose turns were cleared or went with the workspace
    req,       \* the requests being handled
    fate,      \* what became of each ask, as its client knows
    asks       \* requests made so far, at most MaxAsks

chatVars == <<ws, turns, wiped, req, fate, asks>>
vars == <<accountVars, backoffVars, chatVars>>

Exchange == [ask : 1..MaxAsks, ws : Workspaces, user : Names]

IdleRequest ==
    [at |-> "idle", ask |-> 0, kind |-> "chat", cred |-> NoToken,
     user |-> NoUser, ws |-> NoWorkspace]

Init ==
    /\ AccountsInit
    /\ marked = {}
    /\ call = [t \in Tasks |-> NoCall]
    /\ ws = [k \in Workspaces |-> "none"]
    /\ turns = {}
    /\ wiped = {}
    /\ req = [r \in Requests |-> IdleRequest]
    /\ fate = [a \in 1..MaxAsks |-> "unasked"]
    /\ asks = 0

There(k) == ws[k] \notin {"none", "gone"}

(* The turns of a conversation (history). *)
Conversation(k, u) == {e \in turns : e.ws = k /\ e.user = u}

At(r, stage) == req[r].at = stage
Goes(r, stage) == req' = [req EXCEPT ![r].at = stage]

(* The response: r is done, its client knows what came of it.              *)
Responds(r, outcome) ==
    /\ req' = [req EXCEPT ![r] = IdleRequest]
    /\ fate' = [fate EXCEPT ![req[r].ask] = outcome]

-----------------------------------------------------------------------------
(* A request, statement by statement.                                      *)

(* A request arrives.  A blank question is refused in the handler, after   *)
(* both dependencies passed.                                               *)
Ask(r, c, k, kind) ==
    /\ Up
    /\ At(r, "idle")
    /\ asks < MaxAsks
    /\ asks' = asks + 1
    /\ fate' = [fate EXCEPT ![asks + 1] = "open"]
    /\ req' = [req EXCEPT ![r] = [at |-> "auth", ask |-> asks + 1, kind |-> kind,
                                  cred |-> c, user |-> NoUser, ws |-> k]]
    /\ UNCHANGED <<accountVars, backoffVars, ws, turns, wiped>>

(* require_user: SELECT the session and its user, *)
Authenticate(r) ==
    /\ At(r, "auth")
    /\ \/ \E p \in PrincipalOf(req[r].cred) :
            /\ req' = [req EXCEPT ![r] = [req[r] EXCEPT !.at = "known", !.user = p]]
            /\ UNCHANGED fate
       \/ PrincipalOf(req[r].cred) = {} /\ Responds(r, "refused")
    /\ UNCHANGED <<accountVars, backoffVars, ws, turns, wiped, asks>>

(* UPDATE the session's last_seen_at; from here only the principal counts. *)
Touch(r) ==
    /\ At(r, "known")
    /\ session' = IF auth THEN Touched(req[r].cred) ELSE session
    /\ req' = [req EXCEPT ![r] = [req[r] EXCEPT !.at = "seen", !.cred = NoToken]]
    /\ UNCHANGED <<auth, boots, users, owner, backoffVars, ws, turns,
                   wiped, fate, asks>>

(* require_workspace, and the check of the question. *)
FindWorkspace(r) ==
    /\ At(r, "seen")
    /\ IF There(req[r].ws) /\ req[r].kind # "blank"
       THEN /\ Goes(r, IF req[r].kind = "search" THEN "retrieve" ELSE "corpus")
            /\ UNCHANGED fate
       ELSE Responds(r, "refused")
    /\ UNCHANGED <<accountVars, backoffVars, ws, turns, wiped, asks>>

(* The two messages of an exchange. *)
Kept(r) == {[ask |-> req[r].ask, ws |-> req[r].ws, user |-> req[r].user]}

(* _corpus_state: small talk, and anything asked of a workspace with no    *)
(* ready document, is answered from what the workspace contains            *)
(* (conversation.reply), without the provider.                             *)
SmallTalk(r) == req[r].kind = "talk"
Stage(r) == IF SmallTalk(r) \/ ws[req[r].ws] # "ready" THEN "save" ELSE "retrieve"

LookAround_SavesFirst(r) ==
    /\ At(r, "corpus")
    /\ Goes(r, IF Stage(r) = "save" THEN "reply" ELSE Stage(r))
    /\ turns' = IF req[r].user # NoUser /\ There(req[r].ws) THEN turns \cup Kept(r) ELSE turns
    /\ UNCHANGED <<accountVars, backoffVars, ws, wiped, fate, asks>>
LookAround(r) ==
    /\ At(r, "corpus")
    /\ req' = [req EXCEPT ![r] = [req[r] EXCEPT !.kind = "chat", !.at = Stage(r)]]
    /\ UNCHANGED <<accountVars, backoffVars, ws, turns, wiped, fate, asks>>

(* with interactive(): retrieve embeds the question, *)
Retrieve(r) ==
    /\ At(r, "retrieve")
    /\ marked' = marked \cup {r}
    /\ call' = [call EXCEPT ![r] = FirstAttempt]
    /\ Goes(r, "embedding")
    /\ UNCHANGED <<accountVars, ws, turns, wiped, fate, asks>>

(* embed_batch and complete each make one call of with_backoff. *)
Embedded(r) == At(r, "embedding") /\ call[r].at = "returned"
Completed(r) == At(r, "completing") /\ call[r].at = "returned"

LeavesInteractive(r) ==
    /\ call' = [call EXCEPT ![r] = NoCall]
    /\ marked' = marked \ {r}

(* A search request answers with the hits. *)
SearchAnswers(r) ==
    /\ Embedded(r)
    /\ req[r].kind = "search"
    /\ Responds(r, "unsaved")
    /\ LeavesInteractive(r)
    /\ UNCHANGED <<accountVars, ws, turns, wiped, asks>>

(* A chat: no hit is an answer of its own, without the LLM                 *)
(* (answer_question); hits go to the LLM.                                  *)
Search(r) ==
    /\ Embedded(r)
    /\ req[r].kind = "chat"
    /\ \/ Goes(r, "save") /\ LeavesInteractive(r)
       \/ /\ There(req[r].ws)
          /\ Goes(r, "completing")
          /\ call' = [call EXCEPT ![r] = FirstAttempt]
          /\ UNCHANGED marked
    /\ UNCHANGED <<accountVars, ws, turns, wiped, fate, asks>>

(* The LLM answers, or refuses. *)
Complete(r) ==
    /\ Completed(r)
    /\ Goes(r, "save")
    /\ LeavesInteractive(r)
    /\ UNCHANGED <<accountVars, ws, turns, wiped, fate, asks>>

(* RateLimited becomes 429; anything else 502, or 500 from a search.       *)
GiveUp(r) ==
    /\ req[r].at \in {"embedding", "completing"}
    /\ call[r].at \in {"limited", "raised"}
    /\ Responds(r, IF call[r].at = "limited" THEN "busy" ELSE "failed")
    /\ LeavesInteractive(r)
    /\ UNCHANGED <<accountVars, ws, turns, wiped, asks>>

(* _save_turns: both messages in one transaction, for a person; the        *)
(* workspace row must still be there (foreign key), or the request fails.  *)
CanSave(r) == There(req[r].ws)

SaveFails(r) == Responds(r, "failed")

Save(r) ==
    /\ At(r, "save")
    /\ \/ req[r].user = NoUser /\ Goes(r, "reply") /\ UNCHANGED <<turns, fate>>
       \/ /\ req[r].user # NoUser
          /\ CanSave(r)
          /\ turns' = turns \cup Kept(r)
          /\ Goes(r, "reply")
          /\ UNCHANGED fate
       \/ req[r].user # NoUser /\ ~CanSave(r) /\ SaveFails(r) /\ UNCHANGED turns
    /\ UNCHANGED <<accountVars, backoffVars, ws, wiped, asks>>

Reply(r) ==
    /\ At(r, "reply")
    /\ Responds(r, IF req[r].user = NoUser THEN "unsaved" ELSE "answered")
    /\ UNCHANGED <<accountVars, backoffVars, ws, turns, wiped, asks>>

RequestStep(r) ==
    \/ Authenticate(r) \/ Touch(r) \/ FindWorkspace(r) \/ LookAround(r)
    \/ Retrieve(r) \/ SearchAnswers(r) \/ Search(r) \/ Complete(r) \/ GiveUp(r) \/ Save(r) \/ Reply(r)

-----------------------------------------------------------------------------
(* The other operations on the same rows. *)

(* clear_history: one DELETE, committed. *)
Clear(c, k) ==
    /\ Up
    /\ There(k)
    /\ \E u \in PrincipalOf(c) :
        /\ Conversation(k, u) # {}
        /\ turns' = turns \ Conversation(k, u)
        /\ wiped' = wiped \cup {e.ask : e \in Conversation(k, u)}
    /\ UNCHANGED <<accountVars, backoffVars, ws, req, fate, asks>>

(* create_workspace; ids and slugs are new.  *)
CreateWorkspace(c, k) ==
    /\ Up
    /\ MayChange(c)
    /\ ws[k] = "none"
    /\ ws' = [ws EXCEPT ![k] = "unready"]
    /\ UNCHANGED <<accountVars, backoffVars, turns, wiped, req, fate, asks>>

(* delete_workspace: the row goes, and with it all that refers to it.      *)
OfWorkspace(k) == {e \in turns : e.ws = k}

DeleteWorkspace(c, k) ==
    /\ Up
    /\ MayChange(c)
    /\ There(k)
    /\ ws' = [ws EXCEPT ![k] = "gone"]
    /\ turns' = turns \ OfWorkspace(k)
    /\ wiped' = wiped \cup {e.ask : e \in OfWorkspace(k)}
    /\ UNCHANGED <<accountVars, backoffVars, req, fate, asks>>

(* Uploads, runs and reindexes change what the workspace contains.         *)
Corpus(k) ==
    /\ Up
    /\ \/ ws[k] = "unready" /\ ws' = [ws EXCEPT ![k] = "ready"]
       \/ ws[k] = "ready" /\ ws' = [ws EXCEPT ![k] = "unready"]
    /\ UNCHANGED <<accountVars, backoffVars, turns, wiped, req, fate, asks>>

(* An ingestion run calls the provider and takes what comes of it. *)
BackgroundCall(b) ==
    /\ Up
    /\ \/ call[b] = NoCall /\ call' = [call EXCEPT ![b] = FirstAttempt]
       \/ call[b].at \in Ended /\ call' = [call EXCEPT ![b] = NoCall]
    /\ UNCHANGED <<accountVars, marked, chatVars>>

(* The process stops, or dies, and starts again: what it was handling is   *)
(* lost, clients see the connection break; rows stay.                      *)
Restart(a) ==
    /\ Boot(a)
    /\ marked' = {}
    /\ call' = [t \in Tasks |-> NoCall]
    /\ req' = [r \in Requests |-> IdleRequest]
    /\ fate' = [n \in 1..MaxAsks |-> IF fate[n] = "open" THEN "lost" ELSE fate[n]]
    /\ UNCHANGED <<ws, turns, wiped, asks>>

Next ==
    \/ \E r \in Requests :
        \/ \E c \in Credentials, k \in Workspaces, kind \in {"chat", "talk", "blank", "search"} :
             Ask(r, c, k, kind)
        \/ RequestStep(r)
    \/ \E t \in Tasks : ProviderStep(t) /\ UNCHANGED <<accountVars, chatVars>>
    \/ \E b \in Background : BackgroundCall(b)
    \/ \E k \in Workspaces :
        \/ Corpus(k)
        \/ \E c \in Credentials : Clear(c, k) \/ CreateWorkspace(c, k) \/ DeleteWorkspace(c, k)
    \/ AccountStep /\ UNCHANGED <<backoffVars, chatVars>>
    \/ \E a \in AuthModes : Restart(a)

(* A handler that can go on does; the provider answers or fails, and a     *)
(* sleep ends.                                                             *)
Fairness ==
    /\ \A r \in Requests : WF_vars(RequestStep(r))
    /\ \A t \in Tasks : WF_vars(ProviderStep(t) /\ UNCHANGED <<accountVars, chatVars>>)

Spec == Init /\ [][Next]_vars /\ Fairness

-----------------------------------------------------------------------------
(* Properties. *)

Fates == {"unasked", "open", "answered", "unsaved", "refused", "busy", "failed", "lost"}

RequestRec ==
    [at : {"idle", "auth", "known", "seen", "corpus", "retrieve", "embedding",
           "completing", "save", "reply"},
     ask : 0..MaxAsks, kind : {"chat", "talk", "blank", "search"}, cred : Credentials,
     user : Names \cup {NoUser}, ws : Workspaces \cup {NoWorkspace}]

TypeOK ==
    /\ AccountsTypeOK
    /\ BackoffTypeOK
    /\ ws \in [Workspaces -> {"none", "unready", "ready", "gone"}]
    /\ turns \subseteq Exchange
    /\ wiped \subseteq 1..MaxAsks
    /\ req \in [Requests -> RequestRec]
    /\ fate \in [1..MaxAsks -> Fates]
    /\ asks \in 0..MaxAsks

(* The conversation a person finds again is the one they had: an exchange  *)
(* is in the history only if its answer went out, is about to, or broke    *)
(* with the connection; a question that came back busy or failed is not;   *)
(* and every chat answer they got is in it until they clear it or the      *)
(* workspace goes, which no message of it outlives.                        *)
HistoryIsWhatWasAnswered ==
    /\ \A e \in turns :
         /\ \/ fate[e.ask] \in {"answered", "lost"}
            \/ \E r \in Requests : At(r, "reply") /\ req[r].ask = e.ask
         /\ There(e.ws)
    /\ \A a \in 1..MaxAsks :
         fate[a] = "answered" => a \in wiped \/ \E e \in turns : e.ask = a

(* "Background work leaves it unset and waits out the quota window instead *)
(* of failing": an ingestion run's call is only given up for quota after   *)
(* its last attempt, whoever is asking at the same time.                   *)
BackgroundIsPatient ==
    \A b \in Background : call[b].at = "limited" => call[b].attempt = MaxAttempts

(* Whoever asks is told something, or loses the connection. *)
EveryAskEnds == \A a \in 1..MaxAsks : fate[a] = "open" ~> fate[a] # "open"

=============================================================================
