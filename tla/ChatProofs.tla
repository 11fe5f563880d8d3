----------------------------- MODULE ChatProofs -----------------------------
(***************************************************************************)
(* Proofs about Chat: for any number of people, sessions, questions and    *)
(* ingestion runs at once, the history holds exactly the answers that went *)
(* out, a person is not kept waiting for quota, background work is not     *)
(* refused because of one, and a session signed out stays out.             *)
(***************************************************************************)
EXTENDS Chat, TLAPS

-----------------------------------------------------------------------------
(* Provider calls. *)

(* A call has made an attempt; its first one comes before any wait; who    *)
(* waits has an attempt left.                                              *)
Counted(c) ==
    /\ c.at = "trying" => c.attempt >= 1 /\ (c.attempt = 1 => c.waits = <<>>)
    /\ c.at = "waiting" => c.attempt >= 1 /\ c.attempt < MaxAttempts

CallInv ==
    /\ call \in [Tasks -> Calls]
    /\ marked \subseteq Requests
    /\ \A t \in Tasks : Counted(call[t])
    /\ QuotaWaitIsShort
    /\ BackgroundIsPatient

LEMMA TaskKinds == Requests \subseteq Tasks /\ Background \subseteq Tasks /\ Requests \cap Background = {}
  BY ChatAssumption

(* What QuotaWaitIsShort says of one call. *)
ShortWaits(waits) ==
    Len(waits) <= 1 /\ \A i \in DOMAIN waits : waits[i] <= INTERACTIVE_MAX_WAIT + LongestPadding

LEMMA NoWaitIsShort == ShortWaits(<<>>)
  BY DEF ShortWaits

(* No call and the start of one are as they should be. *)
LEMMA FreshCalls ==
    \A c \in {NoCall, FirstAttempt} :
        /\ c \in Calls /\ Counted(c)
        /\ c.waits = <<>> /\ c.at # "limited"
  <1>1. <<>> \in Seq(Nat) /\ 0 \in 0..MaxAttempts /\ 1 \in 0..MaxAttempts
    BY BackoffAssumption
  <1>2. NoCall \in Calls /\ FirstAttempt \in Calls
    BY <1>1 DEF NoCall, FirstAttempt, Calls
  <1> QED
    BY <1>2 DEF NoCall, FirstAttempt, Counted

(* Calls start and end, others stay as they are. *)
LEMMA CallsStartAndEnd ==
    ASSUME CallInv,
           call' \in [Tasks -> {NoCall, FirstAttempt} \cup Calls],
           marked' \subseteq Requests,
           \A t \in Tasks : \/ call'[t] \in {NoCall, FirstAttempt}
                            \/ call'[t] = call[t] /\ (t \in marked' => t \in marked)
    PROVE  CallInv'
  <1>1. call' \in [Tasks -> Calls]
    BY FreshCalls
  <1>2. \A t \in Tasks : Counted(call'[t])
    BY FreshCalls DEF CallInv
  <1>3. QuotaWaitIsShort'
    BY FreshCalls, NoWaitIsShort, TaskKinds DEF CallInv, QuotaWaitIsShort, ShortWaits
  <1>4. BackgroundIsPatient'
    BY FreshCalls, TaskKinds DEF CallInv, BackgroundIsPatient
  <1> QED
    BY <1>1, <1>2, <1>3, <1>4 DEF CallInv

(* What a person waits is a number, short, and waited in the first attempt *)
(* only.                                                                   *)
LEMMA Waits ==
    ASSUME CallInv, NEW t \in Tasks, NEW e \in Errors, NEW padding \in Paddings, ~GivesUp(t, e)
    PROVE  \/ Delay(t, e, padding) = <<>>
           \/ /\ IsInteractive(t) /\ call[t].attempt < 2
              /\ \E n \in Nat : /\ Delay(t, e, padding) = <<n>>
                               /\ n <= INTERACTIVE_MAX_WAIT + LongestPadding
  <1>1. CASE ~(IsInteractive(t) /\ is_rate_limit(e))
    BY <1>1 DEF Delay
  <1>2. CASE IsInteractive(t) /\ is_rate_limit(e)
    <2>1. server_retry_after(e) = NoWindow \/ server_retry_after(e) \in Nat
      <3>1. e.retryIn = NoWindow \/ e.retryIn \in Nat
        BY BackoffAssumption DEF Errors
      <3> QED
        BY <3>1 DEF server_retry_after, Smaller, MaxServerDelay
    <2>2. call[t].attempt \in Nat /\ padding \in 5..20
      BY BackoffAssumption DEF CallInv, Calls
    <2>3. ~TooLong(t, e)
      BY <1>2 DEF GivesUp
    <2>4. /\ server_retry_after(e) \in Nat /\ server_retry_after(e) <= INTERACTIVE_MAX_WAIT
          /\ call[t].attempt < 2
      BY <2>1, <2>2, <2>3 DEF TooLong, INTERACTIVE_MAX_WAIT
    <2>5. Delay(t, e, padding) = <<server_retry_after(e) + padding>>
      BY <1>2 DEF Delay
    <2> QED
      BY <1>2, <2>2, <2>4, <2>5 DEF INTERACTIVE_MAX_WAIT, LongestPadding
  <1> QED
    BY <1>1, <1>2

(* One call goes on. *)
LEMMA CallReplaced ==
    ASSUME CallInv, NEW t \in Tasks, NEW c \in Calls,
           call' = [call EXCEPT ![t] = c], marked' = marked, Counted(c),
           t \in marked => ShortWaits(c.waits),
           t \in Background /\ c.at = "limited" => c.attempt = MaxAttempts
    PROVE  CallInv'
  <1>1. call' \in [Tasks -> Calls] /\ call'[t] = c /\ \A u \in Tasks \ {t} : call'[u] = call[u]
    BY DEF CallInv
  <1>2. (\A u \in Tasks : Counted(call[u]))'
    BY <1>1 DEF CallInv
  <1>3. QuotaWaitIsShort'
    BY <1>1, TaskKinds DEF CallInv, QuotaWaitIsShort, ShortWaits
  <1>4. BackgroundIsPatient'
    BY <1>1, TaskKinds DEF CallInv, BackgroundIsPatient
  <1> QED
    BY <1>1, <1>2, <1>3, <1>4 DEF CallInv

LEMMA CallsGoOn ==
    ASSUME CallInv, NEW t \in Tasks, ProviderStep(t)
    PROVE  CallInv'
  <1> DEFINE c == call[t]
  <1>1. c \in Calls /\ Counted(c) /\ MaxAttempts \in Nat /\ MaxAttempts > 0
    BY BackoffAssumption DEF CallInv
  <1>2. c = [at |-> c.at, attempt |-> c.attempt, waits |-> c.waits]
          /\ c.attempt \in 0..MaxAttempts /\ c.waits \in Seq(Nat)
    BY <1>1 DEF Calls
  <1>3. marked' = marked /\ call \in [Tasks -> Calls]
    BY DEF ProviderStep, CallInv
  <1>4. t \in marked => ShortWaits(c.waits)
    BY DEF CallInv, QuotaWaitIsShort, ShortWaits
  <1>5. t \in Background => ~IsInteractive(t)
    BY TaskKinds DEF CallInv, IsInteractive
  <1>6. CASE Succeeds(t)
    <2> DEFINE x == [at |-> "returned", attempt |-> 0, waits |-> <<>>]
    <2>1. call' = [call EXCEPT ![t] = x]
      <3>1. x = [NoCall EXCEPT !.at = "returned"]
        BY DEF NoCall
      <3> QED
        BY <1>6, <3>1 DEF Succeeds
    <2>2. x \in Calls /\ Counted(x) /\ ShortWaits(x.waits)
      BY <1>1, NoWaitIsShort DEF Calls, Ended, Counted
    <2> QED
      BY <1>3, <2>1, <2>2, CallReplaced
  <1>7. CASE TriesAgain(t)
    <2> DEFINE x == [at |-> "trying", attempt |-> c.attempt + 1, waits |-> c.waits]
    <2>1. call' = [call EXCEPT ![t] = x] /\ c.at = "waiting"
      BY <1>7 DEF TriesAgain
    <2>2. x \in Calls /\ Counted(x)
      <3>1. c.attempt < MaxAttempts
        BY <1>1, <2>1 DEF Counted
      <3>2. c.attempt >= 1
        BY <1>1, <2>1 DEF Counted
      <3> QED
        BY <1>1, <1>2, <3>1, <3>2 DEF Calls, Counted
    <2> QED
      BY <1>3, <1>4, <2>1, <2>2, CallReplaced
  <1>8. ASSUME NEW e \in Errors, NEW padding \in Paddings, Fails(t, e, padding) PROVE CallInv'
    <2>0. c.at = "trying" /\ c.attempt >= 1
      BY <1>1, <1>8 DEF Fails, Counted
    <2>1. CASE GivesUp(t, e) /\ is_rate_limit(e)
      <3> DEFINE x == [at |-> "limited", attempt |-> c.attempt, waits |-> c.waits]
      <3>1. call' = [call EXCEPT ![t] = x]
        <4>1. x = [c EXCEPT !.at = "limited"]
          BY <1>2
        <4> QED
          BY <1>8, <2>1, <4>1 DEF Fails
      <3>2. x \in Calls /\ Counted(x)
        BY <1>2 DEF Calls, Ended, Counted
      <3>3. t \in Background => x.attempt = MaxAttempts
        BY <1>1, <1>2, <1>5, <2>1 DEF GivesUp, is_rate_limit, is_retryable
      <3> QED
        BY <1>3, <1>4, <3>1, <3>2, <3>3, CallReplaced
    <2>2. CASE GivesUp(t, e) /\ ~is_rate_limit(e)
      <3> DEFINE x == [at |-> "raised", attempt |-> 0, waits |-> <<>>]
      <3>1. call' = [call EXCEPT ![t] = x]
        <4>1. x = [NoCall EXCEPT !.at = "raised"]
          BY DEF NoCall
        <4> QED
          BY <1>8, <2>2, <4>1 DEF Fails
      <3>2. x \in Calls /\ Counted(x) /\ ShortWaits(x.waits)
        BY <1>1, NoWaitIsShort DEF Calls, Ended, Counted
      <3> QED
        BY <1>3, <3>1, <3>2, CallReplaced
    <2>3. CASE ~GivesUp(t, e)
      <3> DEFINE delay == Delay(t, e, padding)
                 x == [at |-> "waiting", attempt |-> c.attempt, waits |-> c.waits \o delay]
      <3>1. call' = [call EXCEPT ![t] = x]
        BY <1>8, <2>3 DEF Fails
      <3>2. c.attempt < MaxAttempts
        BY <1>1, <1>2, <2>3 DEF GivesUp
      <3>3. c.waits \o delay \in Seq(Nat) /\ (t \in marked => ShortWaits(c.waits \o delay))
        <4>1. CASE delay = <<>>
          BY <4>1, <1>2, <1>4
        <4>2. CASE delay # <<>>
          <5>1. c.attempt < 2
            BY <4>2, <2>3, Waits
          <5>2. c.waits = <<>>
            BY <5>1, <2>0, <1>1, <1>2 DEF Counted
          <5>3. PICK n \in Nat : delay = <<n>> /\ n <= INTERACTIVE_MAX_WAIT + LongestPadding
            BY <4>2, <2>3, Waits
          <5>4. c.waits \o delay = <<n>>
            BY <5>2, <5>3
          <5>5. <<n>> \in Seq(Nat) /\ ShortWaits(<<n>>)
            BY <5>3 DEF ShortWaits
          <5> QED
            BY <5>4, <5>5
        <4> QED
          BY <4>1, <4>2
      <3>4. x \in Calls /\ Counted(x)
        BY <1>2, <2>0, <3>2, <3>3 DEF Calls, Counted
      <3> QED
        BY <1>3, <3>1, <3>3, <3>4, CallReplaced
    <2> QED
      BY <2>1, <2>2, <2>3
  <1> QED
    BY <1>6, <1>7, <1>8 DEF ProviderStep

(* Requests start calls and take their ends; nothing else touches a call. *)
LEMMA NextCalls == CallInv /\ [Next]_vars => CallInv'
  <1> SUFFICES ASSUME CallInv, [Next]_vars PROVE CallInv'
    OBVIOUS
  <1>1. call \in [Tasks -> Calls] /\ marked \subseteq Requests
    BY DEF CallInv
  <1>2. ASSUME UNCHANGED <<call, marked>> PROVE CallInv'
    BY <1>1, <1>2, CallsStartAndEnd
  <1>3. ASSUME NEW r \in Requests, NEW c \in {NoCall, FirstAttempt},
               call' = [call EXCEPT ![r] = c], marked' \subseteq marked \cup {r}
        PROVE  CallInv'
    <2>1. \A t \in Tasks : \/ call'[t] \in {NoCall, FirstAttempt}
                           \/ call'[t] = call[t] /\ (t \in marked' => t \in marked)
      BY <1>1, <1>3, TaskKinds
    <2> QED
      BY <1>1, <1>3, <2>1, TaskKinds, FreshCalls, CallsStartAndEnd
  <1>4. ASSUME NEW r \in Requests, RequestStep(r) PROVE CallInv'
    <2>1. CASE Authenticate(r) \/ Touch(r) \/ FindWorkspace(r) \/ LookAround(r) \/ Save(r) \/ Reply(r)
      BY <2>1, <1>2 DEF Authenticate, Touch, FindWorkspace, LookAround, Save, Reply, backoffVars
    <2>2. CASE Retrieve(r) \/ SearchAnswers(r) \/ Search(r) \/ Complete(r) \/ GiveUp(r)
      BY <2>2, <1>3 DEF Retrieve, SearchAnswers, Search, Complete, GiveUp, LeavesInteractive
    <2> QED
      BY <1>4, <2>1, <2>2 DEF RequestStep
  <1>5. ASSUME NEW b \in Background, BackgroundCall(b) PROVE CallInv'
    <2>1. \A t \in Tasks : call'[t] \in {NoCall, FirstAttempt} \/ call'[t] = call[t]
      BY <1>1, <1>5, TaskKinds DEF BackgroundCall
    <2>2. call' \in [Tasks -> Calls] /\ marked' = marked
      BY <1>1, <1>5, FreshCalls, TaskKinds DEF BackgroundCall
    <2> QED
      BY <1>1, <2>1, <2>2, CallsStartAndEnd
  <1>6. ASSUME NEW a, Restart(a) PROVE CallInv'
    BY <1>6, CallsStartAndEnd DEF Restart
  <1>7. ASSUME NEW r, NEW c, NEW k, NEW kind, Ask(r, c, k, kind) PROVE CallInv'
    BY <1>7, <1>2 DEF Ask, backoffVars
  <1>8. ASSUME NEW c, NEW k, Clear(c, k) \/ CreateWorkspace(c, k) \/ DeleteWorkspace(c, k) PROVE CallInv'
    BY <1>8, <1>2 DEF Clear, CreateWorkspace, DeleteWorkspace, backoffVars
  <1>9. ASSUME NEW k, Corpus(k) PROVE CallInv'
    BY <1>9, <1>2 DEF Corpus, backoffVars
  <1>10. CASE UNCHANGED backoffVars
    BY <1>10, <1>2 DEF backoffVars
  <1> QED
    BY <1>4, <1>5, <1>6, <1>7, <1>8, <1>9, <1>10, CallsGoOn DEF Next, vars

LEMMA InitCalls == Init => CallInv
  <1> SUFFICES ASSUME marked = {}, call = [t \in Tasks |-> NoCall] PROVE CallInv
    BY DEF Init
  <1> QED
    BY FreshCalls, TaskKinds DEF CallInv, QuotaWaitIsShort, BackgroundIsPatient

(* A person inside interactive() waits for quota once at most, over all    *)
(* the attempts of a call, and then for a window of INTERACTIVE_MAX_WAIT   *)
(* at most and its padding.                                                *)
THEOREM WaitsAreShort == Spec => []QuotaWaitIsShort
  <1>1. CallInv => QuotaWaitIsShort
    BY DEF CallInv
  <1> QED
    BY <1>1, InitCalls, NextCalls, PTL DEF Spec

(* An ingestion run's call is given up for quota only after its last       *)
(* attempt, whoever asks questions meanwhile.                              *)
THEOREM RunsWaitForQuota == Spec => []BackgroundIsPatient
  <1>1. CallInv => BackgroundIsPatient
    BY DEF CallInv
  <1> QED
    BY <1>1, InitCalls, NextCalls, PTL DEF Spec

-----------------------------------------------------------------------------
(* Accounts. *)

LEMMA NextAccounts == AccountsTypeOK /\ [Next]_vars => AccountsTypeOK'
  <1> SUFFICES ASSUME AccountsTypeOK, [Next]_vars PROVE AccountsTypeOK'
    OBVIOUS
  <1>1. CASE UNCHANGED accountVars
    BY <1>1 DEF accountVars, AccountsTypeOK
  <1>2. CASE AccountStep
    BY <1>2, AccountsAssumption DEF AccountStep, Logout, Expire, Login, CreateUser, AccountsTypeOK
  <1>3. ASSUME NEW a \in AuthModes, Restart(a) PROVE AccountsTypeOK'
    <2>1. Boot(a)
      BY <1>3 DEF Restart
    <2>2. Bootstrapped(a) \in [Names -> {"none", "nopass", "reader", "admin"}]
      BY AccountsAssumption DEF AccountsTypeOK, Bootstrapped
    <2>3. Purged \in [Tokens -> {"unused", "live", "expired", "gone"}]
      BY DEF AccountsTypeOK, Purged
    <2> QED
      BY <2>1, <2>2, <2>3, AccountsAssumption DEF Boot, AccountsTypeOK
  <1>4. ASSUME NEW r, Touch(r) PROVE AccountsTypeOK'
    BY <1>4 DEF Touch, Touched, AccountsTypeOK
  <1> QED
    BY <1>1, <1>2, <1>3, <1>4 DEF Next, vars, RequestStep, Ask, Authenticate, FindWorkspace,
       LookAround, Retrieve, SearchAnswers, Search, Complete, GiveUp, Save, Reply,
       BackgroundCall, Corpus, Clear, CreateWorkspace, DeleteWorkspace

LEMMA InitAccounts == Init => AccountsTypeOK
  <1> SUFFICES ASSUME AccountsInit PROVE AccountsTypeOK
    BY DEF Init
  <1>1. auth \in BOOLEAN
    BY Zenon DEF AccountsInit
  <1> QED
    BY <1>1, AccountsAssumption DEF AccountsInit, AccountsTypeOK

(* A session that was signed out, or ran out, never comes back, whatever   *)
(* requests are under way with it.                                         *)
THEOREM SignOutIsFinal == Spec => SignedOutStaysOut
  <1> DEFINE Stays == \A t \in Tokens : /\ session[t] = "gone" => session'[t] = "gone"
                                        /\ session[t] = "expired" => session'[t] # "live"
  <1>1. AccountsTypeOK /\ [Next]_vars => [Stays]_session
    <2> SUFFICES ASSUME AccountsTypeOK, Next, session' # session PROVE Stays
      BY DEF vars, accountVars
    <2>1. CASE AccountStep
      BY <2>1 DEF AccountStep, Logout, Expire, Login, CreateUser, AccountsTypeOK
    <2>2. ASSUME NEW a, Restart(a) PROVE Stays
      BY <2>2 DEF Restart, Boot, Purged
    <2>3. ASSUME NEW r, Touch(r) PROVE FALSE
      BY <2>3 DEF Touch, Touched
    <2> QED
      BY <2>1, <2>2, <2>3 DEF Next, accountVars, RequestStep, Ask, Authenticate, FindWorkspace,
         LookAround, Retrieve, SearchAnswers, Search, Complete, GiveUp, Save, Reply,
         BackgroundCall, Corpus, Clear, CreateWorkspace, DeleteWorkspace
  <1> QED
    BY <1>1, InitAccounts, NextAccounts, PTL DEF Spec, SignedOutStaysOut

-----------------------------------------------------------------------------
(* The history. *)

Asked(r) == req[r].at # "idle"

(* A request answers an ask of its own, which nobody has heard of yet.  An *)
(* exchange that is saved but not answered yet is that of the request      *)
(* about to answer, if the asker is a person.                              *)
HistoryInv ==
    /\ ws \in [Workspaces -> {"none", "unready", "ready", "gone"}]
    /\ turns \subseteq Exchange
    /\ wiped \subseteq 1..MaxAsks
    /\ req \in [Requests -> RequestRec]
    /\ fate \in [1..MaxAsks -> Fates]
    /\ asks \in 0..MaxAsks
    /\ \A r \in Requests : Asked(r) =>
         req[r].ask \in 1..asks /\ fate[req[r].ask] = "open" /\ req[r].ws \in Workspaces
    /\ \A r, s \in Requests : Asked(r) /\ Asked(s) /\ req[r].ask = req[s].ask => r = s
    /\ \A a \in 1..MaxAsks : a > asks => fate[a] = "unasked"
    /\ \A r \in Requests : At(r, "reply") =>
         IF req[r].user = NoUser THEN \A e \in turns : e.ask # req[r].ask
         ELSE req[r].ask \in wiped \/ \E e \in turns : e.ask = req[r].ask
    /\ HistoryIsWhatWasAnswered

(* Nothing is saved of a question before its answer is. *)
LEMMA NothingYet ==
    ASSUME HistoryInv, NEW r \in Requests, Asked(r), ~At(r, "reply")
    PROVE  \A e \in turns : e.ask # req[r].ask
  <1> SUFFICES ASSUME NEW e \in turns, e.ask = req[r].ask PROVE FALSE
    OBVIOUS
  <1>1. fate[e.ask] = "open"
    BY DEF HistoryInv
  <1>2. PICK s \in Requests : At(s, "reply") /\ req[s].ask = e.ask
    BY <1>1 DEF HistoryInv, HistoryIsWhatWasAnswered
  <1> QED
    BY <1>2 DEF HistoryInv, Asked, At

LEMMA MaxAsksNat == MaxAsks \in Nat
  BY ChatAssumption

(* Workspaces come and change. *)
LEMMA HistoryKept ==
    ASSUME HistoryInv, UNCHANGED <<turns, wiped, req, fate, asks>>,
           ws' \in [Workspaces -> {"none", "unready", "ready", "gone"}],
           \A k \in Workspaces : There(k) => There(k)'
    PROVE  HistoryInv'
  <1>1. HistoryIsWhatWasAnswered'
    BY DEF HistoryInv, HistoryIsWhatWasAnswered, At, Exchange
  <1> QED
    BY <1>1 DEF HistoryInv, Asked, At

(* A request goes on, up to the save. *)
LEMMA RequestMoves ==
    ASSUME HistoryInv, UNCHANGED <<turns, wiped, fate, asks, ws>>,
           NEW r \in Requests, NEW x \in RequestRec, req' = [req EXCEPT ![r] = x],
           Asked(r), ~At(r, "reply"), x.at \notin {"idle", "reply"},
           x.ask = req[r].ask, x.ws = req[r].ws
    PROVE  HistoryInv'
  <1>1. /\ req' \in [Requests -> RequestRec] /\ req'[r] = x
        /\ \A s \in Requests \ {r} : req'[s] = req[s]
    BY DEF HistoryInv
  <1>2. HistoryIsWhatWasAnswered'
    BY <1>1 DEF HistoryInv, HistoryIsWhatWasAnswered, At, There
  <1>3. \A s \in Requests : Asked(s)' => Asked(s) /\ req'[s].ask = req[s].ask /\ req'[s].ws = req[s].ws
    BY <1>1 DEF Asked
  <1>4. \A s \in Requests : At(s, "reply")' => At(s, "reply") /\ req'[s] = req[s]
    BY <1>1 DEF At
  <1> QED
    BY <1>1, <1>2, <1>3, <1>4 DEF HistoryInv

(* A request ends without an answer in the history. *)
LEMMA RequestEnds ==
    ASSUME HistoryInv, UNCHANGED <<turns, wiped, asks, ws>>,
           NEW r \in Requests, Asked(r), \A e \in turns : e.ask # req[r].ask,
           NEW outcome \in {"unsaved", "refused", "busy", "failed"}, Responds(r, outcome)
    PROVE  HistoryInv'
  <1>0. IdleRequest \in RequestRec /\ IdleRequest.at = "idle"
    BY MaxAsksNat DEF IdleRequest, RequestRec, Credentials
  <1>1. /\ req' \in [Requests -> RequestRec] /\ req'[r] = IdleRequest
        /\ \A s \in Requests \ {r} : req'[s] = req[s]
    BY <1>0 DEF HistoryInv, Responds
  <1>2. req[r].ask \in 1..asks /\ req[r].ask \in 1..MaxAsks
    BY MaxAsksNat DEF HistoryInv
  <1>3. /\ fate' \in [1..MaxAsks -> Fates] /\ fate'[req[r].ask] = outcome
        /\ \A a \in (1..MaxAsks) \ {req[r].ask} : fate'[a] = fate[a]
    BY <1>2 DEF HistoryInv, Responds, Fates
  <1>4. \A e \in turns : e.ask \in (1..MaxAsks) \ {req[r].ask}
    BY DEF HistoryInv, Exchange
  <1>5. HistoryIsWhatWasAnswered'
    <2>1. ASSUME NEW e \in turns
          PROVE  \/ fate'[e.ask] \in {"answered", "lost"}
                 \/ \E s \in Requests : At(s, "reply")' /\ req'[s].ask = e.ask
      BY <1>1, <1>3, <1>4 DEF HistoryInv, HistoryIsWhatWasAnswered, At
    <2>2. \A a \in 1..MaxAsks : fate'[a] = "answered" => fate[a] = "answered"
      BY <1>3
    <2> QED
      BY <2>1, <2>2 DEF HistoryInv, HistoryIsWhatWasAnswered, There
  <1>6. \A s \in Requests : Asked(s)' => s # r /\ Asked(s)
    BY <1>0, <1>1 DEF Asked
  <1>7. \A s \in Requests : Asked(s)' => fate'[req'[s].ask] = "open"
    <2> SUFFICES ASSUME NEW s \in Requests, Asked(s)' PROVE fate'[req'[s].ask] = "open"
      OBVIOUS
    <2>1. s # r /\ req'[s] = req[s] /\ req[s].ask # req[r].ask
      BY <1>1, <1>6 DEF HistoryInv
    <2>2. req[s].ask \in 1..MaxAsks /\ fate[req[s].ask] = "open"
      BY <1>6, MaxAsksNat DEF HistoryInv
    <2> QED
      BY <2>1, <2>2, <1>3
  <1>8. \A a \in 1..MaxAsks : a > asks => fate'[a] = "unasked"
    BY <1>2, <1>3 DEF HistoryInv
  <1>9. \A s \in Requests : At(s, "reply")' => At(s, "reply") /\ s # r
    BY <1>0, <1>1 DEF At
  <1> QED
    BY <1>1, <1>3, <1>5, <1>6, <1>7, <1>8, <1>9 DEF HistoryInv

(* A new ask is nobody's, and nothing is saved of it. *)
LEMMA AskKeeps ==
    ASSUME HistoryInv, NEW r \in Requests, NEW c \in Credentials, NEW k \in Workspaces,
           NEW kind \in {"chat", "talk", "blank", "search"}, Ask(r, c, k, kind)
    PROVE  HistoryInv'
  <1> DEFINE x == [at |-> "auth", ask |-> asks + 1, kind |-> kind, cred |-> c,
                   user |-> NoUser, ws |-> k]
  <1>0. asks \in Nat /\ asks < MaxAsks /\ MaxAsks \in Nat /\ asks' = asks + 1
    BY MaxAsksNat DEF HistoryInv, Ask
  <1>1. x \in RequestRec /\ asks + 1 \in 1..MaxAsks
    BY <1>0 DEF RequestRec
  <1>2. /\ req' \in [Requests -> RequestRec] /\ req'[r] = x
        /\ \A s \in Requests \ {r} : req'[s] = req[s]
    BY <1>1 DEF HistoryInv, Ask
  <1>3. /\ fate' \in [1..MaxAsks -> Fates] /\ fate'[asks + 1] = "open"
        /\ \A a \in (1..MaxAsks) \ {asks + 1} : fate'[a] = fate[a]
    BY <1>1 DEF HistoryInv, Ask, Fates
  <1>4. fate[asks + 1] = "unasked"
    BY <1>0, <1>1 DEF HistoryInv
  <1>5. ~Asked(r) /\ UNCHANGED <<ws, turns, wiped>>
    BY DEF Ask, At, Asked
  <1>6. \A s \in Requests \ {r} : Asked(s)' => Asked(s) /\ req[s].ask # asks + 1
    BY <1>2, <1>4 DEF HistoryInv, Asked
  <1>7. \A s \in Requests : Asked(s)' =>
          req'[s].ask \in 1..asks' /\ fate'[req'[s].ask] = "open" /\ req'[s].ws \in Workspaces
    <2>2. ASSUME NEW s \in Requests \ {r}, Asked(s)'
          PROVE  req'[s].ask \in 1..asks' /\ fate'[req'[s].ask] = "open" /\ req'[s].ws \in Workspaces
      <3>1. req[s].ask \in 1..asks /\ fate[req[s].ask] = "open" /\ req[s].ws \in Workspaces
        BY <1>6, <2>2 DEF HistoryInv
      <3> QED
        BY <1>0, <1>2, <1>3, <1>6, <2>2, <3>1
    <2>3. req'[r].ask \in 1..asks' /\ fate'[req'[r].ask] = "open" /\ req'[r].ws \in Workspaces
      BY <1>0, <1>2, <1>3
    <2> QED
      BY <2>2, <2>3
  <1>8. \A s \in Requests : At(s, "reply")' => At(s, "reply") /\ s # r
    BY <1>2 DEF At
  <1>9. HistoryIsWhatWasAnswered'
    <2>1. \A e \in turns : e.ask \in 1..MaxAsks
      BY DEF HistoryInv, Exchange
    <2>2. ASSUME NEW e \in turns
          PROVE  \/ fate'[e.ask] \in {"answered", "lost"}
                 \/ \E s \in Requests : At(s, "reply")' /\ req'[s].ask = e.ask
      <3>1. CASE fate[e.ask] \in {"answered", "lost"}
        BY <3>1, <1>3, <1>4, <2>1
      <3>2. ASSUME NEW s \in Requests, At(s, "reply"), req[s].ask = e.ask
            PROVE  At(s, "reply")' /\ req'[s].ask = e.ask
        BY <3>2, <1>2, <1>5 DEF At, Asked
      <3> QED
        BY <3>1, <3>2 DEF HistoryInv, HistoryIsWhatWasAnswered
    <2>3. \A a \in 1..MaxAsks : fate'[a] = "answered" => fate[a] = "answered"
      BY <1>3
    <2> QED
      BY <1>5, <2>2, <2>3 DEF HistoryInv, HistoryIsWhatWasAnswered, There
  <1>10. asks' \in 0..MaxAsks /\ \A a \in 1..MaxAsks : a > asks' => fate'[a] = "unasked"
    BY <1>0, <1>3 DEF HistoryInv
  <1>11. \A s, t \in Requests : Asked(s)' /\ Asked(t)' /\ req'[s].ask = req'[t].ask => s = t
    BY <1>2, <1>6 DEF HistoryInv
  <1> QED
    BY <1>2, <1>3, <1>5, <1>7, <1>8, <1>9, <1>10, <1>11 DEF HistoryInv

(* Saving: the exchange is that of this request. *)
LEMMA SaveKeeps ==
    ASSUME HistoryInv, NEW r \in Requests, Save(r)
    PROVE  HistoryInv'
  <1> DEFINE x == [req[r] EXCEPT !.at = "reply"]
  <1>0. Asked(r) /\ ~At(r, "reply") /\ req[r] \in RequestRec
    BY DEF HistoryInv, Save, At, Asked
  <1>1. \A e \in turns : e.ask # req[r].ask
    BY <1>0, NothingYet
  <1>2. CASE req[r].user # NoUser /\ ~CanSave(r)
    BY <1>0, <1>1, <1>2, RequestEnds DEF Save, SaveFails
  <1>3. CASE req[r].user = NoUser \/ CanSave(r)
    <2>0. x \in RequestRec /\ x.at = "reply" /\ x.ask = req[r].ask /\ x.user = req[r].user
            /\ x.ws = req[r].ws
      BY <1>0 DEF RequestRec
    <2>1. req' = [req EXCEPT ![r] = x] /\ UNCHANGED <<fate, wiped, asks, ws>>
      BY <1>3 DEF Save, Goes
    <2> HIDE DEF x
    <2>2. /\ req' \in [Requests -> RequestRec] /\ req'[r] = x
          /\ \A s \in Requests \ {r} : req'[s] = req[s]
      BY <2>0, <2>1 DEF HistoryInv
    <2>3. req[r].ask \in 1..MaxAsks /\ req[r].ws \in Workspaces
      BY <1>0, MaxAsksNat DEF HistoryInv
    <2>4. \A s \in Requests : Asked(s)' => Asked(s) /\ req'[s].ask = req[s].ask
                                          /\ req'[s].ws = req[s].ws
      BY <1>0, <2>0, <2>2 DEF Asked
    <2>5. CASE req[r].user = NoUser
      <3>1. turns' = turns
        BY <1>3, <2>5 DEF Save
      <3>2. HistoryIsWhatWasAnswered'
        BY <1>0, <2>1, <2>2, <3>1 DEF HistoryInv, HistoryIsWhatWasAnswered, At, There
      <3>3. \A s \in Requests : At(s, "reply")' => s = r \/ (At(s, "reply") /\ req'[s] = req[s])
        <4> SUFFICES ASSUME NEW s \in Requests \ {r}, At(s, "reply")' PROVE At(s, "reply") /\ req'[s] = req[s]
          OBVIOUS
        <4>1. req'[s] = req[s]
          BY <2>2
        <4> QED
          BY <4>1 DEF At
      <3> QED
        BY <1>1, <2>0, <2>1, <2>2, <2>4, <2>5, <3>1, <3>2, <3>3 DEF HistoryInv
    <2>6. CASE req[r].user # NoUser
      <3> DEFINE e == [ask |-> req[r].ask, ws |-> req[r].ws, user |-> req[r].user]
      <3>1. turns' = turns \cup {e}
        BY <1>3, <2>6 DEF Save, Kept
      <3>2. e \in Exchange
        BY <1>0, <2>3, <2>6 DEF Exchange, RequestRec
      <3>3. There(e.ws)
        BY <1>3, <2>6 DEF CanSave
      <3>4. HistoryIsWhatWasAnswered'
        <4>1. At(r, "reply")' /\ req'[r].ask = e.ask
          BY <2>0, <2>2 DEF At
        <4>2. \A s \in Requests : At(s, "reply") => At(s, "reply")' /\ req'[s].ask = req[s].ask
          BY <1>0, <2>2 DEF At
        <4> QED
          BY <2>1, <3>1, <3>3, <4>1, <4>2 DEF HistoryInv, HistoryIsWhatWasAnswered, There
      <3>5. \A s \in Requests : At(s, "reply")' =>
              s = r \/ (At(s, "reply") /\ req'[s] = req[s] /\ req[s].ask # req[r].ask)
        BY <1>0, <2>2 DEF HistoryInv, At, Asked
      <3>6. ASSUME NEW s \in Requests, At(s, "reply")'
            PROVE  IF req'[s].user = NoUser THEN \A f \in turns' : f.ask # req'[s].ask
                   ELSE req'[s].ask \in wiped' \/ \E f \in turns' : f.ask = req'[s].ask
        <4>1. CASE s = r
          <5>1. req'[s].user # NoUser /\ req'[s].ask = e.ask
            BY <4>1, <2>0, <2>2, <2>6
          <5>2. e \in turns'
            BY <3>1
          <5> QED
            BY <5>1, <5>2
        <4>2. CASE s # r
          BY <4>2, <2>1, <3>1, <3>5, <3>6 DEF HistoryInv
        <4> QED
          BY <4>1, <4>2
      <3> QED
        BY <2>1, <2>2, <2>4, <3>1, <3>2, <3>4, <3>6 DEF HistoryInv
    <2> QED
      BY <2>5, <2>6
  <1> QED
    BY <1>2, <1>3

(* Replying: a person's exchange was saved, or cleared since. *)
LEMMA ReplyKeeps ==
    ASSUME HistoryInv, NEW r \in Requests, Reply(r)
    PROVE  HistoryInv'
  <1>1. Asked(r) /\ At(r, "reply") /\ UNCHANGED <<ws, turns, wiped, asks>>
    BY DEF Reply, At, Asked
  <1>2. CASE req[r].user = NoUser
    BY <1>1, <1>2, RequestEnds DEF Reply, HistoryInv
  <1>3. CASE req[r].user # NoUser
    <2>0. IdleRequest \in RequestRec /\ IdleRequest.at = "idle"
      BY MaxAsksNat DEF IdleRequest, RequestRec, Credentials
    <2>1. /\ req' \in [Requests -> RequestRec] /\ req'[r] = IdleRequest
          /\ \A s \in Requests \ {r} : req'[s] = req[s]
      BY <2>0 DEF HistoryInv, Reply, Responds
    <2>2. req[r].ask \in 1..asks /\ req[r].ask \in 1..MaxAsks
      BY <1>1, MaxAsksNat DEF HistoryInv
    <2>3. /\ fate' \in [1..MaxAsks -> Fates] /\ fate'[req[r].ask] = "answered"
          /\ \A a \in (1..MaxAsks) \ {req[r].ask} : fate'[a] = fate[a]
      BY <1>3, <2>2 DEF HistoryInv, Reply, Responds, Fates
    <2>4. \A s \in Requests : Asked(s)' => s # r /\ Asked(s) /\ req[s].ask # req[r].ask
      BY <1>1, <2>0, <2>1 DEF Asked, HistoryInv
    <2>5. HistoryIsWhatWasAnswered'
      <3>1. ASSUME NEW e \in turns
            PROVE  \/ fate'[e.ask] \in {"answered", "lost"}
                   \/ \E s \in Requests : At(s, "reply")' /\ req'[s].ask = e.ask
        <4>0. e.ask \in 1..MaxAsks
          BY DEF HistoryInv, Exchange
        <4>1. CASE e.ask = req[r].ask
          BY <4>1, <2>3
        <4>2. CASE e.ask # req[r].ask
          BY <4>0, <4>2, <2>1, <2>3 DEF HistoryInv, HistoryIsWhatWasAnswered, At
        <4> QED
          BY <4>1, <4>2
      <3>2. \A a \in 1..MaxAsks : fate'[a] = "answered" => a \in wiped \/ \E e \in turns : e.ask = a
        BY <1>1, <1>3, <2>3 DEF HistoryInv, HistoryIsWhatWasAnswered
      <3> QED
        BY <1>1, <3>1, <3>2 DEF HistoryInv, HistoryIsWhatWasAnswered, There
    <2>6. ASSUME NEW s \in Requests, Asked(s)'
          PROVE  req'[s].ask \in 1..asks /\ fate'[req'[s].ask] = "open" /\ req'[s].ws \in Workspaces
      <3>1. s # r /\ req'[s] = req[s] /\ req[s].ask # req[r].ask
        BY <2>1, <2>4, <2>6
      <3>2. req[s].ask \in 1..asks /\ req[s].ask \in 1..MaxAsks /\ fate[req[s].ask] = "open"
              /\ req[s].ws \in Workspaces
        BY <2>4, <2>6, MaxAsksNat DEF HistoryInv
      <3> QED
        BY <2>3, <3>1, <3>2
    <2>7. \A a \in 1..MaxAsks : a > asks => fate'[a] = "unasked"
      BY <2>2, <2>3 DEF HistoryInv
    <2>8. \A s \in Requests : At(s, "reply")' => At(s, "reply") /\ s # r
      BY <2>0, <2>1 DEF At
    <2> QED
      BY <1>1, <2>1, <2>3, <2>4, <2>5, <2>6, <2>7, <2>8 DEF HistoryInv
  <1> QED
    BY <1>2, <1>3

(* Answers go from the history, with a conversation or a workspace. *)
LEMMA TurnsGo ==
    ASSUME HistoryInv, NEW D \in SUBSET turns, turns' = turns \ D,
           wiped' = wiped \cup {e.ask : e \in D}, UNCHANGED <<req, fate, asks>>,
           ws' \in [Workspaces -> {"none", "unready", "ready", "gone"}],
           \A e \in turns \ D : There(e.ws)'
    PROVE  HistoryInv'
  <1>1. \A e \in D : e.ask \in wiped' /\ e.ask \in 1..MaxAsks
    BY DEF HistoryInv, Exchange
  <1>2. wiped' \subseteq 1..MaxAsks /\ turns' \subseteq turns /\ wiped \subseteq wiped'
    <2>1. turns' \subseteq turns /\ wiped \subseteq wiped'
      OBVIOUS
    <2>2. wiped \subseteq 1..MaxAsks
      BY DEF HistoryInv
    <2>3. {e.ask : e \in D} \subseteq 1..MaxAsks
      BY <1>1
    <2> QED
      BY <2>1, <2>2, <2>3, Zenon
  <1>3. ASSUME NEW a, a \in wiped \/ \E e \in turns : e.ask = a
        PROVE  a \in wiped' \/ \E e \in turns' : e.ask = a
    <2>1. CASE a \in wiped
      BY <1>2, <2>1
    <2>2. ASSUME NEW e \in turns, e.ask = a
          PROVE  a \in wiped' \/ \E f \in turns' : f.ask = a
      <3>1. e \in D \/ e \in turns'
        OBVIOUS
      <3> QED
        BY <1>1, <2>2, <3>1
    <2> QED
      BY <1>3, <2>1, <2>2
  <1>4. HistoryIsWhatWasAnswered'
    <2>1. ASSUME NEW e \in turns'
          PROVE  \/ fate'[e.ask] \in {"answered", "lost"}
                 \/ \E s \in Requests : At(s, "reply")' /\ req'[s].ask = e.ask
      BY <1>2 DEF HistoryInv, HistoryIsWhatWasAnswered, At
    <2>2. \A a \in 1..MaxAsks : fate'[a] = "answered" => a \in wiped' \/ \E e \in turns' : e.ask = a
      BY <1>3 DEF HistoryInv, HistoryIsWhatWasAnswered
    <2> QED
      BY <2>1, <2>2 DEF HistoryIsWhatWasAnswered
  <1>5. ASSUME NEW s \in Requests, At(s, "reply")'
        PROVE  IF req'[s].user = NoUser THEN \A e \in turns' : e.ask # req'[s].ask
               ELSE req'[s].ask \in wiped' \/ \E e \in turns' : e.ask = req'[s].ask
    BY <1>2, <1>3, <1>5 DEF HistoryInv, At
  <1> QED
    BY <1>2, <1>4, <1>5 DEF HistoryInv, Asked

(* The process starts again: no request is left, open asks are lost. *)
LEMMA RestartKeeps ==
    ASSUME HistoryInv, NEW a, Restart(a)
    PROVE  HistoryInv'
  <1>0. IdleRequest \in RequestRec /\ IdleRequest.at = "idle"
    BY MaxAsksNat DEF IdleRequest, RequestRec, Credentials
  <1>1. req' \in [Requests -> RequestRec] /\ \A r \in Requests : req'[r] = IdleRequest
    BY <1>0 DEF Restart
  <1>2. /\ fate' \in [1..MaxAsks -> Fates]
        /\ \A n \in 1..MaxAsks : fate'[n] = IF fate[n] = "open" THEN "lost" ELSE fate[n]
    BY DEF HistoryInv, Restart, Fates
  <1>3. UNCHANGED <<ws, turns, wiped, asks>>
    BY DEF Restart
  <1>4. ASSUME NEW e \in turns PROVE fate'[e.ask] \in {"answered", "lost"}
    <2>1. e.ask \in 1..MaxAsks
      BY DEF HistoryInv, Exchange
    <2>2. fate[e.ask] \in {"answered", "lost", "open"}
      BY DEF HistoryInv, HistoryIsWhatWasAnswered, At, Asked
    <2> QED
      BY <1>2, <2>1, <2>2
  <1>5. HistoryIsWhatWasAnswered'
    BY <1>2, <1>3, <1>4 DEF HistoryInv, HistoryIsWhatWasAnswered, There
  <1>6. \A r \in Requests : ~Asked(r)' /\ ~At(r, "reply")'
    BY <1>0, <1>1 DEF Asked, At
  <1>7. \A n \in 1..MaxAsks : n > asks => fate'[n] = "unasked"
    BY <1>2 DEF HistoryInv
  <1> QED
    BY <1>1, <1>2, <1>3, <1>5, <1>6, <1>7 DEF HistoryInv

(* Who a request is from is a user or nobody. *)
LEMMA Principals ==
    ASSUME AccountsTypeOK, NEW c \in Credentials
    PROVE  PrincipalOf(c) \subseteq Names \cup {NoUser}
  BY AccountsAssumption DEF AccountsTypeOK, PrincipalOf, SignedIn

(* The statements of a request before its save. *)
LEMMA RequestKeeps ==
    ASSUME HistoryInv, AccountsTypeOK, NEW r \in Requests, RequestStep(r)
    PROVE  HistoryInv'
  <1> DEFINE x(stage) == [req[r] EXCEPT !.at = stage]
  <1>1. CASE Save(r) \/ Reply(r)
    BY <1>1, SaveKeeps, ReplyKeeps
  <1>2. CASE ~(Save(r) \/ Reply(r))
    <2>0. RequestStep(r) /\ req[r] \in RequestRec
      BY DEF HistoryInv
    <2>1. Asked(r) /\ ~At(r, "reply") /\ UNCHANGED <<turns, wiped, asks, ws>>
      BY <1>2 DEF RequestStep, Authenticate, Touch, FindWorkspace, LookAround, Retrieve,
         SearchAnswers, Search, Complete, GiveUp, Embedded, Completed, At, Asked, accountVars
    <2>2. \A e \in turns : e.ask # req[r].ask
      BY <2>1, NothingYet
    <2>3. ASSUME NEW stage \in {"known", "seen", "corpus", "retrieve", "embedding", "completing", "save"},
                 NEW y \in RequestRec, y.at = stage, y.ask = req[r].ask, y.ws = req[r].ws,
                 req' = [req EXCEPT ![r] = y], fate' = fate
          PROVE  HistoryInv'
      BY <2>1, <2>3, RequestMoves
    <2>4. ASSUME NEW stage \in {"corpus", "retrieve", "embedding", "completing", "save"},
                 Goes(r, stage), fate' = fate
          PROVE  HistoryInv'
      <3>1. x(stage) \in RequestRec /\ x(stage).at = stage /\ x(stage).ask = req[r].ask
              /\ x(stage).ws = req[r].ws
        BY <2>0 DEF RequestRec
      <3> QED
        BY <2>3, <2>4, <3>1 DEF Goes
    <2>5. ASSUME NEW outcome \in {"unsaved", "refused", "busy", "failed"}, Responds(r, outcome)
          PROVE  HistoryInv'
      BY <2>1, <2>2, <2>5, RequestEnds
    <2>6. CASE Authenticate(r)
      <3>1. ASSUME NEW p \in PrincipalOf(req[r].cred), fate' = fate,
                   req' = [req EXCEPT ![r] = [req[r] EXCEPT !.at = "known", !.user = p]]
            PROVE  HistoryInv'
        <4> DEFINE y == [req[r] EXCEPT !.at = "known", !.user = p]
        <4>1. p \in Names \cup {NoUser}
          BY <2>0, Principals DEF RequestRec
        <4>2. y \in RequestRec /\ y.at = "known" /\ y.ask = req[r].ask /\ y.ws = req[r].ws
          BY <2>0, <4>1 DEF RequestRec
        <4> QED
          BY <2>3, <3>1, <4>2
      <3> QED
        BY <2>5, <2>6, <3>1 DEF Authenticate
    <2>7. CASE Touch(r)
      <3> DEFINE y == [req[r] EXCEPT !.at = "seen", !.cred = NoToken]
      <3>1. y \in RequestRec /\ y.at = "seen" /\ y.ask = req[r].ask /\ y.ws = req[r].ws
        BY <2>0 DEF RequestRec, Credentials
      <3> QED
        BY <2>3, <2>7, <3>1 DEF Touch
    <2>8. CASE FindWorkspace(r)
      BY <2>4, <2>5, <2>8 DEF FindWorkspace
    <2>9. CASE LookAround(r)
      <3> DEFINE y == [req[r] EXCEPT !.kind = "chat", !.at = Stage(r)]
      <3>1. Stage(r) \in {"save", "retrieve"}
        BY DEF Stage
      <3>2. y \in RequestRec /\ y.at = Stage(r) /\ y.ask = req[r].ask /\ y.ws = req[r].ws
        BY <2>0, <3>1 DEF RequestRec
      <3> QED
        BY <2>3, <2>9, <3>1, <3>2 DEF LookAround
    <2>10. CASE Retrieve(r) \/ Search(r) \/ Complete(r)
      BY <2>4, <2>10 DEF Retrieve, Search, Complete
    <2>11. CASE SearchAnswers(r) \/ GiveUp(r)
      BY <2>5, <2>11 DEF SearchAnswers, GiveUp
    <2> QED
      BY <1>2, <2>6, <2>7, <2>8, <2>9, <2>10, <2>11 DEF RequestStep
  <1> QED
    BY <1>1, <1>2

LEMMA NextHistory == HistoryInv /\ AccountsTypeOK /\ [Next]_vars => HistoryInv'
  <1> SUFFICES ASSUME HistoryInv, AccountsTypeOK, [Next]_vars PROVE HistoryInv'
    OBVIOUS
  <1> USE DEF HistoryInv
  <1>1. CASE UNCHANGED chatVars
    <2>1. UNCHANGED <<ws, turns, wiped, req, fate, asks>>
      BY <1>1 DEF chatVars
    <2> QED
      BY <2>1, HistoryKept DEF There
  <1>2. ASSUME NEW k \in Workspaces, Corpus(k) PROVE HistoryInv'
    <2>1. ws[k] \in {"unready", "ready"} /\ (ws' = [ws EXCEPT ![k] = "ready"] \/ ws' = [ws EXCEPT ![k] = "unready"])
      BY <1>2 DEF Corpus
    <2>2. ws' \in [Workspaces -> {"none", "unready", "ready", "gone"}] /\ \A j \in Workspaces : There(j) => There(j)'
      BY <2>1 DEF There
    <2> QED
      BY <1>2, <2>2, HistoryKept DEF Corpus
  <1>3. ASSUME NEW c, NEW k \in Workspaces, CreateWorkspace(c, k) PROVE HistoryInv'
    <2>1. ws' \in [Workspaces -> {"none", "unready", "ready", "gone"}] /\ \A j \in Workspaces : There(j) => There(j)'
      BY <1>3 DEF CreateWorkspace, There
    <2> QED
      BY <1>3, <2>1, HistoryKept DEF CreateWorkspace
  <1>4. ASSUME NEW c, NEW k \in Workspaces, Clear(c, k) PROVE HistoryInv'
    <2>1. PICK u \in PrincipalOf(c) :
            /\ turns' = turns \ Conversation(k, u)
            /\ wiped' = wiped \cup {e.ask : e \in Conversation(k, u)}
      BY <1>4 DEF Clear
    <2>2. UNCHANGED <<ws, req, fate, asks>>
      BY <1>4 DEF Clear
    <2>3. Conversation(k, u) \in SUBSET turns /\ \A e \in turns \ Conversation(k, u) : There(e.ws)'
      BY <2>2 DEF Conversation, There, HistoryIsWhatWasAnswered
    <2>4. ws' \in [Workspaces -> {"none", "unready", "ready", "gone"}]
      BY <2>2
    <2> HIDE DEF HistoryInv
    <2> QED
      BY <2>1, <2>2, <2>3, <2>4, TurnsGo
  <1>5. ASSUME NEW c, NEW k \in Workspaces, DeleteWorkspace(c, k) PROVE HistoryInv'
    <2>1. /\ turns' = turns \ OfWorkspace(k)
          /\ wiped' = wiped \cup {e.ask : e \in OfWorkspace(k)}
          /\ ws' = [ws EXCEPT ![k] = "gone"]
          /\ UNCHANGED <<req, fate, asks>>
      BY <1>5 DEF DeleteWorkspace
    <2>2. ws' \in [Workspaces -> {"none", "unready", "ready", "gone"}]
      BY <2>1
    <2>3. OfWorkspace(k) \in SUBSET turns
      BY DEF OfWorkspace
    <2>4. ASSUME NEW e \in turns \ OfWorkspace(k) PROVE There(e.ws)'
      <3>1. e.ws # k /\ e.ws \in Workspaces /\ There(e.ws)
        BY DEF OfWorkspace, Exchange, HistoryIsWhatWasAnswered
      <3> QED
        BY <2>1, <3>1 DEF There
    <2> HIDE DEF HistoryInv
    <2> QED
      BY <2>1, <2>2, <2>3, <2>4, TurnsGo
  <1> HIDE DEF HistoryInv
  <1> QED
    BY <1>1, <1>2, <1>3, <1>4, <1>5, AskKeeps, RequestKeeps, RestartKeeps
    DEF Next, vars, BackgroundCall

LEMMA InitHistory == Init => HistoryInv
  <1> SUFFICES ASSUME Init PROVE HistoryInv
    OBVIOUS
  <1>0. IdleRequest \in RequestRec /\ IdleRequest.at = "idle"
    BY MaxAsksNat DEF IdleRequest, RequestRec, Credentials
  <1>1. /\ req \in [Requests -> RequestRec]
        /\ \A r \in Requests : ~Asked(r) /\ ~At(r, "reply")
    BY <1>0 DEF Init, Asked, At
  <1>2. fate \in [1..MaxAsks -> Fates] /\ \A a \in 1..MaxAsks : fate[a] = "unasked"
    BY DEF Init, Fates
  <1>3. /\ ws \in [Workspaces -> {"none", "unready", "ready", "gone"}]
        /\ turns = {} /\ wiped = {} /\ asks = 0 /\ asks \in 0..MaxAsks
    BY MaxAsksNat DEF Init
  <1>4. HistoryIsWhatWasAnswered
    BY <1>2, <1>3 DEF HistoryIsWhatWasAnswered
  <1> QED
    BY <1>1, <1>2, <1>3, <1>4 DEF HistoryInv

(* The history holds the answers that went out, are about to or broke with *)
(* the connection, and all of them until they are cleared: for any number  *)
(* of people, sessions, workspaces and requests at once.                   *)
THEOREM HistoryIsTrue == Spec => []HistoryIsWhatWasAnswered
  <1>1. HistoryInv => HistoryIsWhatWasAnswered
    BY DEF HistoryInv
  <1> QED
    BY <1>1, InitHistory, NextHistory, InitAccounts, NextAccounts, PTL DEF Spec

(* Every variable of a conversation, of the accounts and of the provider   *)
(* calls has its type.                                                     *)
THEOREM TypeCorrect == Spec => []TypeOK
  <1>1. HistoryInv /\ AccountsTypeOK /\ CallInv => TypeOK
    BY TaskKinds DEF HistoryInv, CallInv, BackoffTypeOK, TypeOK
  <1> QED
    BY <1>1, InitHistory, NextHistory, InitAccounts, NextAccounts, InitCalls, NextCalls, PTL DEF Spec

=============================================================================
