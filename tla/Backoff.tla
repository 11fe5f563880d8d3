------------------------------ MODULE Backoff ------------------------------
(***************************************************************************)
(* Calls to the provider (app/implementations/retry.py): with_backoff runs *)
(* an operation until it succeeds or is given up, waiting between two      *)
(* attempts.  A quota error may name the seconds after which to try again. *)
(* While a person waits for the result (interactive), such a wait is taken *)
(* only if it is short, and once.  The sleep itself is a little longer     *)
(* than the wait that was named.                                           *)
(*                                                                         *)
(* Several tasks of the process call at the same time; the mark of         *)
(* interactive is a context variable, one value per task.  Times are       *)
(* tenths of a second.                                                     *)
(***************************************************************************)
EXTENDS Integers, FiniteSets, Sequences

CONSTANTS
    Tasks,
    MaxAttempts,   \* EMBED_MAX_RETRIES
    Windows,       \* how long a quota error may ask to wait
    Paddings,      \* what the sleep adds to it: uniform(0.5, 2.0) seconds
    NoWindow       \* a quota error that asks for nothing

ASSUME BackoffAssumption ==
    /\ MaxAttempts \in Nat \ {0}
    /\ Windows \subseteq Nat
    /\ Paddings \subseteq 5..20 /\ Paddings # {}
    /\ NoWindow \notin Nat

VARIABLES
    marked,    \* tasks inside interactive()
    call       \* the provider call of each task

backoffVars == <<marked, call>>

INTERACTIVE_MAX_WAIT == 80
MaxServerDelay == 650

Smaller(a, b) == IF a <= b THEN a ELSE b

(* What an attempt can raise: over quota, another failure worth a second   *)
(* try (is_retryable), or neither.                                         *)
Errors ==
    [kind : {"quota"}, retryIn : Windows \cup {NoWindow}]
        \cup [kind : {"transient", "fatal"}, retryIn : {NoWindow}]

is_rate_limit(e) == e.kind = "quota"
is_retryable(e) == e.kind \in {"quota", "transient"}

server_retry_after(e) ==
    IF e.retryIn = NoWindow THEN NoWindow ELSE Smaller(e.retryIn, MaxServerDelay)

(* No call; trying; waiting for the next attempt; or how it ended.         *)
(* waits are the sleeps for quota that a person spent in it, in order.     *)
NoCall == [at |-> "none", attempt |-> 0, waits |-> <<>>]
FirstAttempt == [at |-> "trying", attempt |-> 1, waits |-> <<>>]

Ended == {"returned", "limited", "raised"}

IsInteractive_AnyTask(t) == marked # {}
IsInteractive(t) == t \in marked

(* A person does not wait: no window named, a long one, or a second time.  *)
TooLong_Again(t, e) ==
    LET requested == server_retry_after(e) IN
    requested = NoWindow \/ requested > INTERACTIVE_MAX_WAIT
TooLong(t, e) ==
    LET requested == server_retry_after(e) IN
    \/ requested = NoWindow
    \/ requested > INTERACTIVE_MAX_WAIT
    \/ call[t].attempt >= 2

GivesUp_OneMore(t, e) ==
    \/ is_rate_limit(e) /\ IsInteractive(t) /\ TooLong(t, e)
    \/ call[t].attempt > MaxAttempts
    \/ ~is_retryable(e)
GivesUp(t, e) ==
    \/ is_rate_limit(e) /\ IsInteractive(t) /\ TooLong(t, e)
    \/ call[t].attempt >= MaxAttempts
    \/ ~is_retryable(e)

(* What a person waits for quota after e: the window and a padding.  A     *)
(* sleep nobody waits for, and the doubling delay after other failures,    *)
(* only pass.                                                              *)
Delay(t, e, padding) ==
    IF IsInteractive(t) /\ is_rate_limit(e) THEN <<server_retry_after(e) + padding>> ELSE <<>>

(* One attempt of t comes back. *)
Succeeds(t) ==
    /\ call[t].at = "trying"
    /\ call' = [call EXCEPT ![t] = [NoCall EXCEPT !.at = "returned"]]

Fails(t, e, padding) ==
    /\ call[t].at = "trying"
    /\ call' = [call EXCEPT ![t] =
           IF GivesUp(t, e)
           THEN IF is_rate_limit(e) THEN [call[t] EXCEPT !.at = "limited"]
                ELSE [NoCall EXCEPT !.at = "raised"]
           ELSE [at |-> "waiting", attempt |-> call[t].attempt,
                 waits |-> call[t].waits \o Delay(t, e, padding)]]

(* The sleep is over. *)
TriesAgain_Uncounted(t) ==
    /\ call[t].at = "waiting"
    /\ call' = [call EXCEPT ![t] = [call[t] EXCEPT !.at = "trying"]]
TriesAgain(t) ==
    /\ call[t].at = "waiting"
    /\ call' = [call EXCEPT ![t] = [at |-> "trying", attempt |-> call[t].attempt + 1,
                                    waits |-> call[t].waits]]

ProviderStep(t) ==
    /\ \/ Succeeds(t)
       \/ \E e \in Errors, padding \in Paddings : Fails(t, e, padding)
       \/ TriesAgain(t)
    /\ UNCHANGED marked

Calls == [at : {"none", "trying", "waiting"} \cup Ended,
          attempt : 0..MaxAttempts, waits : Seq(Nat)]

-----------------------------------------------------------------------------
(* Properties of any system that calls this way.                           *)

BackoffTypeOK == marked \subseteq Tasks /\ call \in [Tasks -> Calls]

(* Over all the attempts of a call made inside interactive, one window is  *)
(* waited out at most, and that one is INTERACTIVE_MAX_WAIT at most: with  *)
(* its padding the person waits two seconds more in the worst case.        *)
LongestPadding == 20
QuotaWaitIsShort ==
    \A t \in marked :
        /\ Len(call[t].waits) <= 1
        /\ \A i \in DOMAIN call[t].waits :
              call[t].waits[i] <= INTERACTIVE_MAX_WAIT + LongestPadding

(* "Longest a waiting person is kept waiting for a rate limit to clear."   *)
QuotaWaitIsWithinMaximum ==
    \A t \in marked : \A i \in DOMAIN call[t].waits : call[t].waits[i] <= INTERACTIVE_MAX_WAIT

=============================================================================
