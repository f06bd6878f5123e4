---------------------------- MODULE GitHubClient ----------------------------
(***************************************************************************)
(* github/client.py and github/rate_limits.py: the one synchronous client  *)
(* through which every GitHub read and write flows.  A call is retried     *)
(* over lost answers, 5xx and short quota waits; a quota signal that is    *)
(* not worth waiting for, or a RED budget zone, stops all further traffic. *)
(*                                                                         *)
(* The server is external: it has a quota per bucket, applies or loses     *)
(* requests, and answers what the client's code distinguishes.             *)
(***************************************************************************)
EXTENDS Naturals

CONSTANTS MaxCalls,                     \* bound: calls the program makes
          MaxRetries,                   \* limits.github.max_retries
          BackoffBase, BackoffMax,      \* backoff_base_seconds, backoff_max_seconds
          Quota,                        \* the server's quota per bucket at the start
          YellowFloor, RedFloor         \* the floors of each bucket

Buckets == {"core", "search"}

ASSUME ClientAssumption ==
    /\ MaxCalls \in Nat /\ MaxRetries \in Nat
    /\ BackoffBase \in Nat /\ BackoffMax \in Nat
    /\ Quota \in [Buckets -> Nat]
    /\ YellowFloor \in [Buckets -> Nat]
    /\ RedFloor \in [Buckets -> Nat]

(* A number, whatever the arithmetic of exponents a prover has.               *)
ASSUME BackoffAssumption == \A n \in 0..MaxRetries : BackoffBase * 2^n \in Nat

VARIABLES mode,       \* "idle", or "trying" inside _request
          request,    \* method and bucket of the current or last call
          attempt,    \* _request's local `attempt`
          sticky,     \* _rate_limit_error is set
          budget,     \* RateBudget: resource, remaining, search_remaining
          outcome,    \* how the last call ended
          slept,      \* seconds slept in the current or last call
          calls,      \* calls made so far
          quota,      \* server: quota left per bucket
          created     \* server: resources the current or last POST created

client     == <<mode, request, attempt, sticky, budget, outcome, slept, calls>>
server     == <<quota, created>>
clientVars == <<client, server>>

Unknown  == MaxCalls + Quota["core"] + Quota["search"] + 1000   \* None
Outcomes == {"none", "ok", "not_found", "auth", "error", "server_error", "rate_limited"}

ClientInit ==
    /\ mode = "idle"
    /\ request = [method |-> "GET", bucket |-> "core"]
    /\ attempt = 0
    /\ sticky = FALSE
    /\ budget = [resource |-> "none", remaining |-> Unknown, search |-> Unknown]
    /\ outcome = "none"
    /\ slept = 0
    /\ calls = 0
    /\ quota = Quota
    /\ created = 0

(* RateBudget.zone looks only at the bucket of the most recent answer. *)
Zone(b) ==
    LET bucket    == IF b.resource = "search" THEN "search" ELSE "core"
        remaining == IF b.resource = "search" THEN b.search ELSE b.remaining
    IN  IF remaining = Unknown THEN "GREEN"
        ELSE IF remaining <= RedFloor[bucket] THEN "RED"
        ELSE IF remaining <= YellowFloor[bucket] THEN "YELLOW" ELSE "GREEN"

(* The `rate_limited` property, and what _request refuses on. *)
RateLimited == sticky \/ Zone(budget) = "RED"

(* update_from_headers with the X-RateLimit headers of an answer. *)
Absorb(b, left) ==
    [b EXCEPT !.resource  = request.bucket,
              !.remaining = left,
              !.search    = IF request.bucket = "search" THEN left ELSE @]

Smaller(a, b) == IF a < b THEN a ELSE b
Backoff(n)    == Smaller(BackoffBase * 2^n, BackoffMax)

-----------------------------------------------------------------------------
(* A stage of the pipeline calls the client. *)
Call(method, bucket) ==
    /\ mode = "idle"
    /\ calls < MaxCalls
    /\ calls' = calls + 1
    /\ mode' = "trying"
    /\ request' = [method |-> method, bucket |-> bucket]
    /\ attempt' = 0
    /\ slept' = 0
    /\ created' = 0
    /\ outcome' = "none"
    /\ UNCHANGED <<sticky, budget, quota>>

End(result) ==
    /\ mode' = "idle"
    /\ outcome' = result
    /\ UNCHANGED <<request, attempt, slept, calls>>

Retry(delay) ==
    /\ attempt' = attempt + 1
    /\ slept' = slept + delay
    /\ UNCHANGED <<mode, request, outcome, calls>>

(* The top of the loop: a limit already known stops the call unsent. *)
Refuse ==
    /\ mode = "trying"
    /\ RateLimited
    /\ End("rate_limited")
    /\ UNCHANGED <<sticky, budget, server>>

(* Mutant: the limit is not looked at before sending. *)
SendAnyway(applied) ==
    /\ mode = "trying"
    /\ quota[request.bucket] > 0
    /\ quota' = [quota EXCEPT ![request.bucket] = @ - 1]
    /\ created' = IF applied /\ request.method = "POST" THEN created + 1 ELSE created

(* A request reaches the server, which may carry it out. *)
Send(applied) ==
    /\ mode = "trying"
    /\ ~RateLimited
    /\ quota[request.bucket] > 0
    /\ quota' = [quota EXCEPT ![request.bucket] = @ - 1]
    /\ created' = IF applied /\ request.method = "POST" THEN created + 1 ELSE created

(* Every answer may or may not carry the quota headers. *)
Answered == budget' \in {budget, Absorb(budget, quota'[request.bucket])}

(* httpx.TransportError: never delivered, or carried out and the answer lost. *)
LoseAnswer ==
    /\ \/ \E applied \in BOOLEAN : Send(applied)
       \/ mode = "trying" /\ ~RateLimited /\ UNCHANGED server
    /\ IF attempt >= MaxRetries THEN End("error") ELSE Retry(Backoff(attempt))
    /\ UNCHANGED <<sticky, budget>>

(* 2xx; a body that is not JSON is an error although the server did the work. *)
Succeed ==
    /\ Send(TRUE)
    /\ Answered
    /\ \E result \in {"ok", "error"} : End(result)
    /\ UNCHANGED sticky

(* 404, 401, 403 without a quota signal, any other 4xx. *)
Reject ==
    /\ Send(FALSE)
    /\ Answered
    /\ \E result \in {"not_found", "auth", "error"} : End(result)
    /\ UNCHANGED sticky

(* 5xx; a gateway may answer it after the server did the work. *)
FailServer ==
    /\ \E applied \in BOOLEAN : Send(applied)
    /\ Answered
    /\ IF attempt >= MaxRetries THEN End("server_error") ELSE Retry(Backoff(attempt))
    /\ UNCHANGED sticky

(* 403 or 429 with a quota signal: a short wait is sat out, anything else is  *)
(* remembered for good.  wait = Unknown is a signal without a delay.          *)
Worth(wait) ==
    /\ wait # Unknown
    /\ Zone(budget') # "RED"
    /\ attempt < MaxRetries
    /\ wait <= BackoffMax

SignalLimit(wait) ==
    \/ /\ Worth(wait)
       /\ Retry(wait)
       /\ UNCHANGED sticky
    \/ /\ ~Worth(wait)
       /\ sticky' = TRUE
       /\ End("rate_limited")

Limit ==
    /\ Send(FALSE)
    /\ Answered
    /\ \E wait \in {0, BackoffMax, BackoffMax + 1, Unknown} : SignalLimit(wait)

(* With the quota used up the server only says so: remaining is 0. *)
Exhausted ==
    /\ mode = "trying"
    /\ ~RateLimited
    /\ quota[request.bucket] = 0
    /\ budget' = Absorb(budget, 0)
    /\ \E wait \in {0, BackoffMax + 1} : SignalLimit(wait)
    /\ UNCHANGED server

AttemptUnrefused == LoseAnswer \/ Succeed \/ Reject \/ FailServer \/ Limit \/ Exhausted    \* mutant
Attempt == Refuse \/ LoseAnswer \/ Succeed \/ Reject \/ FailServer \/ Limit \/ Exhausted

ClientNext ==
    \/ \E method \in {"GET", "POST"}, bucket \in Buckets : Call(method, bucket)
    \/ Attempt

(* connect and read timeouts end every attempt, so a call keeps going. *)
Fairness == WF_clientVars(Attempt)

ClientSpec == ClientInit /\ [][ClientNext]_clientVars /\ Fairness

-----------------------------------------------------------------------------
(* Every variable stays within its type. *)
ClientTypeOK ==
    /\ mode \in {"idle", "trying"}
    /\ request \in [method : {"GET", "POST"}, bucket : Buckets]
    /\ attempt \in 0..MaxRetries
    /\ sticky \in BOOLEAN
    /\ budget \in [resource : Buckets \union {"none"}, remaining : Nat, search : Nat]
    /\ outcome \in Outcomes
    /\ slept \in Nat
    /\ calls \in 0..MaxCalls
    /\ quota \in [Buckets -> Nat]
    /\ created \in Nat

(* However a call mixes lost answers, 5xx and Retry-After headers, it sleeps  *)
(* at most MaxRetries times the configured maximum, and creates at most one   *)
(* resource for each request it sent.                                         *)
BoundedCall ==
    /\ slept <= MaxRetries * BackoffMax
    /\ created <= attempt + 1

(* What the orchestrator's `github.rate_limited` polls rely on: whenever some *)
(* call ended in GitHubRateLimited, even one whose exception was swallowed,   *)
(* the client says so at any later time.                                      *)
LimitIsVisible == outcome = "rate_limited" => RateLimited

(* "RED stops new GitHub work" (operations.md 6): once limited, the client    *)
(* stays limited and no request reaches the server any more.                  *)
LimitIsFinal == [][RateLimited => RateLimited' /\ quota' = quota]_clientVars

(* Every call comes back to its caller. *)
EveryCallEnds == mode = "trying" ~> mode = "idle"

(* "Un run crea como maximo un Issue" (design spec 10): one POST creates at   *)
(* most one Issue.                                                            *)
CreatesAtMostOnce == created <= 1
=============================================================================
