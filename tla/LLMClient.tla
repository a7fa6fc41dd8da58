----------------------------- MODULE LLMClient ------------------------------
(***************************************************************************)
(* OpenAICompatibleClient.chat and _post, src/open_dream_rsi/llm.py: one    *)
(* request with retries of what is transient, and at most one corrected     *)
(* request after the endpoint has refused the first: without the extra      *)
(* payload, or for the model the endpoint now serves.  The correction stays *)
(* in the client's configuration.                                           *)
(***************************************************************************)
EXTENDS Integers

CONSTANTS
  Models,
  MaxRetries,       \* MAX_RETRIES
  RetryTimeouts,    \* RETRY_TIMEOUTS
  NoModel           \* the listing of the models is unreachable

VARIABLES
  served,      \* the model the endpoint serves
  accepts,     \* it accepts the extra payload
  model,       \* config.model
  extra,       \* config.extra_payload is not empty
  request,     \* which request of chat is under way: none, first, lookup, second
  sent,        \* its model and whether it carries the extra payload
  tries,       \* POSTs of this request
  posts,       \* POSTs of this chat
  settled      \* history: a chat was answered and the endpoint has not changed since

endpoint == <<served, accepts>>
config == <<model, extra>>
vars == <<endpoint, config, request, sent, tries, posts, settled>>

Init ==
  /\ served \in Models /\ accepts \in BOOLEAN
  /\ model \in Models /\ extra \in BOOLEAN
  /\ request = "none"
  /\ sent = [model |-> model, extra |-> extra]
  /\ tries = 0 /\ posts = 0
  /\ settled = FALSE

\* The endpoint is deployed again, with another model or another server.
Redeploy(m, a) ==
  /\ <<m, a>> # endpoint
  /\ served' = m /\ accepts' = a
  /\ settled' = FALSE
  /\ UNCHANGED <<config, request, sent, tries, posts>>

Chat ==
  /\ request = "none"
  /\ request' = "first"
  /\ sent' = [model |-> model, extra |-> extra]
  /\ tries' = 0 /\ posts' = 0
  /\ UNCHANGED <<endpoint, config, settled>>

-----------------------------------------------------------------------------
(* What a POST comes back with.                                             *)

Post ==
  /\ request \in {"first", "second"}
  /\ tries' = tries + 1 /\ posts' = posts + 1

\* The call raises.
Raise == request' = "none" /\ UNCHANGED <<endpoint, config, sent, settled>>

Served == sent.model = served /\ (accepts \/ ~sent.extra)

Answered ==
  /\ Post /\ Served
  /\ request' = "none"
  /\ settled' = TRUE
  /\ UNCHANGED <<endpoint, config, sent>>

Retry ==
  IF tries' > MaxRetries THEN Raise
  ELSE UNCHANGED <<endpoint, config, request, sent, settled>>

\* 429, 5xx, refused and reset connections.
Transient == Post /\ Retry

TimesOut == Post /\ (IF RetryTimeouts THEN Retry ELSE Raise)

\* HTTP 400, for the extra payload or for anything else in the request.
BadRequest ==
  \/ /\ request = "first" /\ extra
     /\ extra' = FALSE
     /\ request' = "second" /\ sent' = [sent EXCEPT !.extra = FALSE]
     /\ tries' = 0 /\ posts' = posts + 1
     /\ UNCHANGED <<endpoint, model, settled>>
  \/ Post /\ ~(request = "first" /\ extra) /\ Raise

\* HTTP 404, the model does not exist.
NotFound ==
  /\ Post /\ sent.model # served
  /\ IF request = "first"
     THEN request' = "lookup" /\ UNCHANGED <<endpoint, config, sent, settled>>
     ELSE Raise

\* Any other refusal.
OtherError == Post /\ Raise

AdoptOnce(m) ==        \* Mutant of Adopt: the found model is not kept.
  /\ sent' = [model |-> m, extra |-> extra]
  /\ UNCHANGED config

Adopt(m) ==
  /\ model' = m
  /\ sent' = [model |-> m, extra |-> extra]
  /\ UNCHANGED extra

\* GET /models, once.
LookUp(m) ==
  /\ request = "lookup" /\ m \in {served, NoModel}
  /\ IF m # NoModel /\ m # sent.model
     THEN Adopt(m) /\ request' = "second" /\ tries' = 0
     ELSE request' = "none" /\ UNCHANGED <<config, sent, tries>>
  /\ UNCHANGED <<endpoint, posts, settled>>

Next ==
  \/ \E m \in Models, a \in BOOLEAN : Redeploy(m, a)
  \/ Chat \/ Answered \/ Transient \/ TimesOut \/ BadRequest \/ NotFound \/ OtherError
  \/ \E m \in Models \cup {NoModel} : LookUp(m)

Spec == Init /\ [][Next]_vars

-----------------------------------------------------------------------------
TypeOK ==
  /\ served \in Models /\ accepts \in BOOLEAN
  /\ model \in Models /\ extra \in BOOLEAN
  /\ request \in {"none", "first", "lookup", "second"}
  /\ sent \in [model : Models, extra : BOOLEAN]
  /\ tries \in Nat /\ posts \in Nat /\ settled \in BOOLEAN

\* After an answer the client asks for what the endpoint has, until that changes:
\* a correction is kept (llm.py:248-268), so it is paid for once.  And no chat
\* posts more than two rounds of retries, whatever the endpoint says when.
HealsLast ==
  /\ settled => model = served /\ (accepts \/ ~extra)
  /\ posts <= 2 * (MaxRetries + 1)
=============================================================================
