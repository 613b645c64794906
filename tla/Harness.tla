------------------------------ MODULE Harness -------------------------------
(***************************************************************************)
(* The harness around every call of an agent (backend/agents/llm.py):      *)
(* invoke_structured asks for a result that satisfies the schema and asks  *)
(* again if it does not; each time _invoke_with_backoff goes down a chain  *)
(* of models, retrying each of them within a budget of its own.            *)
(*                                                                         *)
(* How long a wait is, is left out; what an error says is the set of the   *)
(* conditions its text matches, which may be several or none.              *)
(***************************************************************************)
EXTENDS Naturals

CONSTANTS
  Models,         \* length of the chain; its models are 1 .. Models
  SchemaRetries,  \* MAX_SCHEMA_RETRIES
  Attempts,       \* MAX_RATELIMIT_RETRIES
  QuickRetries,   \* attempts after which an overloaded model is retried
  Errors          \* the errors providers raise, as sets of conditions

Chain == 1 .. Models

Conditions == {"perday", "notfound", "busy", "ratelimit"}

ConstantsOK ==
  /\ Models \in Nat \ {0} /\ SchemaRetries \in Nat \ {0}
  /\ Attempts \in Nat \ {0} /\ QuickRetries \in Nat /\ QuickRetries < Attempts
  /\ Errors \subseteq SUBSET Conditions

VARIABLES
  healthy,    \* the models that answer every request of the call, and properly
  call,       \* where the call stands
  round,      \* attempt of invoke_structured
  model,      \* the model that is asked
  attempt,    \* attempt of _invoke_with_backoff with this model
  cause       \* why the call was given up

progress == <<call, round, model, attempt, cause>>
vars == <<healthy, progress>>

TypeOK ==
  /\ healthy \subseteq Chain
  /\ call \in {"idle", "asking", "answered", "raised"}
  /\ round \in 1 .. SchemaRetries
  /\ model \in Chain
  /\ attempt \in 1 .. Attempts
  /\ cause \in {"none", "schema", "unknown", "exhausted"}

Idle == call = "idle" /\ round = 1 /\ model = 1 /\ attempt = 1 /\ cause = "none"

Init == healthy = {} /\ Idle

-----------------------------------------------------------------------------
(* What an error means: the first of these that its text matches.          *)

Pointless(e) == "perday" \in e \/ "notfound" \in e

Overload(e) == ~Pointless(e) /\ "busy" \in e

RateLimit(e) == ~Pointless(e) /\ ~Overload(e) /\ "ratelimit" \in e

Unknown(e) == ~Pointless(e) /\ ~Overload(e) /\ ~RateLimit(e)

-----------------------------------------------------------------------------
Ask ==
  /\ call = "idle"
  /\ call' = "asking"
  /\ healthy' \in SUBSET Chain
  /\ UNCHANGED <<round, model, attempt, cause>>

\* extract_submitted finds a submission that satisfies the schema.
SubmitsResult ==
  /\ call = "asking"
  /\ call' = "answered"
  /\ UNCHANGED <<healthy, round, model, attempt, cause>>

Raise(why) ==
  /\ call' = "raised"
  /\ cause' = why
  /\ UNCHANGED <<healthy, round, model, attempt>>

\* The answer has no valid submission: the whole chain is asked once more.
SubmitsNothing ==
  /\ call = "asking" /\ model \notin healthy
  /\ \/ /\ round < SchemaRetries
        /\ round' = round + 1
        /\ model' = 1 /\ attempt' = 1
        /\ UNCHANGED <<healthy, call, cause>>
     \/ /\ round = SchemaRetries
        /\ Raise("schema")

\* A flat loop: falling back consumes one of the shared attempts.
MutantNextModel ==
  \/ /\ model < Models /\ attempt < Attempts
     /\ model' = model + 1 /\ attempt' = attempt + 1
     /\ UNCHANGED <<healthy, call, round, cause>>
  \/ /\ model = Models \/ attempt = Attempts
     /\ Raise("exhausted")

\* After the last model the chain starts again.
MutantNextModelAround ==
  /\ model' = IF model < Models THEN model + 1 ELSE 1
  /\ attempt' = 1
  /\ UNCHANGED <<healthy, call, round, cause>>

\* break, with the next model's own budget; or raise after the last one.
NextModel ==
  \/ /\ model < Models
     /\ model' = model + 1 /\ attempt' = 1
     /\ UNCHANGED <<healthy, call, round, cause>>
  \/ /\ model = Models
     /\ Raise("exhausted")

\* continue, after a wait.
Retry ==
  /\ attempt' = attempt + 1
  /\ UNCHANGED <<healthy, call, round, model, cause>>

Fails(e) ==
  /\ call = "asking" /\ model \notin healthy
  /\ \/ Pointless(e) /\ NextModel
     \/ Overload(e) /\ attempt <= QuickRetries /\ Retry
     \/ Overload(e) /\ attempt > QuickRetries /\ NextModel
     \/ RateLimit(e) /\ attempt < Attempts /\ Retry
     \/ RateLimit(e) /\ attempt = Attempts /\ NextModel
     \/ Unknown(e) /\ Raise("unknown")

\* The caller takes the result, or the exception.
Return ==
  /\ call \in {"answered", "raised"}
  /\ call' = "idle"
  /\ round' = 1 /\ model' = 1 /\ attempt' = 1 /\ cause' = "none"
  /\ healthy' = {}

Answering == SubmitsResult \/ SubmitsNothing \/ \E e \in Errors : Fails(e)

Next == Ask \/ Answering \/ Return

Spec == Init /\ [][Next]_vars

-----------------------------------------------------------------------------
(* Properties.                                                             *)

\* While some model of the chain works, a call is never given up because models
\* are exhausted, limited, busy or missing: the chain is gone down until that
\* model has answered ("a WORKING model sat third in the chain", llm.py).
HealthyModelIsReached ==
  call = "raised" /\ healthy # {} => cause \in {"schema", "unknown"}

\* A call ends, whatever the providers answer: no sequence of errors keeps it
\* waiting for ever.
CallEnds == call = "asking" ~> call # "asking"
=============================================================================
