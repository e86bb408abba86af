--------------------------- MODULE XPostRegistry ---------------------------
(***************************************************************************)
(* The idempotency registry of X posts (x/x_post_registry.py) and the      *)
(* classification of a create_tweet failure (x/post_to_x.py), as functions *)
(* on the registry value.  A key stands for sha256(origin, text): equal    *)
(* keys are equal forecasts with equal text, so the collision error of     *)
(* reserve cannot occur.  Times, attempts, post ids and error texts are    *)
(* output only.                                                            *)
(***************************************************************************)
CONSTANT Keys      \* idempotency keys

Statuses == {"none", "reserved", "posted", "failed", "ambiguous"}

\* failure_class: authentication and rate_limit are RETRYABLE_FAILURE_CLASSES
Classes == {"none", "retryable", "other"}

Entry == [status : Statuses, class : Classes]

Registry == [Keys -> Entry]

\* posts = {}
EmptyRegistry == [k \in Keys |-> [status |-> "none", class |-> "none"]]

\* mutant: an ambiguous failure may be retried too
RetryableAny(e) == e.status \in {"failed", "ambiguous"}

Retryable(e) == e.status = "failed" /\ e.class = "retryable"

\* the action reserve returns
ReserveAction(e) ==
    IF e.status = "none" \/ Retryable(e) THEN "publish"
    ELSE IF e.status = "posted" THEN "duplicate" ELSE "locked"

Reserve(reg, k) ==
    IF ReserveAction(reg[k]) = "publish"
    THEN [reg EXCEPT ![k] = [status |-> "reserved", class |-> "none"]]
    ELSE reg

MarkPosted(reg, k) == [reg EXCEPT ![k] = [status |-> "posted", class |-> "none"]]

MarkFailed(reg, k, class, ambiguous) ==
    [reg EXCEPT ![k] = [status |-> IF ambiguous THEN "ambiguous" ELSE "failed",
                        class  |-> class]]

\* mutant: every failure of create_tweet counts as definitive
MarkErrorDefinitive(reg, k, class) == MarkFailed(reg, k, "retryable", FALSE)

\* publish_post: only authentication and rate-limit errors are not ambiguous
MarkError(reg, k, class) == MarkFailed(reg, k, class, class # "retryable")
=============================================================================
