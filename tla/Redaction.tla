------------------------------ MODULE Redaction ------------------------------
(***************************************************************************)
(* What the platform removes from an agent's payload before it keeps or    *)
(* shows it (app/integrations/redact.py, sanitize.py): a value is [leaf],  *)
(* [dict: key -> value] or [list: sequence], secret the keys told secret.  *)
(***************************************************************************)
EXTENDS Sequences, SequencesExt

RECURSIVE Redact(_, _), Secrets(_, _)
\* The values of a dict's keys, and the members of a list.
RedactKeys(v, secret)    == [v EXCEPT !.of = [k \in DOMAIN v.of |-> IF k \in secret THEN [kind |-> "redacted"]
                                                                    ELSE Redact(v.of[k], secret)]]
RedactMembers(v, secret) == [v EXCEPT !.of = [k \in DOMAIN v.of |-> Redact(v.of[k], secret)]]
RedactNoMembers(v, secret) == v  \* mutant
Redact(v, secret) ==
  CASE v.kind = "dict" -> RedactKeys(v, secret)
    [] v.kind = "list" -> RedactMembers(v, secret)
    [] OTHER -> v
\* The values under a secret key, at any depth.
Secrets(v, secret) ==
  CASE v.kind = "dict" -> {v.of[k] : k \in secret \intersect DOMAIN v.of}
                          \union UNION {Secrets(v.of[k], secret) : k \in DOMAIN v.of \ secret}
    [] v.kind = "list" -> UNION {Secrets(x, secret) : x \in ToSet(v.of)}
    [] OTHER -> {}

\* What is kept under a secret key, at any depth, is nothing but the mark of its removal.
NoSecretKept(i) == Secrets(Redact(i.value, i.secret), i.secret) \subseteq {[kind |-> "redacted"]}
==============================================================================
