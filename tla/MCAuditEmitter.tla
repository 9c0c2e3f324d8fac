--------------------------- MODULE MCAuditEmitter ---------------------------
(* The container with its service and one admin process. The service tries *)
(* one event or heartbeat more than the admin process has to write.        *)
EXTENDS AuditEmitter

CONSTANTS s1, a1

OneService == {s1}
OneAdmin   == {a1}

Tries == [p \in OneService \cup OneAdmin |-> IF p = s1 THEN 3 ELSE 2]

=============================================================================
