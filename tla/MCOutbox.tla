------------------------------ MODULE MCOutbox -------------------------------
(* Instances of Outbox for TLC. *)
EXTENDS Outbox

CONSTANTS w1, w2, k1, k2

\* One worker identity per process, the default host:pid.
MCOwnIds == [p \in Workers |-> p]
\* The second process is the thread in the web process, which is restricted to
\* one topic.
MCServesSome == [p \in Workers |-> IF p = w1 THEN Jobs ELSE {k1}]
MCMaxAttempts == [j \in Jobs |-> 2]
=============================================================================
