-------------------------- MODULE MCRequestParser --------------------------
\* Every token may be longer than its limit, and a message longer than the buffer; two
\* tokens of a kind fit into its limit together.
EXTENDS RequestParser

SmallLimits == [k \in Kinds |-> IF k = "url" THEN 3 ELSE 2]
=============================================================================
