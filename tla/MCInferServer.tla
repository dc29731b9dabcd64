---------------------------- MODULE MCInferServer ----------------------------
(***************************************************************************)
(* InferServer on a small instance: what a request may carry, the metadata *)
(* of the registry's entries, and the configurations of the server.        *)
(***************************************************************************)
EXTENDS InferServer

CONSTANTS t1, t2, fp32, int8

OneOrMore == {<<t1>>, <<t2>>, <<t1, t2>>, <<t1, t1>>}

\* The registry's entries all of the same metadata: a directory on two backends.
Shared == [m \in Models |-> fp32]

Metadatas == {Shared} \cup {[Shared EXCEPT ![m] = int8] : m \in {CHOOSE m \in Models : TRUE}}

\* Without a cache the metadata is read by nobody.
AllConfigs ==
    [cache : {TRUE}, batching : BOOLEAN, metadata : Metadatas]
    \cup [cache : {FALSE}, batching : BOOLEAN, metadata : {Shared}]
=============================================================================
