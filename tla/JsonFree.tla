------------------------------- MODULE JsonFree -------------------------------
(***************************************************************************)
(* How SrsJsonAny::loads (trunk/src/protocol/srs_protocol_json.cpp) gives  *)
(* the nodes of JsonParser back.  When the first pass fails, they are      *)
(* freed along the list of their allocation.  Else json_value_free_ex goes *)
(* through their tree: it leaves a node with the last of its entries as    *)
(* long as there is one, whose counter it takes down, and else frees the   *)
(* node and goes back to its parent.                                       *)
(***************************************************************************)
EXTENDS JsonParser

VARIABLES
    stage,       \* of loads(): "parsing", "freeing" or "returned"
    value,       \* the local of json_value_free_ex: a node, or 0
    left,        \* what is left of the length of each node
    freed        \* the nodes that have been freed

loadVars == <<text, complete, parser, stage, value, left, freed>>

LoadInit ==
    /\ Init
    /\ stage = "parsing" /\ value = 0 /\ left = <<>> /\ freed = {}

Parse == stage = "parsing" /\ Next /\ UNCHANGED <<stage, value, left, freed>>

\* e_failed: the first pass frees along next_alloc.
FreeChain ==
    /\ stage = "parsing" /\ parser.status = "failed" /\ parser.pass = 1
    /\ stage' = "returned" /\ freed' = DOMAIN parser.nodes
    /\ UNCHANGED <<vars, value, left>>

\* Only arrays and objects have entries.
Entries(n) == IF n.type \in {"array", "object"} THEN n.length ELSE 0

FreeBegins ==
    /\ stage = "parsing" /\ parser.status \in {"accepted", "failed"} /\ parser.pass = 2
    /\ stage' = "freeing" /\ value' = 1
    /\ left' = [i \in DOMAIN parser.nodes |-> Entries(parser.nodes[i])]
    /\ UNCHANGED <<vars, freed>>

\* Faulty variant: the counter is not taken down.
FreeEntryAgain ==
    /\ stage = "freeing" /\ left[value] > 0
    /\ value' = parser.nodes[value].items[left[value]]
    /\ UNCHANGED <<vars, stage, left, freed>>

FreeEntry ==
    /\ stage = "freeing" /\ left[value] > 0
    /\ value' = parser.nodes[value].items[left[value]]
    /\ left' = [left EXCEPT ![value] = @ - 1]
    /\ UNCHANGED <<vars, stage, freed>>

FreeNode ==
    /\ stage = "freeing" /\ left[value] = 0
    /\ freed' = freed \cup {value}
    /\ value' = parser.nodes[value].parent
    /\ stage' = IF value' = 0 THEN "returned" ELSE stage
    /\ UNCHANGED <<vars, left>>

LoadNext == Parse \/ FreeChain \/ FreeBegins \/ FreeEntry \/ FreeNode

LoadSpec == LoadInit /\ [][LoadNext]_loadVars /\ WF_loadVars(LoadNext)

-----------------------------------------------------------------------------
\* json_value_free_ex does not come to a node that it has freed, and frees a node after
\* its children; when loads() returns, every node is freed.
FreesAll ==
    /\ stage = "freeing" => value \in DOMAIN parser.nodes \ freed
    /\ \A i \in DOMAIN parser.nodes :
          parser.nodes[i].parent \in freed => i \in freed
    /\ stage = "returned" => freed = DOMAIN parser.nodes

\* loads() returns, whatever the text is.
Returns == <>(stage = "returned")
=============================================================================
