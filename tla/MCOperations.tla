----------------------------- MODULE MCOperations -----------------------------
(***************************************************************************)
(* What runs an installation, one part at a time: its files and their      *)
(* leases, the files of the model, and one exchange over HTTP.             *)
(***************************************************************************)
EXTENDS StateLayout, TLC

CONSTANTS Artifacts, MaxBody

VARIABLES
    part,
    pinned, allowed, cache, pickle, fetching, loading, unchecked, faulty, touched,
    loaded, labels, offsets,
    product_mode, request, step, total, answer, upstream, relaying, bound, shown, status,
    started, completed, stream_errors, recorded, gone

Model == INSTANCE ModelArtifacts
Http == INSTANCE HttpExchange

modelVars == <<pinned, allowed, cache, pickle, fetching, loading, unchecked, faulty, touched,
               loaded, labels, offsets>>
httpVars == <<product_mode, request, step, total, answer, upstream, relaying, bound, shown,
              status, started, completed, stream_errors, recorded, gone>>

\* A part that is not looked at has one initial state.
OperationsInit ==
    /\ part \in {"layout", "model", "http"}
    /\ Init /\ Model!Init /\ Http!Init
    /\ part # "layout" => made = 0
    /\ part # "model" => ~ pinned /\ ~ allowed
    /\ part # "http" =>
          /\ product_mode = "claude"
          /\ request = [path |-> "other", encoded |-> FALSE, media |-> FALSE, declared |-> 0,
                        body |-> "other", stream |-> FALSE]

\* bound: once a third state directory is made, one gateway at a time; and it makes the last one
Bounded ==
    /\ made' > 2 => Cardinality({p \in Gateways : pc'[p] # "idle"}) < 2
    /\ phase = "idle" /\ phase' # "idle" => made' < MaxGenerations

OperationsNext ==
    \/ part = "layout" /\ Next /\ Bounded /\ UNCHANGED <<part, modelVars, httpVars>>
    \/ part = "model" /\ Model!Next /\ UNCHANGED <<part, vars, httpVars>>
    \/ part = "http" /\ Http!Next /\ UNCHANGED <<part, vars, modelVars>>

OperationsSpec ==
    OperationsInit /\ [][OperationsNext]_<<part, vars, modelVars, httpVars>>

Symmetry == Permutations(Gateways)

\* A detector that is available has loaded the pinned files, all of them and unaltered, and
\* can map what it finds, unless the cache changed while they were read.
ModelIsWhole == Model!ModelIsWhole

\* Every request is counted once as started and once as completed, with the status its client
\* saw; and every stream that was broken off is one stream error.
AccountedFor == Http!AccountedFor

\* The client sees the end of an answer only after its response id is bound, and a stream
\* that was begun has closed its connection.
EndsInOrder == Http!EndsInOrder
=============================================================================
