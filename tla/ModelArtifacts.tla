---------------------------- MODULE ModelArtifacts -----------------------------
(***************************************************************************)
(* The files of the NER model: `model-load` fetches and verifies them, and *)
(* each start of a gateway verifies the cached files again before it loads *)
(* them, checks what was loaded with a probe, and refuses to start         *)
(* otherwise.  A fetch may be interrupted, and the cache changed by others *)
(* at any time.  The version 1 configuration: offline, pinned, required.   *)
(***************************************************************************)
CONSTANT Artifacts      \* of the manifest; all of them required

VARIABLES
    pinned,         \* there is a manifest for model@revision
    allowed,        \* --allow-unverified of the fetch
    cache,          \* each artifact in the snapshot: "absent", "whole" or "altered"
    pickle,         \* a weight file of an unsafe format lies beside them
    fetching, loading,      \* where the fetch and the start are
    unchecked, faulty,      \* verify_directory, of either: artifacts to go, and found wrong
    touched,        \* history: the cache was changed while the start was verifying or loading
    loaded,         \* what the start has read
    labels,         \* the labels of the loaded model: "mapped" or "unknown"
    offsets         \* the model tells offsets

model == <<loaded, labels, offsets>>
vars == <<pinned, allowed, cache, pickle, fetching, loading, unchecked, faulty, touched, model>>

NoFiles == [f \in Artifacts |-> "absent"]
Verifiers == {"fetch", "load"}

Init ==
    /\ pinned \in BOOLEAN
    /\ allowed \in BOOLEAN
    /\ cache = NoFiles
    /\ pickle = FALSE
    /\ fetching = "idle"
    /\ loading = "idle"
    /\ unchecked = [v \in Verifiers |-> {}]
    /\ faulty = [v \in Verifiers |-> {}]
    /\ touched = FALSE
    /\ loaded = NoFiles
    /\ labels = "unknown"
    /\ offsets = FALSE

-----------------------------------------------------------------------------
(* require_verified, artifact by artifact.                                 *)

BeginVerify(v) ==
    /\ unchecked' = [unchecked EXCEPT ![v] = IF pinned THEN Artifacts ELSE {}]
    /\ faulty' = [faulty EXCEPT ![v] = {}]

EndVerification(v) ==
    /\ unchecked' = [unchecked EXCEPT ![v] = {}]
    /\ faulty' = [faulty EXCEPT ![v] = {}]

\* Only the files that are there are looked at.
ArtifactFaultyIfThere(f) == cache[f] = "altered"

\* Missing, or of another size or digest
ArtifactFaulty(f) == cache[f] # "whole"

Check(v, f) ==
    /\ f \in unchecked[v]
    /\ unchecked' = [unchecked EXCEPT ![v] = @ \ {f}]
    /\ faulty' = IF ArtifactFaulty(f) THEN [faulty EXCEPT ![v] = @ \cup {f}] ELSE faulty

\* A model without a manifest is not looked at.
Verified(v, allow) ==
    IF pinned THEN unchecked[v] = {} /\ faulty[v] = {} /\ ~ pickle ELSE allow

-----------------------------------------------------------------------------
(* model-load.                                                             *)

\* fetch
BeginFetch ==
    /\ fetching \notin {"download", "verify"}
    /\ fetching' = IF pinned \/ allowed THEN "download" ELSE "refused"
    /\ UNCHANGED <<pinned, allowed, cache, pickle, loading, unchecked, faulty, touched, model>>

Starting == loading \in {"verify", "load"}

\* External: a file appears when it is complete, and one that is there is not fetched again.
Download(f) ==
    /\ fetching = "download"
    /\ cache[f] = "absent"
    /\ cache' = [cache EXCEPT ![f] = "whole"]
    /\ touched' = (touched \/ Starting)
    /\ UNCHANGED <<pinned, allowed, pickle, fetching, loading, unchecked, faulty, model>>

BeginCheckFetched ==
    /\ fetching = "download"
    /\ \A f \in Artifacts : cache[f] # "absent"
    /\ fetching' = "verify"
    /\ BeginVerify("fetch")
    /\ UNCHANGED <<pinned, allowed, cache, pickle, loading, touched, model>>

CheckFetched(f) ==
    /\ fetching = "verify"
    /\ Check("fetch", f)
    /\ UNCHANGED <<pinned, allowed, cache, pickle, fetching, loading, touched, model>>

EndFetch ==
    /\ fetching = "verify" /\ unchecked["fetch"] = {}
    /\ fetching' = IF Verified("fetch", allowed) THEN "fetched" ELSE "refused"
    /\ EndVerification("fetch")
    /\ UNCHANGED <<pinned, allowed, cache, pickle, loading, touched, model>>

Interrupt ==
    /\ fetching \in {"download", "verify"}
    /\ fetching' = "idle"
    /\ EndVerification("fetch")
    /\ UNCHANGED <<pinned, allowed, cache, pickle, loading, touched, model>>

\* A file is damaged or removed, or one of another format put beside it.
Tamper ==
    /\ \/ \E f \in Artifacts, what \in {"absent", "altered"} :
             cache' = [cache EXCEPT ![f] = what] /\ UNCHANGED pickle
       \/ pickle' = ~ pickle /\ UNCHANGED cache
    /\ touched' = (touched \/ Starting)
    /\ UNCHANGED <<pinned, allowed, fetching, loading, unchecked, faulty, model>>

-----------------------------------------------------------------------------
(* JapaneseNerDetector.__init__.                                           *)

\* A snapshot of the revision, be it complete or not
Cached == \E f \in Artifacts : cache[f] # "absent"

BeginStart ==
    /\ loading \in {"idle", "refused"}
    /\ loading' = IF Cached THEN "verify" ELSE "refused"
    /\ touched' = FALSE
    /\ BeginVerify("load")
    /\ UNCHANGED <<pinned, allowed, cache, pickle, fetching, model>>

CheckCached(f) ==
    /\ loading = "verify"
    /\ Check("load", f)
    /\ UNCHANGED <<pinned, allowed, cache, pickle, fetching, loading, touched, model>>

EndVerify ==
    /\ loading = "verify" /\ unchecked["load"] = {}
    /\ loading' = IF Verified("load", FALSE) THEN "load" ELSE "refused"
    /\ EndVerification("load")
    /\ UNCHANGED <<pinned, allowed, cache, pickle, fetching, touched, model>>

\* from_pretrained with use_safetensors, which may do without some of the files; an exception
\* refuses the start.
Load ==
    /\ loading = "load"
    /\ \/ loading' = "probe"
          /\ loaded' = cache
          /\ labels' \in {"mapped", "unknown"}
          /\ offsets' \in BOOLEAN
       \/ loading' = "refused" /\ UNCHANGED model
    /\ UNCHANGED <<pinned, allowed, cache, pickle, fetching, unchecked, faulty, touched>>

\* _validate_label_schema and _validate_offsets
Probe ==
    /\ loading = "probe"
    /\ loading' = IF labels = "mapped" /\ offsets THEN "available" ELSE "refused"
    /\ UNCHANGED <<pinned, allowed, cache, pickle, fetching, unchecked, faulty, touched, model>>

Stop ==
    /\ loading # "idle"
    /\ loading' = "idle"
    /\ loaded' = NoFiles
    /\ labels' = "unknown"
    /\ offsets' = FALSE
    /\ EndVerification("load")
    /\ UNCHANGED <<pinned, allowed, cache, pickle, fetching, touched>>

Next ==
    \/ BeginFetch \/ BeginCheckFetched \/ EndFetch \/ Interrupt \/ Tamper
    \/ \E f \in Artifacts : Download(f) \/ CheckFetched(f) \/ CheckCached(f)
    \/ BeginStart \/ EndVerify \/ Load \/ Probe \/ Stop

Spec == Init /\ [][Next]_vars

-----------------------------------------------------------------------------
(* Properties.                                                             *)

\* A detector that is available has loaded the pinned files whole, all of them, and can map
\* what it finds, whatever became of fetches and of the cache before the start; only a change
\* of the cache between the digests and the load is not seen.
ModelIsWhole ==
    loading = "available" =>
        /\ pinned /\ labels = "mapped" /\ offsets
        /\ ~ touched => \A f \in Artifacts : loaded[f] = "whole"
=============================================================================
