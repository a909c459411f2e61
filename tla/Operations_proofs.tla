-------------------------- MODULE Operations_proofs ---------------------------
(***************************************************************************)
(* Proofs about what runs an installation.  StateLayout: the lease of the  *)
(* key keeps processes apart, and a reset from processes that run, for any *)
(* number of them.  ModelArtifacts and HttpExchange, as MCOperations       *)
(* composes them: a detector that is available has loaded what was         *)
(* verified, and each request is accounted for, in every state they can be *)
(* in.                                                                     *)
(***************************************************************************)
EXTENDS MCOperations, TLAPS

-----------------------------------------------------------------------------
(* The files of an installation and their leases.                          *)

Slots == Generations \cup {None}

\* Where a gateway has the lease of the key
Leased == {"keyed", "linked", "leased", "running"}

Active(p) == pc[p] \in Starting \cup {"running"} /\ ~ crossed[p]

TypeInv ==
    /\ at \in [TargetNames -> Slots]
    /\ made \in 0..MaxGenerations
    /\ keys \subseteq 1..made
    /\ database \in [Generations -> Slots]
    /\ key_lock \in [Generations -> Gateways \cup {Reset, None}]
    /\ pc \in [Gateways -> Starting \cup {"idle", "running", "unkeyed", "unleased"}]
    /\ key \in [Gateways -> Slots]
    /\ key_file \in [Gateways -> Slots]
    /\ crossed \in [Gateways -> BOOLEAN]
    /\ phase \in {"idle", "make", "staged", "move", "cleanup"}
    /\ staged \in 1..made \cup {None}
    /\ phase # "idle" => staged # None
    /\ backup \in [TargetNames -> Slots]
    /\ moved \in 0..3
    /\ installed \in 0..4
    /\ failing \in BOOLEAN

\* A gateway that has come so far has the lock of the key file it opened.
LeaseInv ==
    \A p \in Gateways :
        /\ pc[p] \in Leased \cup {"opened"} => key_file[p] \in Generations
        /\ pc[p] \in Leased => key_lock[key_file[p]] = p

\* Unless the state directory was replaced under it, that file and the key it read are those
\* on the disk.
CurrentInv ==
    \A p \in Gateways : Active(p) =>
        /\ at["state"] \in keys
        /\ key[p] = at["state"]
        /\ pc[p] # "read" => key_file[p] = at["state"]
        /\ pc[p] = "running" => database[at["state"]] = key[p]

\* A reset may touch what has no key or is locked by it, until it has put the new state
\* directory in its place, which is its last step.
Free(g) == g \notin keys \/ key_lock[g] = Reset

ResetInv ==
    /\ phase \in {"idle", "staged"} =>
          backup = Nothing /\ moved = 0 /\ installed = 0 /\ failing = FALSE
    /\ phase = "move" =>
          /\ installed > 0 => moved = 3
          /\ installed < 4 /\ (failing => installed < 3)
          /\ installed = 3 \/ Free(at["state"])
          /\ Free(backup["state"])

LayoutInv == TypeInv /\ LeaseInv /\ CurrentInv /\ ResetInv

-----------------------------------------------------------------------------
LEMMA InitialInv == Init => LayoutInv
<1> SUFFICES ASSUME Init PROVE LayoutInv
  OBVIOUS
<1>1. TypeInv
  <2>1. 1 \in Generations /\ 1 \in 1..1
    BY LayoutAssumption DEF Generations
  <2>2. /\ at \in [TargetNames -> Slots] /\ backup \in [TargetNames -> Slots]
        /\ made \in 0..MaxGenerations /\ keys \subseteq 1..made
    BY <2>1, LayoutAssumption DEF Init, Slots, Nothing, All
  <2>3. /\ database \in [Generations -> Slots]
        /\ key_lock \in [Generations -> Gateways \cup {Reset, None}]
        /\ key \in [Gateways -> Slots] /\ key_file \in [Gateways -> Slots]
    BY DEF Init, Slots
  <2>4. crossed \in [Gateways -> BOOLEAN] /\ failing \in BOOLEAN
    BY Zenon DEF Init
  <2>5. pc \in [Gateways -> Starting \cup {"idle", "running", "unkeyed", "unleased"}]
    BY DEF Init
  <2>6. QED
    BY <2>2, <2>3, <2>4, <2>5 DEF Init, TypeInv
<1>2. LeaseInv
  BY DEF Init, LeaseInv, Leased
<1>3. CurrentInv
  BY DEF Init, CurrentInv, Active, Starting
<1>4. ResetInv
  BY DEF Init, ResetInv, Free
<1>5. QED
  BY <1>1, <1>2, <1>3, <1>4 DEF LayoutInv

LEMMA NoneHasNoKey == TypeInv => None \notin keys /\ keys \subseteq Generations
<1> SUFFICES ASSUME TypeInv PROVE \A k \in keys : k \in Nat /\ k \in Generations
  BY LayoutAssumption
<1> QED
  BY LayoutAssumption DEF TypeInv, Generations

\* What a reset may touch, no gateway runs on that did not start across it.
LEMMA NobodyRuns ==
    ASSUME LayoutInv, Free(at["state"]), NEW p \in Gateways, pc[p] = "running"
    PROVE  crossed[p]
<1> SUFFICES ASSUME ~ crossed[p] PROVE FALSE
  OBVIOUS
<1>1. at["state"] \in keys /\ key_file[p] = at["state"]
  BY DEF LayoutInv, CurrentInv, Active
<1>2. key_lock[at["state"]] = p
  BY <1>1 DEF LayoutInv, LeaseInv, Leased
<1>3. QED
  BY <1>1, <1>2, LayoutAssumption DEF Free

\* When the state directory is replaced, every gateway that starts crosses it.
LEMMA ReplacingKeepsCurrent ==
    ASSUME LayoutInv, Free(at["state"]), Cross, UNCHANGED pc
    PROVE  CurrentInv'
<1> SUFFICES ASSUME NEW p \in Gateways, Active(p)' PROVE FALSE
  BY DEF CurrentInv
<1>1. crossed'[p] <=> crossed[p] \/ pc[p] \in Starting
  BY DEF Cross
<1>2. CASE pc[p] = "running"
  BY <1>1, <1>2, NobodyRuns DEF Active
<1>3. CASE pc[p] # "running"
  BY <1>1, <1>3 DEF Active
<1>4. QED
  BY <1>2, <1>3

\* A step that leaves the state directory and the gateways as they are
LEMMA OthersKeepCurrent ==
    ASSUME CurrentInv, at'["state"] = at["state"],
           at["state"] \in keys =>
              at["state"] \in keys' /\ database'[at["state"]] = database[at["state"]],
           UNCHANGED <<pc, key, key_file>>, Cross \/ UNCHANGED crossed
    PROVE  CurrentInv'
<1> SUFFICES ASSUME NEW p \in Gateways, Active(p)'
             PROVE  /\ at["state"] \in keys'
                    /\ key[p] = at["state"]
                    /\ pc[p] # "read" => key_file[p] = at["state"]
                    /\ pc[p] = "running" => database'[at["state"]] = key[p]
  BY DEF CurrentInv
<1>1. Active(p)
  BY DEF Active, Cross
<1>2. QED
  BY <1>1 DEF CurrentInv

\* A gateway that finds no state directory makes one without a key.
LEMMA MakingADirectory ==
    ASSUME LayoutInv, MakeDirectory, UNCHANGED <<keys, key_lock>>
    PROVE  /\ at' \in [TargetNames -> Slots] /\ at'["state"] \in Generations
           /\ made' \in 0..MaxGenerations /\ made <= made'
           /\ keys' \subseteq 1..made' /\ staged \in 1..made' \cup {None}
           /\ crossed' \in [Gateways -> BOOLEAN]
           /\ Free(at["state"]) => Free(at'["state"])
           /\ \A p \in Gateways : pc[p] \in Starting /\ ~ crossed'[p] =>
                 Active(p) /\ at' = at
           /\ \A p \in Gateways : pc[p] = "running" /\ ~ crossed'[p] =>
                 Active(p) /\ at' = at
<1>1. CASE at["state"] = None
  <2>1. /\ made < MaxGenerations /\ made' = made + 1 /\ at' = [at EXCEPT !["state"] = made + 1]
        /\ crossed' = [p \in Gateways |-> crossed[p] \/ pc[p] \in Starting]
    BY <1>1 DEF MakeDirectory, Cross
  <2>2. made \in 0..MaxGenerations /\ keys \subseteq 1..made /\ staged \in 1..made \cup {None}
    BY DEF LayoutInv, TypeInv
  <2>3. made + 1 \in Generations /\ made' \in 0..MaxGenerations
    BY <2>1, <2>2, LayoutAssumption DEF Generations
  <2>4. at' \in [TargetNames -> Slots] /\ at'["state"] = made + 1
    BY <2>1, <2>3 DEF LayoutInv, TypeInv, Slots, TargetNames
  <2>5. made + 1 \notin keys
    BY <2>2
  <2>6. keys \subseteq 1..made' /\ staged \in 1..made' \cup {None} /\ made <= made'
    BY <2>1, <2>2
  <2>7. crossed' \in [Gateways -> BOOLEAN]
    BY <2>1, Zenon
  <2>8. ASSUME NEW p \in Gateways, pc[p] \in Starting \/ pc[p] = "running" PROVE crossed'[p]
    <3>1. crossed'[p] <=> crossed[p] \/ pc[p] \in Starting
      BY <2>1
    <3>2. None \notin keys
      BY NoneHasNoKey DEF LayoutInv
    <3>3. crossed[p] \/ pc[p] \in Starting
      BY <1>1, <2>8, <3>2 DEF LayoutInv, CurrentInv, Active
    <3>4. QED
      BY <3>1, <3>3
  <2>9. QED
    BY <2>3, <2>4, <2>5, <2>6, <2>7, <2>8 DEF Free
<1>2. CASE at["state"] # None
  <2>1. UNCHANGED <<made, at, crossed>>
    BY <1>2 DEF MakeDirectory
  <2>2. "state" \in TargetNames
    BY DEF TargetNames
  <2>3. at["state"] \in Generations
    BY <1>2, <2>2 DEF LayoutInv, TypeInv, Slots
  <2>4. made <= made' /\ made' \in 0..MaxGenerations
    BY <2>1 DEF LayoutInv, TypeInv
  <2>5. crossed' \in [Gateways -> BOOLEAN]
    BY <2>1, Zenon DEF LayoutInv, TypeInv
  <2>6. QED
    BY <2>1, <2>3, <2>4, <2>5 DEF LayoutInv, TypeInv, Active, Free
<1>3. QED
  BY <1>1, <1>2

-----------------------------------------------------------------------------
(* The steps of a gateway.                                                 *)

\* Steps that leave the reset alone keep its part if they keep what is free.
LEMMA ResetKept ==
    ASSUME ResetInv, UNCHANGED reset,
           phase = "move" /\ Free(at["state"]) => Free(at["state"])',
           Free(backup["state"]) => Free(backup["state"])'
    PROVE  ResetInv'
BY DEF ResetInv, reset

LEMMA ReadKeyKeeps ==
    ASSUME LayoutInv, NEW p \in Gateways, ReadKey(p)
    PROVE  LayoutInv'
<1>1. at["state"] \in keys /\ at["state"] \in Slots
  BY NoneHasNoKey DEF ReadKey, HasKey, LayoutInv, Slots
<1>2. TypeInv'
  <2>1. key' \in [Gateways -> Slots]
    BY <1>1 DEF ReadKey, LayoutInv, TypeInv
  <2>2. crossed' \in [Gateways -> BOOLEAN]
    BY Zenon DEF ReadKey, LayoutInv, TypeInv
  <2>3. pc' \in [Gateways -> Starting \cup {"idle", "running", "unkeyed", "unleased"}]
    BY DEF ReadKey, Goes, Starting, LayoutInv, TypeInv
  <2>4. QED
    BY <2>1, <2>2, <2>3 DEF ReadKey, disk, locks, reset, LayoutInv, TypeInv
<1>3. LeaseInv'
  BY DEF ReadKey, Goes, locks, Leased, LayoutInv, TypeInv, LeaseInv
<1>4. CurrentInv'
  <2> SUFFICES ASSUME NEW q \in Gateways, Active(q)'
               PROVE  /\ at["state"] \in keys
                      /\ key'[q] = at["state"]
                      /\ pc'[q] # "read" => key_file[q] = at["state"]
                      /\ pc'[q] = "running" => database[at["state"]] = key'[q]
    BY DEF CurrentInv, ReadKey, disk
  <2>1. CASE q = p
    BY <1>1, <2>1 DEF ReadKey, Goes, LayoutInv, TypeInv
  <2>2. CASE q # p
    BY <2>2 DEF ReadKey, Goes, Active, LayoutInv, TypeInv, CurrentInv
  <2>3. QED
    BY <2>1, <2>2
<1>5. ResetInv'
  BY ResetKept DEF ReadKey, disk, locks, reset, Free, LayoutInv
<1>6. QED
  BY <1>2, <1>3, <1>4, <1>5 DEF LayoutInv

LEMMA OpenKeyKeeps ==
    ASSUME LayoutInv, NEW p \in Gateways, OpenKey(p)
    PROVE  LayoutInv'
<1>1. at["state"] \in keys /\ at["state"] \in Generations
  BY NoneHasNoKey DEF OpenKey, HasKey, LayoutInv
<1>2. TypeInv'
  <2>1. key_file' \in [Gateways -> Slots]
    BY <1>1 DEF OpenKey, Slots, LayoutInv, TypeInv
  <2>2. pc' \in [Gateways -> Starting \cup {"idle", "running", "unkeyed", "unleased"}]
    BY DEF OpenKey, Goes, Starting, LayoutInv, TypeInv
  <2>3. QED
    BY <2>1, <2>2 DEF OpenKey, disk, locks, reset, LayoutInv, TypeInv
<1>3. LeaseInv'
  BY <1>1 DEF OpenKey, Goes, locks, Leased, LayoutInv, TypeInv, LeaseInv
<1>4. CurrentInv'
  <2> SUFFICES ASSUME NEW q \in Gateways, Active(q)'
               PROVE  /\ at["state"] \in keys
                      /\ key[q] = at["state"]
                      /\ pc'[q] # "read" => key_file'[q] = at["state"]
                      /\ pc'[q] = "running" => database[at["state"]] = key[q]
    BY DEF CurrentInv, OpenKey, disk
  <2>1. CASE q = p
    BY <1>1, <2>1 DEF OpenKey, Goes, Active, Starting, LayoutInv, TypeInv, CurrentInv
  <2>2. CASE q # p
    BY <2>2 DEF OpenKey, Goes, Active, LayoutInv, TypeInv, CurrentInv
  <2>3. QED
    BY <2>1, <2>2
<1>5. ResetInv'
  BY ResetKept DEF OpenKey, disk, locks, reset, Free, LayoutInv
<1>6. QED
  BY <1>2, <1>3, <1>4, <1>5 DEF LayoutInv

LEMMA LockKeyKeeps ==
    ASSUME LayoutInv, NEW p \in Gateways, LockKey(p)
    PROVE  LayoutInv'
<1>1. /\ key_file[p] \in Generations /\ key_lock[key_file[p]] = None
      /\ key_lock' = [key_lock EXCEPT ![key_file[p]] = p]
  BY DEF LockKey, Goes, LayoutInv, LeaseInv
<1>2. TypeInv'
  <2>1. key_lock' \in [Generations -> Gateways \cup {Reset, None}]
    BY <1>1 DEF LayoutInv, TypeInv
  <2>2. pc' \in [Gateways -> Starting \cup {"idle", "running", "unkeyed", "unleased"}]
    BY DEF LockKey, Goes, Starting, LayoutInv, TypeInv
  <2>3. QED
    BY <2>1, <2>2 DEF LockKey, disk, reset, LayoutInv, TypeInv
<1>3. LeaseInv'
  <2> SUFFICES ASSUME NEW q \in Gateways
               PROVE  /\ pc'[q] \in Leased \cup {"opened"} => key_file[q] \in Generations
                      /\ pc'[q] \in Leased => key_lock'[key_file[q]] = q
    BY DEF LeaseInv, LockKey
  <2>1. CASE q = p
    BY <1>1, <2>1 DEF LayoutInv, TypeInv
  <2>2. CASE q # p
    BY <1>1, <2>2, LayoutAssumption DEF LockKey, Goes, Leased, LayoutInv, TypeInv, LeaseInv
  <2>3. QED
    BY <2>1, <2>2
<1>4. CurrentInv'
  BY DEF LockKey, Goes, disk, Active, Starting, LayoutInv, TypeInv, CurrentInv
<1>5. ResetInv'
  <2>1. \A g : Free(g) => Free(g)'
    BY <1>1, LayoutAssumption DEF LockKey, disk, Free, LayoutInv, TypeInv
  <2>2. QED
    BY <2>1, ResetKept DEF LockKey, disk, reset, Free, LayoutInv
<1>6. QED
  BY <1>2, <1>3, <1>4, <1>5 DEF LayoutInv

LEMMA OpenLeaseKeeps ==
    ASSUME LayoutInv, NEW p \in Gateways, OpenLease(p)
    PROVE  LayoutInv'
<1>1. UNCHANGED <<keys, key_lock, database, key, key_file, reset>> /\ MakeDirectory
  BY DEF OpenLease, locks
<1>2. pc[p] = "keyed" /\ pc' = [pc EXCEPT ![p] = "linked"]
  BY DEF OpenLease, Goes
<1>3. TypeInv'
  <2>1. pc' \in [Gateways -> Starting \cup {"idle", "running", "unkeyed", "unleased"}]
    BY <1>2 DEF Starting, LayoutInv, TypeInv
  <2>2. QED
    BY <1>1, <2>1, MakingADirectory DEF reset, LayoutInv, TypeInv
<1>4. LeaseInv'
  BY <1>1, <1>2 DEF Leased, LayoutInv, TypeInv, LeaseInv
<1>5. CurrentInv'
  <2> SUFFICES ASSUME NEW q \in Gateways, Active(q)'
               PROVE  /\ at'["state"] \in keys
                      /\ key[q] = at'["state"]
                      /\ pc'[q] # "read" => key_file[q] = at'["state"]
                      /\ pc'[q] = "running" => database[at'["state"]] = key[q]
    BY <1>1 DEF CurrentInv
  <2>1. Active(q) /\ at' = at
    <3>1. (pc[q] \in Starting \/ pc[q] = "running") /\ ~ crossed'[q]
      BY <1>2 DEF Active, Starting, LayoutInv, TypeInv
    <3>2. QED
      BY <1>1, <3>1, MakingADirectory
  <2>2. pc'[q] = "running" => pc[q] = "running"
    BY <1>2 DEF LayoutInv, TypeInv
  <2>3. pc'[q] # "read" => pc[q] # "read"
    BY <1>2 DEF LayoutInv, TypeInv
  <2>4. QED
    BY <2>1, <2>2, <2>3 DEF LayoutInv, CurrentInv
<1>6. ResetInv'
  <2>1. Free(at["state"]) => Free(at["state"])'
    BY <1>1, MakingADirectory DEF Free
  <2>2. QED
    BY <1>1, <2>1, ResetKept DEF reset, Free, LayoutInv
<1>7. QED
  BY <1>3, <1>4, <1>5, <1>6 DEF LayoutInv

LEMMA LockLeaseKeeps ==
    ASSUME LayoutInv, NEW p \in Gateways, LockLease(p)
    PROVE  LayoutInv'
<1>1. TypeInv'
  <2>1. pc' \in [Gateways -> Starting \cup {"idle", "running", "unkeyed", "unleased"}]
    BY DEF LockLease, Goes, Starting, LayoutInv, TypeInv
  <2>2. QED
    BY <2>1 DEF LockLease, disk, reset, LayoutInv, TypeInv
<1>2. LeaseInv'
  BY DEF LockLease, Goes, Leased, LayoutInv, TypeInv, LeaseInv
<1>3. CurrentInv'
  BY DEF LockLease, Goes, disk, Active, Starting, LayoutInv, TypeInv, CurrentInv
<1>4. ResetInv'
  BY ResetKept DEF LockLease, disk, reset, Free, LayoutInv
<1>5. QED
  BY <1>1, <1>2, <1>3, <1>4 DEF LayoutInv

\* The database of a process that runs has its key, so another that starts with the same
\* database has that key too.
LEMMA InitializeKeeps ==
    ASSUME LayoutInv, NEW p \in Gateways, Initialize(p)
    PROVE  LayoutInv'
<1>1. UNCHANGED <<keys, key_lock, key, key_file, reset>> /\ MakeDirectory
  BY DEF Initialize, locks
<1>2. pc[p] = "leased" /\ pc' = [pc EXCEPT ![p] = "running"]
  BY DEF Initialize, Goes
<1>3. /\ at'["state"] \in Generations
      /\ database[at'["state"]] \in {None, key[p]}
      /\ database' = [database EXCEPT ![at'["state"]] = key[p]]
  BY <1>1, MakingADirectory DEF Initialize
<1>4. TypeInv'
  <2>1. pc' \in [Gateways -> Starting \cup {"idle", "running", "unkeyed", "unleased"}]
    BY <1>2 DEF Starting, LayoutInv, TypeInv
  <2>2. database' \in [Generations -> Slots]
    BY <1>3 DEF LayoutInv, TypeInv
  <2>3. QED
    BY <1>1, <2>1, <2>2, MakingADirectory DEF reset, LayoutInv, TypeInv
<1>5. LeaseInv'
  BY <1>1, <1>2 DEF Leased, LayoutInv, TypeInv, LeaseInv
<1>6. CurrentInv'
  <2> SUFFICES ASSUME NEW q \in Gateways, Active(q)'
               PROVE  /\ at'["state"] \in keys
                      /\ key[q] = at'["state"]
                      /\ pc'[q] # "read" => key_file[q] = at'["state"]
                      /\ pc'[q] = "running" => database'[at'["state"]] = key[q]
    BY <1>1 DEF CurrentInv
  <2>1. Active(q) /\ at' = at
    <3>1. (pc[q] \in Starting \/ pc[q] = "running") /\ ~ crossed'[q]
      BY <1>2 DEF Active, Starting, LayoutInv, TypeInv
    <3>2. QED
      BY <1>1, <3>1, MakingADirectory
  <2>2. at["state"] \in keys /\ key[q] = at["state"] /\ at["state"] # None
    BY <2>1, NoneHasNoKey DEF LayoutInv, CurrentInv
  <2>3. pc'[q] # "read" => key_file[q] = at["state"]
    BY <1>2, <2>1 DEF LayoutInv, TypeInv, CurrentInv
  <2>4. ASSUME pc'[q] = "running" PROVE key[p] = key[q]
    <3>1. CASE q = p
      BY <3>1
    <3>2. CASE q # p
      <4>1. pc[q] = "running"
        BY <1>2, <2>4, <3>2 DEF LayoutInv, TypeInv
      <4>2. database[at["state"]] = key[q]
        BY <2>1, <4>1 DEF LayoutInv, CurrentInv
      <4>3. QED
        BY <1>3, <2>1, <2>2, <4>2
    <3>3. QED
      BY <3>1, <3>2
  <2>5. database'[at'["state"]] = key[p]
    BY <1>3 DEF LayoutInv, TypeInv
  <2>6. QED
    BY <2>1, <2>2, <2>3, <2>4, <2>5
<1>7. ResetInv'
  <2>1. Free(at["state"]) => Free(at["state"])'
    BY <1>1, MakingADirectory DEF Free
  <2>2. QED
    BY <1>1, <2>1, ResetKept DEF reset, Free, LayoutInv
<1>8. QED
  BY <1>4, <1>5, <1>6, <1>7 DEF LayoutInv

LEMMA Unlocking ==
    ASSUME TypeInv, NEW x, key_lock' = Unlock(key_lock, x)
    PROVE  /\ key_lock' \in [Generations -> Gateways \cup {Reset, None}]
           /\ \A g \in Generations : key_lock[g] # x => key_lock'[g] = key_lock[g]
BY DEF Unlock, TypeInv

\* A gateway gives back its own locks only; the others and the reset keep theirs.
LEMMA GivingBack ==
    ASSUME LayoutInv, NEW p \in Gateways, NEW to \in {"idle", "unkeyed", "unleased"},
           pc' = [pc EXCEPT ![p] = to],
           key_lock' \in [Generations -> Gateways \cup {Reset, None}],
           \A g \in Generations : key_lock[g] # p => key_lock'[g] = key_lock[g],
           Forget(p) \/ UNCHANGED <<key, key_file, crossed>>,
           UNCHANGED <<at, keys, database, made, reset>>
    PROVE  LayoutInv'
<1>1. \A q \in Gateways \ {p} :
         /\ pc'[q] = pc[q] /\ key'[q] = key[q] /\ key_file'[q] = key_file[q]
         /\ crossed'[q] = crossed[q]
  BY DEF Forget, LayoutInv, TypeInv
<1>2. pc'[p] = to
  BY DEF LayoutInv, TypeInv
<1>3. TypeInv'
  <2>1. pc' \in [Gateways -> Starting \cup {"idle", "running", "unkeyed", "unleased"}]
    BY DEF LayoutInv, TypeInv
  <2>2. key' \in [Gateways -> Slots] /\ key_file' \in [Gateways -> Slots]
    BY DEF Forget, Slots, LayoutInv, TypeInv
  <2>3. crossed' \in [Gateways -> BOOLEAN]
    BY Zenon DEF Forget, LayoutInv, TypeInv
  <2>4. QED
    BY <2>1, <2>2, <2>3 DEF reset, LayoutInv, TypeInv
<1>4. LeaseInv'
  <2> SUFFICES ASSUME NEW q \in Gateways
               PROVE  /\ pc'[q] \in Leased \cup {"opened"} => key_file'[q] \in Generations
                      /\ pc'[q] \in Leased => key_lock'[key_file'[q]] = q
    BY DEF LeaseInv
  <2>1. CASE q = p
    BY <1>2, <2>1 DEF Leased
  <2>2. CASE q # p
    BY <1>1, <2>2 DEF LayoutInv, LeaseInv
  <2>3. QED
    BY <2>1, <2>2
<1>5. CurrentInv'
  <2> SUFFICES ASSUME NEW q \in Gateways, Active(q)'
               PROVE  /\ at["state"] \in keys
                      /\ key'[q] = at["state"]
                      /\ pc'[q] # "read" => key_file'[q] = at["state"]
                      /\ pc'[q] = "running" => database[at["state"]] = key'[q]
    BY DEF CurrentInv
  <2>1. q # p
    BY <1>2 DEF Active, Starting
  <2>2. QED
    BY <1>1, <2>1 DEF Active, LayoutInv, CurrentInv
<1>6. ResetInv'
  <2>1. \A g : Free(g) => Free(g)'
    <3> SUFFICES ASSUME NEW g, Free(g), g \in keys PROVE key_lock'[g] = Reset
      BY DEF Free
    <3>1. g \in Generations /\ key_lock[g] = Reset
      BY NoneHasNoKey DEF Free, LayoutInv
    <3>2. QED
      BY <3>1, LayoutAssumption
  <2>2. QED
    BY <2>1, ResetKept DEF reset, LayoutInv
<1>7. QED
  BY <1>3, <1>4, <1>5, <1>6 DEF LayoutInv

LEMMA GatewaysKeep ==
    ASSUME LayoutInv, NEW p \in Gateways,
           \/ ReadKey(p) \/ OpenKey(p) \/ LockKey(p) \/ OpenLease(p) \/ LockLease(p)
           \/ Initialize(p) \/ Abort(p) \/ Close(p) \/ CloseLease(p) \/ Unlink(p) \/ Crash(p)
    PROVE  LayoutInv'
<1>1. /\ TypeInv
      /\ key_lock \in [Generations -> Gateways \cup {Reset, None}]
  BY DEF LayoutInv, TypeInv
<1>2. CASE Abort(p)
  <2>1. /\ key_lock' \in [Generations -> Gateways \cup {Reset, None}]
        /\ \A g \in Generations : key_lock[g] # p => key_lock'[g] = key_lock[g]
    BY <1>1, <1>2, Unlocking DEF Abort
  <2>2. UNCHANGED <<at, keys, database, made, reset>>
    BY <1>2 DEF Abort, disk
  <2>3. \/ pc' = [pc EXCEPT ![p] = "unkeyed"] /\ UNCHANGED <<key, key_file, crossed>>
        \/ pc' = [pc EXCEPT ![p] = "idle"] /\ Forget(p)
    BY <1>2 DEF Abort
  <2>4. QED
    BY <2>1, <2>2, <2>3, GivingBack
<1>3. CASE Close(p)
  <2>1. /\ key_lock' \in [Generations -> Gateways \cup {Reset, None}]
        /\ \A g \in Generations : key_lock[g] # p => key_lock'[g] = key_lock[g]
    BY <1>1, <1>3, Unlocking DEF Close
  <2>2. QED
    BY <1>3, <2>1, GivingBack DEF Close, Goes, disk
<1>4. CASE CloseLease(p)
  BY <1>1, <1>4, GivingBack DEF CloseLease, Goes, disk
<1>5. CASE Unlink(p)
  BY <1>1, <1>5, GivingBack DEF Unlink, Goes, locks
<1>6. CASE Crash(p)
  <2>1. /\ key_lock' \in [Generations -> Gateways \cup {Reset, None}]
        /\ \A g \in Generations : key_lock[g] # p => key_lock'[g] = key_lock[g]
    BY <1>1, <1>6, Unlocking DEF Crash
  <2>2. QED
    BY <1>6, <2>1, GivingBack DEF Crash, disk
<1>7. QED
  BY <1>2, <1>3, <1>4, <1>5, <1>6, ReadKeyKeeps, OpenKeyKeeps, LockKeyKeeps, OpenLeaseKeeps,
     LockLeaseKeeps, InitializeKeeps

-----------------------------------------------------------------------------
(* The steps of a reset.                                                   *)

LEMMA CrossIsTyped ==
    ASSUME TypeInv, Cross \/ UNCHANGED crossed
    PROVE  crossed' \in [Gateways -> BOOLEAN]
BY Zenon DEF Cross, TypeInv

\* A reset takes a lock that nobody has, or gives back its own.
LEMMA LeasesAreKept ==
    ASSUME LayoutInv, UNCHANGED <<pc, key_file>>,
           \A p \in Gateways, g \in Generations : key_lock[g] = p => key_lock'[g] = p
    PROVE  LeaseInv'
BY DEF LayoutInv, LeaseInv, Leased

\* One move of the replacement: the state directory stays, or it is one that a reset may touch.
LEMMA Replacing ==
    ASSUME LayoutInv, phase = "move",
           UNCHANGED <<keys, database, made, key_lock, pc, key, key_file, phase, staged>>,
           at' \in [TargetNames -> Slots], backup' \in [TargetNames -> Slots],
           moved' \in 0..3, installed' \in 0..3, failing' \in BOOLEAN,
           installed' > 0 => moved' = 3,
           failing' => installed' < 3,
           installed' = 3 \/ Free(at'["state"]),
           Free(backup'["state"]),
           \/ at'["state"] = at["state"] /\ (Cross \/ UNCHANGED crossed)
           \/ Free(at["state"]) /\ Cross
    PROVE  LayoutInv'
<1>1. TypeInv'
  <2>1. crossed' \in [Gateways -> BOOLEAN]
    BY CrossIsTyped DEF LayoutInv
  <2>2. QED
    BY <2>1 DEF LayoutInv, TypeInv
<1>2. LeaseInv'
  BY LeasesAreKept
<1>3. CurrentInv'
  <2>1. CASE at'["state"] = at["state"]
    BY <2>1, ReplacingKeepsCurrent, OthersKeepCurrent DEF LayoutInv
  <2>2. CASE Free(at["state"]) /\ Cross
    BY <2>2, ReplacingKeepsCurrent
  <2>3. QED
    BY <2>1, <2>2
<1>4. ResetInv'
  <2>1. Free(at["state"])' <=> Free(at'["state"])
    BY DEF Free
  <2>2. Free(backup["state"])' <=> Free(backup'["state"])
    BY DEF Free
  <2>3. QED
    BY <2>1, <2>2 DEF ResetInv
<1>5. QED
  BY <1>1, <1>2, <1>3, <1>4 DEF LayoutInv

LEMMA TheTargets ==
    /\ \A i \in 1..3 : Targets[i] \in TargetNames /\ (Targets[i] = "state" <=> i = 3)
    /\ "state" \in TargetNames
<1>1. Targets[1] = "config" /\ Targets[2] = "dict" /\ Targets[3] = "state"
  BY DEF Targets
<1>2. \A i \in 1..3 : i = 1 \/ i = 2 \/ i = 3
  OBVIOUS
<1>3. QED
  BY <1>1, <1>2 DEF TargetNames

LEMMA NothingIsFree == TypeInv => Free(None) /\ None \in Slots
BY NoneHasNoKey DEF Free, Slots

LEMMA MoveOldKeeps ==
    ASSUME LayoutInv, MoveOld
    PROVE  LayoutInv'
<1>1. /\ phase = "move" /\ moved \in 0..2 /\ installed = 0
      /\ at \in [TargetNames -> Slots] /\ backup \in [TargetNames -> Slots]
      /\ Free(at["state"]) /\ Free(backup["state"])
  BY DEF MoveOld, LayoutInv, TypeInv, ResetInv
<1>2. UNCHANGED <<keys, database, made, key_lock, pc, key, key_file, phase, staged, installed>>
  BY DEF MoveOld, locks
<1>3. moved' = moved + 1 /\ moved + 1 \in 1..3
  BY <1>1 DEF MoveOld
<1> DEFINE t == Targets[moved + 1]
<1>4. t \in TargetNames /\ (t = "state" <=> moved + 1 = 3) /\ "state" \in TargetNames
  BY <1>3, TheTargets
<1> HIDE DEF t
<1>5. CASE /\ backup' = [backup EXCEPT ![t] = at[t]]
           /\ at' = [at EXCEPT ![t] = None]
           /\ IF t = "state" THEN Cross ELSE UNCHANGED crossed
           /\ UNCHANGED failing
  <2>1. at' \in [TargetNames -> Slots] /\ backup' \in [TargetNames -> Slots]
    BY <1>1, <1>4, <1>5 DEF Slots
  <2>2. Free(None) /\ Free(at["state"])
    BY <1>1, NothingIsFree DEF LayoutInv
  <2>3. at'["state"] \in {at["state"], None} /\ backup'["state"] \in {backup["state"], at["state"]}
    BY <1>1, <1>4, <1>5
  <2>4. Free(at'["state"]) /\ Free(backup'["state"])
    BY <1>1, <2>2, <2>3
  <2>5. \/ at'["state"] = at["state"] /\ (Cross \/ UNCHANGED crossed)
        \/ Free(at["state"]) /\ Cross
    BY <1>1, <1>4, <1>5
  <2>6. failing' \in BOOLEAN
    BY <1>5 DEF LayoutInv, TypeInv
  <2>7. QED
    BY <1>1, <1>2, <1>3, <2>1, <2>4, <2>5, <2>6, Replacing
<1>6. CASE failing' = TRUE /\ UNCHANGED <<at, backup, crossed>>
  BY <1>1, <1>2, <1>3, <1>6, Replacing
<1>7. QED
  BY <1>5, <1>6 DEF MoveOld, t

LEMMA InstallNewKeeps ==
    ASSUME LayoutInv, InstallNew
    PROVE  LayoutInv'
<1>1. /\ phase = "move" /\ moved = 3 /\ installed \in 0..2
      /\ at \in [TargetNames -> Slots] /\ backup \in [TargetNames -> Slots]
      /\ Free(at["state"]) /\ Free(backup["state"]) /\ failing = FALSE
  BY DEF InstallNew, LayoutInv, TypeInv, ResetInv
<1>2. /\ UNCHANGED <<keys, database, made, key_lock, pc, key, key_file, phase, staged>>
      /\ UNCHANGED <<backup, moved>>
  BY DEF InstallNew, locks
<1> DEFINE t == Targets[installed + 1]
<1>3. t \in TargetNames /\ (t = "state" <=> installed + 1 = 3) /\ "state" \in TargetNames
  BY <1>1, TheTargets
<1> HIDE DEF t
<1>4. staged \in Slots
  BY LayoutAssumption DEF LayoutInv, TypeInv, Slots, Generations
<1>5. CASE /\ at' = [at EXCEPT ![t] = staged]
           /\ installed' = installed + 1
           /\ IF t = "state" THEN Cross ELSE UNCHANGED crossed
           /\ UNCHANGED failing
  <2>1. at' \in [TargetNames -> Slots] /\ installed' \in 0..3 /\ failing' = FALSE
    BY <1>1, <1>3, <1>4, <1>5
  <2>2. \/ t = "state" /\ installed' = 3 /\ Cross
        \/ t # "state" /\ at'["state"] = at["state"] /\ UNCHANGED crossed
    BY <1>1, <1>3, <1>5
  <2>3. installed' = 3 \/ Free(at'["state"])
    BY <1>1, <2>2 DEF Free
  <2>4. Free(backup'["state"])
    BY <1>1, <1>2 DEF Free
  <2>5. moved' \in 0..3 /\ moved' = 3 /\ backup' \in [TargetNames -> Slots]
    BY <1>1, <1>2
  <2>6. \/ at'["state"] = at["state"] /\ (Cross \/ UNCHANGED crossed)
        \/ Free(at["state"]) /\ Cross
    BY <1>1, <2>2
  <2>7. failing' \in BOOLEAN
    BY <2>1, Zenon
  <2>8. QED
    BY <1>1, <1>2, <2>1, <2>3, <2>4, <2>5, <2>6, <2>7, Replacing
<1>6. CASE failing' = TRUE /\ UNCHANGED <<at, installed, crossed>>
  BY <1>1, <1>2, <1>6, Replacing
<1>7. QED
  BY <1>5, <1>6 DEF InstallNew, t

LEMMA RemoveInstalledKeeps ==
    ASSUME LayoutInv, RemoveInstalled
    PROVE  LayoutInv'
<1>1. /\ phase = "move" /\ moved = 3 /\ installed \in 1..2 /\ failing
      /\ at \in [TargetNames -> Slots] /\ backup \in [TargetNames -> Slots]
      /\ Free(at["state"]) /\ Free(backup["state"]) /\ failing \in BOOLEAN
  BY DEF RemoveInstalled, LayoutInv, TypeInv, ResetInv
<1>2. /\ UNCHANGED <<keys, database, made, key_lock, pc, key, key_file, phase, staged>>
      /\ UNCHANGED <<backup, moved, failing>>
      /\ installed' = installed - 1 /\ Cross
  BY DEF RemoveInstalled, locks
<1>3. Targets[installed] \in TargetNames /\ Targets[installed] # "state"
  BY <1>1, TheTargets
<1>4. at' = at \/ at' = [at EXCEPT ![Targets[installed]] = None]
  BY DEF RemoveInstalled
<1>5. at' \in [TargetNames -> Slots] /\ at'["state"] = at["state"]
  BY <1>1, <1>3, <1>4, TheTargets DEF Slots
<1>6. installed' \in 0..2
  BY <1>1, <1>2
<1>7. QED
  BY <1>1, <1>2, <1>5, <1>6, Replacing

LEMMA RestoreOldKeeps ==
    ASSUME LayoutInv, RestoreOld
    PROVE  LayoutInv'
<1>1. /\ phase = "move" /\ moved \in 1..3 /\ installed = 0
      /\ at \in [TargetNames -> Slots] /\ backup \in [TargetNames -> Slots]
      /\ Free(at["state"]) /\ Free(backup["state"]) /\ failing \in BOOLEAN
  BY DEF RestoreOld, LayoutInv, TypeInv, ResetInv
<1>2. /\ UNCHANGED <<keys, database, made, key_lock, pc, key, key_file, phase, staged>>
      /\ UNCHANGED <<installed, failing>>
      /\ moved' = moved - 1 /\ Cross
  BY DEF RestoreOld, locks
<1> DEFINE t == Targets[moved]
<1>3. t \in TargetNames /\ "state" \in TargetNames
  BY <1>1, TheTargets
<1>4. \/ at' = [at EXCEPT ![t] = backup[t]] /\ backup' = [backup EXCEPT ![t] = None]
      \/ UNCHANGED <<at, backup>>
  BY DEF RestoreOld
<1> HIDE DEF t
<1>5. at' \in [TargetNames -> Slots] /\ backup' \in [TargetNames -> Slots]
  BY <1>1, <1>3, <1>4 DEF Slots
<1>6. at'["state"] \in {at["state"], backup["state"]} /\ backup'["state"] \in {backup["state"], None}
  BY <1>1, <1>3, <1>4
<1>7. Free(at'["state"]) /\ Free(backup'["state"])
  BY <1>1, <1>6, NothingIsFree DEF LayoutInv
<1>8. moved' \in 0..3
  BY <1>1, <1>2
<1>9. QED
  BY <1>1, <1>2, <1>5, <1>7, <1>8, Replacing

\* The other steps of a reset do not touch a layout that somebody could use.
LEMMA Preparing ==
    ASSUME LayoutInv, UNCHANGED <<pc, key, key_file>>, TypeInv', ResetInv',
           \A p \in Gateways, g \in Generations : key_lock[g] = p => key_lock'[g] = p,
           at'["state"] = at["state"], Cross \/ UNCHANGED crossed,
           at["state"] \in keys =>
              at["state"] \in keys' /\ database'[at["state"]] = database[at["state"]]
    PROVE  LayoutInv'
<1>1. LeaseInv'
  BY LeasesAreKept
<1>2. CurrentInv'
  BY OthersKeepCurrent DEF LayoutInv
<1>3. QED
  BY <1>1, <1>2 DEF LayoutInv

LEMMA BeginKeeps ==
    ASSUME LayoutInv, BeginFresh \/ BeginForce
    PROVE  LayoutInv'
<1>1. /\ UNCHANGED <<at, database, key_lock, pc, key, key_file, crossed>>
      /\ UNCHANGED <<backup, moved, installed, failing>>
      /\ phase = "idle" /\ made < MaxGenerations /\ made' = made + 1 /\ staged' = made'
      /\ phase' \in {"make", "staged"} /\ (keys' = keys \/ keys' = keys \cup {made'})
  BY DEF BeginFresh, BeginForce, Begin, locks, gateway
<1>2. TypeInv'
  <2>1. made' \in 0..MaxGenerations /\ staged' \in 1..made' /\ made <= made'
    BY <1>1, LayoutAssumption DEF LayoutInv, TypeInv
  <2>2. keys' \subseteq 1..made'
    <3>1. 1..made \subseteq 1..made' /\ made' \in 1..made'
      BY <1>1, <2>1 DEF LayoutInv, TypeInv
    <3>2. keys \subseteq 1..made
      BY DEF LayoutInv, TypeInv
    <3>3. QED
      BY <1>1, <3>1, <3>2
  <2>3. staged' # None
    BY <2>1, LayoutAssumption
  <2>4. crossed' \in [Gateways -> BOOLEAN]
    BY <1>1, Zenon DEF LayoutInv, TypeInv
  <2>5. QED
    BY <1>1, <2>1, <2>2, <2>3, <2>4 DEF LayoutInv, TypeInv
<1>3. ResetInv'
  BY <1>1 DEF LayoutInv, ResetInv
<1>4. QED
  BY <1>1, <1>2, <1>3, Preparing

LEMMA MakeFileKeeps ==
    ASSUME LayoutInv, MakeFile
    PROVE  LayoutInv'
<1>1. /\ phase = "make" /\ installed \in 0..3 /\ installed' = installed + 1 /\ Cross
      /\ UNCHANGED <<database, made, key_lock, pc, key, key_file, phase, staged, backup, moved, failing>>
  BY DEF MakeFile, locks, LayoutInv, TypeInv
<1>2. staged \in 1..made /\ staged \in Slots /\ "state" \in TargetNames
  BY <1>1, LayoutAssumption DEF LayoutInv, TypeInv, Slots, Generations, TargetNames
<1>3. \/ at["state"] = None /\ at' = [at EXCEPT !["state"] = staged] /\ keys' = keys
      \/ /\ at' \in {[at EXCEPT !["config"] = staged], [at EXCEPT !["dict"] = staged], at}
         /\ keys' \in {keys, keys \cup {staged}}
  BY <1>1 DEF MakeFile
<1>4. TypeInv'
  <2>1. at' \in [TargetNames -> Slots]
    BY <1>2, <1>3 DEF LayoutInv, TypeInv, TargetNames
  <2>2. keys' \subseteq 1..made'
    BY <1>1, <1>2, <1>3 DEF LayoutInv, TypeInv
  <2>3. crossed' \in [Gateways -> BOOLEAN]
    BY <1>1, CrossIsTyped DEF LayoutInv
  <2>4. installed' \in 0..4
    BY <1>1
  <2>5. QED
    BY <1>1, <2>1, <2>2, <2>3, <2>4 DEF LayoutInv, TypeInv
<1>5. ResetInv'
  BY <1>1 DEF ResetInv
<1>6. CASE at["state"] = None /\ keys' = keys
  <2>1. Free(at["state"])
    BY <1>6, NothingIsFree DEF LayoutInv
  <2>2. CurrentInv'
    BY <1>1, <2>1, ReplacingKeepsCurrent
  <2>3. LeaseInv'
    BY <1>1, LeasesAreKept
  <2>4. QED
    BY <1>4, <1>5, <2>2, <2>3 DEF LayoutInv
<1>7. CASE /\ at' \in {[at EXCEPT !["config"] = staged], [at EXCEPT !["dict"] = staged], at}
           /\ keys' \in {keys, keys \cup {staged}}
  <2>1. at'["state"] = at["state"]
    BY <1>2, <1>7 DEF LayoutInv, TypeInv, TargetNames
  <2>2. at["state"] \in keys => at["state"] \in keys'
    BY <1>7
  <2>3. QED
    BY <1>1, <1>4, <1>5, <2>1, <2>2, Preparing
<1>8. QED
  BY <1>3, <1>6, <1>7

LEMMA LeaseKeyKeeps ==
    ASSUME LayoutInv, LeaseKey
    PROVE  LayoutInv'
<1>1. /\ phase = "staged" /\ phase' \in {"move", "cleanup"}
      /\ UNCHANGED <<at, keys, database, made, pc, key, key_file, crossed, staged, backup, moved,
                     installed, failing>>
  BY DEF LeaseKey, disk, gateway
<1>2. \/ at["state"] \notin keys /\ UNCHANGED key_lock
      \/ /\ at["state"] \in keys /\ key_lock[at["state"]] = None
         /\ key_lock' = [key_lock EXCEPT ![at["state"]] = Reset]
      \/ phase' = "cleanup" /\ UNCHANGED key_lock
  BY DEF LeaseKey, HasKey
<1>3. TypeInv'
  <2>1. key_lock' \in [Generations -> Gateways \cup {Reset, None}]
    BY <1>2 DEF LayoutInv, TypeInv
  <2>2. crossed' \in [Gateways -> BOOLEAN]
    BY <1>1, Zenon DEF LayoutInv, TypeInv
  <2>3. QED
    BY <1>1, <2>1, <2>2 DEF LayoutInv, TypeInv
<1>4. \A p \in Gateways, g \in Generations : key_lock[g] = p => key_lock'[g] = p
  BY <1>2, LayoutAssumption DEF LayoutInv, TypeInv
<1>5. ResetInv'
  <2>1. backup = Nothing /\ moved = 0 /\ installed = 0 /\ failing = FALSE
    BY <1>1 DEF LayoutInv, ResetInv
  <2>2. backup'["state"] = None /\ backup'["state"] \notin keys'
    BY <1>1, <2>1, NoneHasNoKey DEF Nothing, TargetNames, LayoutInv
  <2>3. phase' = "move" => at'["state"] \notin keys' \/ key_lock'[at'["state"]] = Reset
    BY <1>1, <1>2, NoneHasNoKey DEF LayoutInv, TypeInv
  <2>4. QED
    BY <1>1, <2>1, <2>2, <2>3 DEF ResetInv, Free
<1>6. QED
  BY <1>1, <1>3, <1>4, <1>5, Preparing

LEMMA EndingKeeps ==
    ASSUME LayoutInv, EndFresh \/ EndReplace \/ Cleanup \/ CrashReset
    PROVE  LayoutInv'
<1>1. /\ UNCHANGED <<at, made, pc, key, key_file, crossed>>
      /\ \/ Ended
         \/ phase' = "cleanup" /\ UNCHANGED <<staged, backup, moved, installed, failing>>
  BY DEF EndFresh, EndReplace, Cleanup, CrashReset, disk, gateway
<1>2. \/ UNCHANGED <<keys, database>>
      \/ /\ keys' = keys \cap (kept \cup {at["state"]})
         /\ database' = [g \in Generations |->
                            IF g \in kept \cup {at["state"]} THEN database[g] ELSE None]
  BY DEF EndFresh, EndReplace, Cleanup, CrashReset, disk
<1>3. /\ key_lock' \in [Generations -> Gateways \cup {Reset, None}]
      /\ \A g \in Generations : key_lock[g] # Reset => key_lock'[g] = key_lock[g]
  <2>1. key_lock' = Unlock(key_lock, Reset) \/ UNCHANGED key_lock
    BY DEF EndFresh, EndReplace, Cleanup, CrashReset, locks
  <2>2. QED
    BY <2>1, Unlocking DEF LayoutInv, TypeInv
<1>4. TypeInv'
  <2>1. /\ staged' \in 1..made' \cup {None} /\ (phase' # "idle" => staged' # None)
        /\ backup' \in [TargetNames -> Slots] /\ moved' \in 0..3 /\ installed' \in 0..4
        /\ failing' \in BOOLEAN /\ phase' \in {"idle", "cleanup"}
    <3>1. CASE Ended
      <4>1. failing' \in BOOLEAN
        BY <3>1, Zenon DEF Ended
      <4>2. backup' \in [TargetNames -> Slots]
        BY <3>1 DEF Ended, Nothing, Slots
      <4>3. QED
        BY <3>1, <4>1, <4>2 DEF Ended
    <3>2. CASE phase' = "cleanup" /\ UNCHANGED <<staged, backup, moved, installed, failing>>
      <4>1. phase # "idle"
        BY <3>2 DEF EndFresh, EndReplace, Cleanup, CrashReset, Ended
      <4>2. QED
        BY <1>1, <3>2, <4>1 DEF LayoutInv, TypeInv
    <3>3. QED
      BY <1>1, <3>1, <3>2
  <2>2. keys' \subseteq 1..made' /\ database' \in [Generations -> Slots]
    BY <1>1, <1>2 DEF LayoutInv, TypeInv, Slots
  <2>3. crossed' \in [Gateways -> BOOLEAN]
    BY <1>1, Zenon DEF LayoutInv, TypeInv
  <2>4. QED
    BY <1>1, <1>3, <2>1, <2>2, <2>3 DEF LayoutInv, TypeInv
<1>5. ResetInv'
  BY <1>1 DEF Ended, ResetInv
<1>6. at["state"] \in keys =>
         at["state"] \in keys' /\ database'[at["state"]] = database[at["state"]]
  BY <1>2, NoneHasNoKey DEF LayoutInv
<1>7. \A p \in Gateways, g \in Generations : key_lock[g] = p => key_lock'[g] = p
  BY <1>3, LayoutAssumption
<1>8. QED
  BY <1>1, <1>4, <1>5, <1>6, <1>7, Preparing

LEMMA StutteringKeeps ==
    ASSUME LayoutInv, UNCHANGED vars
    PROVE  LayoutInv'
<1>1. UNCHANGED <<at, keys, database, made, key_lock, pc, key, key_file, crossed, phase, staged,
                  backup, moved, installed, failing>>
  BY DEF vars, disk, locks, gateway, reset
<1>2. TypeInv' /\ LeaseInv'
  BY <1>1 DEF LayoutInv, TypeInv, LeaseInv
<1>3. CurrentInv' /\ ResetInv'
  BY <1>1 DEF LayoutInv, CurrentInv, Active, ResetInv, Free
<1>4. QED
  BY <1>2, <1>3 DEF LayoutInv

-----------------------------------------------------------------------------
\* The leases are with whom they should be, in every state of every installation.
THEOREM SpecLayoutInv == Spec => []LayoutInv
<1>1. LayoutInv /\ [Next]_vars => LayoutInv'
  <2> SUFFICES ASSUME LayoutInv, [Next]_vars PROVE LayoutInv'
    OBVIOUS
  <2>1. CASE UNCHANGED vars
    BY <2>1, StutteringKeeps
  <2>2. CASE Next
    BY <2>2, GatewaysKeep, BeginKeeps, MakeFileKeeps, LeaseKeyKeeps, MoveOldKeeps,
       InstallNewKeeps, RemoveInstalledKeeps, RestoreOldKeeps, EndingKeeps DEF Next
  <2>3. QED
    BY <2>1, <2>2
<1>2. QED
  BY <1>1, InitialInv, PTL DEF Spec

\* However many processes start, stop, crash and replace the layout: two that run never have
\* one database, and each that runs has the key of its database, the one on the disk.
THEOREM OneWriterHolds == Spec => []OneWriter
<1>1. LayoutInv => OneWriter
  <2> SUFFICES ASSUME LayoutInv, NEW p \in Gateways, Running(p), ~ crossed[p]
               PROVE  /\ \A q \in Gateways \ {p} : ~ Running(q) \/ crossed[q]
                      /\ key[p] = at["state"] /\ database[key[p]] = key[p]
    BY DEF OneWriter
  <2>1. ASSUME NEW q \in Gateways, Running(q), ~ crossed[q]
        PROVE  /\ key_file[q] = at["state"] /\ key_lock[at["state"]] = q
               /\ key[q] = at["state"] /\ database[at["state"]] = key[q]
    BY <2>1 DEF Running, Active, Leased, LayoutInv, CurrentInv, LeaseInv
  <2>2. QED
    BY <2>1
<1>2. QED
  BY <1>1, SpecLayoutInv, PTL

-----------------------------------------------------------------------------
(* What a reset tells is true.                                             *)

\* Nothing, or a directory of a gateway
Vacant(t, g) == g = None \/ (t = "state" /\ g \notin keys)

\* A replacement on its way: the targets not moved yet are the old ones; the old ones of the
\* others are in the backup; what was installed is the new layout.
MovingInv ==
    phase = "move" /\ ~ failing =>
        \A i \in 1..3 : LET t == Targets[i] IN
            /\ i > moved => Old(t, at[t]) /\ t \notin moved_old /\ backup[t] = None
            /\ i <= moved => Old(t, backup[t]) /\ (t \in moved_old <=> backup[t] # None)
            /\ i <= installed => at[t] = staged
            /\ i <= moved /\ i > installed => Vacant(t, at[t])

\* A rollback without a fault so far: the targets moved back are the old ones, and what it
\* will not move back never was there.
RollbackInv ==
    phase = "move" /\ failing /\ ~ rollback_failed =>
        \A i \in 1..3 : LET t == Targets[i] IN
            /\ i > moved => Old(t, at[t])
            /\ i <= moved => backup[t] = None \/ Old(t, backup[t])
            /\ i <= moved /\ t \notin moved_old =>
                  before[t] = None /\ (i > installed => Vacant(t, at[t]))

OutcomeInv ==
    /\ phase \in {"staged", "move"} => staged \in keys
    /\ phase \in {"idle", "staged"} => moved_old = {}
    /\ phase = "staged" => \A t \in TargetNames : Old(t, at[t])
    /\ phase = "cleanup" =>
          /\ report = "done" => at = All(staged) /\ staged \in keys
          /\ report \in {"failed", "refused"} => \A t \in TargetNames : Old(t, at[t])

\* The old state directory is not lost.
KeptInv ==
    /\ phase = "make" => fresh
    /\ phase = "move" => backup["state"] = None \/ Old("state", backup["state"])
    /\ ~ fresh /\ before["state"] # None =>
          before["state"] \in {at["state"], backup["state"]} \cup kept

HonestInv == MovingInv /\ RollbackInv /\ OutcomeInv /\ KeptInv

LEMMA InitialHonesty == Init => HonestInv
BY DEF Init, HonestInv, MovingInv, RollbackInv, OutcomeInv, KeptInv

\* All that a gateway does to the paths is to make a state directory where there is none.
LEMMA GatewaysOnDisk ==
    ASSUME LayoutInv, NEW p \in Gateways,
           \/ ReadKey(p) \/ OpenKey(p) \/ LockKey(p) \/ OpenLease(p) \/ LockLease(p)
           \/ Initialize(p) \/ Abort(p) \/ Close(p) \/ CloseLease(p) \/ Unlink(p) \/ Crash(p)
    PROVE  /\ UNCHANGED <<keys, kept, reset>>
           /\ \/ at' = at
              \/ at["state"] = None /\ \E g \in Nat \ keys : at' = [at EXCEPT !["state"] = g]
<1>1. UNCHANGED <<keys, kept, reset>>
  BY DEF ReadKey, OpenKey, LockKey, OpenLease, LockLease, Initialize, Abort, Close, CloseLease,
         Unlink, Crash, disk
<1>2. ASSUME MakeDirectory
      PROVE  \/ at' = at
             \/ at["state"] = None /\ \E g \in Nat \ keys : at' = [at EXCEPT !["state"] = g]
  <2>1. made + 1 \in Nat \ keys
    BY DEF LayoutInv, TypeInv
  <2>2. QED
    BY <1>2, <2>1 DEF MakeDirectory
<1>3. CASE OpenLease(p) \/ Initialize(p)
  BY <1>1, <1>2, <1>3 DEF OpenLease, Initialize
<1>4. CASE ~ (OpenLease(p) \/ Initialize(p))
  BY <1>1, <1>4 DEF ReadKey, OpenKey, LockKey, LockLease, Abort, Close, CloseLease, Unlink,
                    Crash, disk
<1>5. QED
  BY <1>3, <1>4

LEMMA GatewaysAreHonest ==
    ASSUME LayoutInv, HonestInv, UNCHANGED <<keys, kept, reset>>,
           \/ at' = at
           \/ at["state"] = None /\ \E g \in Nat \ keys : at' = [at EXCEPT !["state"] = g]
    PROVE  HonestInv'
<1>1. UNCHANGED <<keys, kept, phase, before, fresh, staged, backup, moved, moved_old, installed,
                  failing, rollback_failed, report>>
  BY DEF reset
<1>2. /\ at \in [TargetNames -> Slots] /\ "state" \in TargetNames
      /\ phase # "idle" => staged # None
  BY TheTargets DEF LayoutInv, TypeInv
<1>3. /\ at' \in [TargetNames -> Nat \cup Slots]
      /\ \A t \in TargetNames : t # "state" => at'[t] = at[t]
      /\ at'["state"] = at["state"] \/ (at["state"] = None /\ at'["state"] \notin keys)
  BY <1>2
<1>4. \A t \in TargetNames : /\ Old(t, at[t]) => Old(t, at[t])'
                            /\ Vacant(t, at[t]) => Vacant(t, at[t])'
  BY <1>1, <1>3 DEF Old, Vacant
<1>5. \A t \in TargetNames : Old(t, backup[t]) <=> Old(t, backup[t])'
  BY <1>1 DEF Old
<1>6. \A t \in TargetNames : phase # "idle" /\ at[t] = staged => at'[t] = staged
  BY <1>2, <1>3
<1>7. MovingInv'
  <2> SUFFICES ASSUME phase = "move", ~ failing, NEW i \in 1..3
               PROVE  LET t == Targets[i] IN
                      /\ i > moved => Old(t, at[t])' /\ t \notin moved_old /\ backup[t] = None
                      /\ i <= moved => Old(t, backup[t])' /\ (t \in moved_old <=> backup[t] # None)
                      /\ i <= installed => at'[t] = staged
                      /\ i <= moved /\ i > installed => Vacant(t, at[t])'
    BY <1>1 DEF MovingInv
  <2> QED
    BY <1>1, <1>3, <1>6, TheTargets DEF HonestInv, MovingInv, Old, Vacant
<1>8. RollbackInv'
  <2> SUFFICES ASSUME phase = "move", failing, ~ rollback_failed, NEW i \in 1..3
               PROVE  LET t == Targets[i] IN
                      /\ i > moved => Old(t, at[t])'
                      /\ i <= moved => backup[t] = None \/ Old(t, backup[t])'
                      /\ i <= moved /\ t \notin moved_old =>
                            before[t] = None /\ (i > installed => Vacant(t, at[t])')
    BY <1>1 DEF RollbackInv
  <2> QED
    BY <1>1, <1>3, TheTargets DEF HonestInv, RollbackInv, Old, Vacant
<1>9. OutcomeInv'
  <2>1. phase # "idle" /\ at = All(staged) => at' = All(staged)
    BY <1>2, <1>3 DEF All
  <2>2. QED
    BY <1>1, <1>3, <2>1 DEF HonestInv, OutcomeInv, All, Old
<1>10. KeptInv'
  BY <1>1, <1>2, <1>3, <1>5 DEF HonestInv, KeptInv
<1>11. QED
  BY <1>7, <1>8, <1>9, <1>10 DEF HonestInv

LEMMA BeginningIsHonest ==
    ASSUME LayoutInv, HonestInv, BeginFresh \/ BeginForce
    PROVE  HonestInv'
<1>1. /\ before' = at /\ UNCHANGED <<at, moved_old>> /\ phase = "idle"
      /\ \/ phase' = "make" /\ fresh'
         \/ phase' = "staged" /\ staged' \in keys'
  BY DEF BeginFresh, BeginForce, Begin
<1>2. MovingInv' /\ RollbackInv'
  BY <1>1 DEF MovingInv, RollbackInv
<1>3. OutcomeInv'
  BY <1>1 DEF HonestInv, OutcomeInv, Old
<1>4. KeptInv'
  BY <1>1 DEF KeptInv
<1>5. QED
  BY <1>2, <1>3, <1>4 DEF HonestInv

LEMMA MakeFileIsHonest ==
    ASSUME LayoutInv, HonestInv, MakeFile
    PROVE  HonestInv'
<1>1. phase = "make" /\ UNCHANGED <<phase, fresh>>
  BY DEF MakeFile
<1>2. QED
  BY <1>1 DEF HonestInv, MovingInv, RollbackInv, OutcomeInv, KeptInv

LEMMA LeaseKeyIsHonest ==
    ASSUME LayoutInv, HonestInv, LeaseKey
    PROVE  HonestInv'
<1>1. /\ phase = "staged" /\ UNCHANGED <<at, keys, kept, before, fresh, staged, backup, moved,
                                         moved_old, installed, failing>>
      /\ phase' = "move" \/ (phase' = "cleanup" /\ report' = "refused")
  BY DEF LeaseKey, disk
<1>2. /\ backup = Nothing /\ moved = 0 /\ installed = 0 /\ failing = FALSE
      /\ moved_old = {} /\ \A t \in TargetNames : Old(t, at[t])
  BY <1>1 DEF LayoutInv, ResetInv, HonestInv, OutcomeInv
<1>3. \A t \in TargetNames : Old(t, at[t])'
  BY <1>1, <1>2 DEF Old
<1>4. MovingInv' /\ RollbackInv'
  BY <1>1, <1>2, TheTargets DEF MovingInv, RollbackInv, Nothing, Old
<1>5. OutcomeInv'
  BY <1>1, <1>2, <1>3 DEF HonestInv, OutcomeInv
<1>6. KeptInv'
  BY <1>1, <1>2, TheTargets DEF HonestInv, KeptInv, Nothing
<1>7. QED
  BY <1>4, <1>5, <1>6 DEF HonestInv

LEMMA EndingIsHonest ==
    ASSUME LayoutInv, HonestInv, EndFresh \/ EndReplace \/ Cleanup \/ CrashReset
    PROVE  HonestInv'
<1>1. CASE EndReplace
  <2>1. /\ phase = "move" /\ phase' = "cleanup"
        /\ UNCHANGED <<at, keys, kept, before, fresh, staged, backup, moved_old>>
        /\ IF failing THEN moved = 0 /\ installed = 0 ELSE installed = 3
    BY <1>1 DEF EndReplace, disk
  <2>2. MovingInv' /\ RollbackInv' /\ KeptInv'
    BY <2>1 DEF HonestInv, MovingInv, RollbackInv, KeptInv
  <2>3. \A t \in TargetNames : \E i \in 1..3 : t = Targets[i]
    BY DEF TargetNames, Targets
  <2>4. CASE failing
    <3>1. report' \in {"not restored", "failed"} /\ (report' = "failed" => ~ rollback_failed)
      BY <1>1, <2>4 DEF EndReplace
    <3>2. ~ rollback_failed => \A t \in TargetNames : Old(t, at[t])
      BY <2>1, <2>3, <2>4 DEF HonestInv, RollbackInv
    <3>3. QED
      BY <2>1, <3>1, <3>2, <2>2 DEF HonestInv, OutcomeInv, Old
  <2>5. CASE ~ failing
    <3>1. report' = "done" /\ installed = 3
      BY <1>1, <2>5 DEF EndReplace
    <3>2. \A t \in TargetNames : at[t] = staged
      BY <2>1, <2>3, <2>5, <3>1 DEF HonestInv, MovingInv
    <3>3. at' = All(staged)
      BY <2>1, <3>2 DEF All, LayoutInv, TypeInv
    <3>4. QED
      BY <2>1, <2>2, <3>1, <3>3 DEF HonestInv, OutcomeInv, All
  <2>6. QED
    BY <2>4, <2>5
<1>2. CASE EndFresh \/ Cleanup \/ CrashReset
  <2>1. phase' = "idle" /\ moved_old' = {} /\ backup' = Nothing /\ at' = at
    BY <1>2 DEF EndFresh, Cleanup, CrashReset, Ended, disk
  <2>2. MovingInv' /\ RollbackInv' /\ OutcomeInv'
    BY <2>1 DEF MovingInv, RollbackInv, OutcomeInv
  <2>3. KeptInv'
    <3>1. CASE EndFresh
      BY <2>1, <3>1 DEF EndFresh, disk, HonestInv, KeptInv
    <3>2. CASE Cleanup
      BY <2>1, <3>2 DEF Cleanup, KeptInv
    <3>3. CASE CrashReset
      BY <2>1, <3>3 DEF CrashReset, HonestInv, KeptInv
    <3>4. QED
      BY <1>2, <3>1, <3>2, <3>3
  <2>4. QED
    BY <2>2, <2>3 DEF HonestInv
<1>3. QED
  BY <1>1, <1>2

\* In the steps of the replacement the outcome is still open.
LEMMA NotYetTold ==
    ASSUME OutcomeInv, phase = "move", UNCHANGED <<phase, keys, staged>>
    PROVE  OutcomeInv'
BY DEF OutcomeInv

LEMMA MoveOldIsHonest ==
    ASSUME LayoutInv, HonestInv, MoveOld
    PROVE  HonestInv'
<1>1. /\ phase = "move" /\ moved \in 0..2 /\ installed = 0 /\ ~ failing
      /\ at \in [TargetNames -> Slots] /\ backup \in [TargetNames -> Slots]
  BY DEF MoveOld, LayoutInv, TypeInv, ResetInv
<1>2. UNCHANGED <<keys, kept, phase, before, fresh, staged, installed>>
  BY DEF MoveOld
<1> DEFINE n == moved + 1
           t == Targets[n]
<1>3. /\ n \in 1..3 /\ moved' = n /\ t \in TargetNames
      /\ moved_old' = IF at[t] = None THEN moved_old ELSE moved_old \cup {t}
  BY <1>1, TheTargets DEF MoveOld
<1>4. \A i, j \in 1..3 : Targets[i] = Targets[j] => i = j
  BY DEF Targets
<1>5. Old(t, at[t]) /\ t \notin moved_old /\ backup[t] = None
  BY <1>1, <1>3 DEF HonestInv, MovingInv
<1>6. OutcomeInv'
  BY <1>1, <1>2, NotYetTold DEF HonestInv
<1>7. CASE /\ backup' = [backup EXCEPT ![t] = at[t]] /\ at' = [at EXCEPT ![t] = None]
           /\ UNCHANGED failing
  <2>1. /\ backup'[t] = at[t] /\ at'[t] = None
        /\ \A u \in TargetNames \ {t} : backup'[u] = backup[u] /\ at'[u] = at[u]
    BY <1>1, <1>3, <1>7
  <2>2. MovingInv'
    <3> SUFFICES ASSUME NEW i \in 1..3
                 PROVE  LET u == Targets[i] IN
                        /\ i > n => Old(u, at[u])' /\ u \notin moved_old' /\ backup'[u] = None
                        /\ i <= n => Old(u, backup[u])' /\ (u \in moved_old' <=> backup'[u] # None)
                        /\ i <= installed => at'[u] = staged'
                        /\ i <= n /\ i > installed => Vacant(u, at[u])'
      BY <1>2, <1>3 DEF MovingInv
    <3>1. CASE i = n
      BY <1>1, <1>2, <1>3, <1>5, <2>1, <3>1 DEF Old, Vacant
    <3>2. CASE i # n
      <4> DEFINE u == Targets[i]
      <4>1. u \in TargetNames \ {t} /\ (i > n <=> i > moved) /\ (i <= n <=> i <= moved)
        BY <1>1, <1>3, <1>4, <3>2, TheTargets
      <4>2. u \in moved_old' <=> u \in moved_old
        BY <1>3, <4>1
      <4> HIDE DEF n, t
      <4>3. QED
        BY <1>1, <1>2, <1>7, <2>1, <4>1, <4>2 DEF HonestInv, MovingInv, Old, Vacant
    <3>3. QED
      BY <3>1, <3>2
  <2>3. RollbackInv'
    BY <1>1, <1>7 DEF RollbackInv
  <2>4. KeptInv'
    <3>1. t = "state" => backup'["state"] = at["state"] /\ Old("state", at["state"])
      BY <1>5, <2>1
    <3>2. t # "state" => backup'["state"] = backup["state"] /\ at'["state"] = at["state"]
      BY <2>1, TheTargets
    <3>3. t = "state" => backup["state"] = None
      BY <1>5
    <3> HIDE DEF t
    <3>4. QED
      BY <1>1, <1>2, <3>1, <3>2, <3>3 DEF HonestInv, KeptInv, Old
  <2>5. QED
    BY <1>6, <2>2, <2>3, <2>4 DEF HonestInv
<1>8. CASE failing' = TRUE /\ at[t] # None /\ UNCHANGED <<at, backup, crossed>>
  <2>1. RollbackInv'
    <3> SUFFICES ASSUME NEW i \in 1..3
                 PROVE  LET u == Targets[i] IN
                        /\ i > n => Old(u, at[u])'
                        /\ i <= n => backup'[u] = None \/ Old(u, backup[u])'
                        /\ i <= n /\ u \notin moved_old' =>
                              before'[u] = None /\ (i > installed' => Vacant(u, at[u])')
      BY <1>3 DEF RollbackInv
    <3>1. CASE i = n
      BY <1>3, <1>5, <1>8, <3>1
    <3>2. CASE i # n
      <4> DEFINE u == Targets[i]
      <4>1. u \in TargetNames \ {t} /\ (i > n <=> i > moved) /\ (i <= n <=> i <= moved)
        BY <1>1, <1>3, <1>4, <3>2, TheTargets
      <4>2. u \in moved_old' <=> u \in moved_old
        BY <1>3, <4>1
      <4>3. u \notin moved_old /\ i <= moved => before[u] = None
        BY <1>1 DEF HonestInv, MovingInv, Old
      <4> HIDE DEF n, t
      <4>4. QED
        BY <1>1, <1>2, <1>8, <4>1, <4>2, <4>3 DEF HonestInv, MovingInv, Old, Vacant
    <3>3. QED
      BY <3>1, <3>2
  <2>2. MovingInv'
    BY <1>8 DEF MovingInv
  <2>3. KeptInv'
    BY <1>1, <1>2, <1>8 DEF HonestInv, KeptInv, Old
  <2>4. QED
    BY <1>6, <2>1, <2>2, <2>3 DEF HonestInv
<1>9. QED
  BY <1>7, <1>8 DEF MoveOld

LEMMA InstallNewIsHonest ==
    ASSUME LayoutInv, HonestInv, InstallNew
    PROVE  HonestInv'
<1>1. /\ phase = "move" /\ moved = 3 /\ installed \in 0..2 /\ ~ failing
      /\ at \in [TargetNames -> Slots]
  BY DEF InstallNew, LayoutInv, TypeInv, ResetInv
<1>2. /\ UNCHANGED <<keys, kept, phase, before, fresh, staged>>
      /\ UNCHANGED <<backup, moved, moved_old, rollback_failed>>
  BY DEF InstallNew
<1> DEFINE n == installed + 1
           t == Targets[n]
<1>3. n \in 1..3 /\ t \in TargetNames
  BY <1>1, TheTargets
<1>4. \A i, j \in 1..3 : Targets[i] = Targets[j] => i = j
  BY DEF Targets
<1>5. OutcomeInv'
  BY <1>1, <1>2, NotYetTold DEF HonestInv
<1>6. Old("state", backup["state"])
  BY <1>1, TheTargets DEF HonestInv, MovingInv
<1>7. CASE at' = [at EXCEPT ![t] = staged] /\ installed' = n /\ UNCHANGED failing
  <2>1. at'[t] = staged /\ \A u \in TargetNames \ {t} : at'[u] = at[u]
    BY <1>1, <1>3, <1>7
  <2>2. MovingInv'
    <3> SUFFICES ASSUME NEW i \in 1..3
                 PROVE  LET u == Targets[i] IN
                        /\ Old(u, backup[u]) /\ (u \in moved_old <=> backup[u] # None)
                        /\ i <= n => at'[u] = staged
                        /\ i > n => Vacant(u, at[u])'
      BY <1>1, <1>2, <1>7 DEF MovingInv, Old
    <3>1. CASE i = n
      BY <1>1, <1>3, <2>1, <3>1 DEF HonestInv, MovingInv
    <3>2. CASE i # n
      <4> DEFINE u == Targets[i]
      <4>1. u \in TargetNames \ {t} /\ (i > n => i > installed) /\ (i <= n => i <= installed)
        BY <1>1, <1>3, <1>4, <3>2, TheTargets
      <4> HIDE DEF n, t
      <4>2. QED
        BY <1>1, <1>2, <2>1, <4>1 DEF HonestInv, MovingInv, Vacant
    <3>3. QED
      BY <3>1, <3>2
  <2>3. RollbackInv'
    BY <1>1, <1>7 DEF RollbackInv
  <2>4. KeptInv'
    BY <1>1, <1>2, <1>6 DEF HonestInv, KeptInv, Old
  <2>5. QED
    BY <1>5, <2>2, <2>3, <2>4 DEF HonestInv
<1>8. CASE failing' = TRUE /\ UNCHANGED <<at, installed, crossed>>
  <2>1. RollbackInv'
    BY <1>1, <1>2, <1>8 DEF HonestInv, MovingInv, RollbackInv, Old, Vacant
  <2>2. MovingInv'
    BY <1>8 DEF MovingInv
  <2>3. KeptInv'
    BY <1>1, <1>2, <1>8 DEF HonestInv, KeptInv, Old
  <2>4. QED
    BY <1>5, <2>1, <2>2, <2>3 DEF HonestInv
<1>9. QED
  BY <1>7, <1>8 DEF InstallNew

LEMMA RemoveInstalledIsHonest ==
    ASSUME LayoutInv, HonestInv, RemoveInstalled
    PROVE  HonestInv'
<1>1. /\ phase = "move" /\ moved = 3 /\ installed \in 1..2 /\ failing
      /\ at \in [TargetNames -> Slots]
  BY DEF RemoveInstalled, LayoutInv, TypeInv, ResetInv
<1>2. /\ UNCHANGED <<keys, kept, phase, before, fresh, staged>>
      /\ UNCHANGED <<backup, moved, moved_old, failing>>
      /\ installed' = installed - 1
  BY DEF RemoveInstalled
<1> DEFINE t == Targets[installed]
<1>3. t \in TargetNames \ {"state"}
  BY <1>1, TheTargets
<1>4. OutcomeInv' /\ MovingInv'
  BY <1>1, <1>2, NotYetTold DEF HonestInv, MovingInv
<1>5. CASE at' = [at EXCEPT ![t] = None] /\ UNCHANGED rollback_failed
  <2>1. at'[t] = None /\ \A u \in TargetNames \ {t} : at'[u] = at[u]
    BY <1>1, <1>3, <1>5
  <2>2. RollbackInv'
    <3> SUFFICES ASSUME ~ rollback_failed, NEW i \in 1..3
                 PROVE  LET u == Targets[i] IN
                        /\ backup[u] = None \/ Old(u, backup[u])
                        /\ u \notin moved_old =>
                              before[u] = None /\ (i > installed' => Vacant(u, at[u])')
      BY <1>1, <1>2, <1>5 DEF RollbackInv, Old
    <3>1. CASE i = installed
      BY <1>1, <2>1, <3>1 DEF HonestInv, RollbackInv, Vacant
    <3>2. CASE i # installed
      <4> DEFINE u == Targets[i]
      <4>1. u \in TargetNames \ {t} /\ (i > installed' => i > installed)
        BY <1>1, <1>2, <3>2, TheTargets DEF Targets
      <4> HIDE DEF t
      <4>2. QED
        BY <1>1, <1>2, <2>1, <4>1 DEF HonestInv, RollbackInv, Vacant
    <3>3. QED
      BY <3>1, <3>2
  <2>3. KeptInv'
    BY <1>1, <1>2, <1>3, <2>1, TheTargets DEF HonestInv, KeptInv, Old
  <2>4. QED
    BY <1>4, <2>2, <2>3 DEF HonestInv
<1>6. CASE rollback_failed' = TRUE /\ UNCHANGED at
  <2>1. RollbackInv'
    BY <1>6 DEF RollbackInv
  <2>2. KeptInv'
    BY <1>1, <1>2, <1>6 DEF HonestInv, KeptInv, Old
  <2>3. QED
    BY <1>4, <2>1, <2>2 DEF HonestInv
<1>7. QED
  BY <1>5, <1>6 DEF RemoveInstalled

LEMMA RestoreOldIsHonest ==
    ASSUME LayoutInv, HonestInv, RestoreOld
    PROVE  HonestInv'
<1>1. /\ phase = "move" /\ moved \in 1..3 /\ installed = 0 /\ failing
      /\ at \in [TargetNames -> Slots] /\ backup \in [TargetNames -> Slots]
  BY DEF RestoreOld, LayoutInv, TypeInv, ResetInv
<1>2. /\ UNCHANGED <<keys, kept, phase, before, fresh, staged>>
      /\ UNCHANGED <<moved_old, installed, failing>>
      /\ moved' = moved - 1
  BY DEF RestoreOld
<1> DEFINE t == Targets[moved]
<1>3. t \in TargetNames
  BY <1>1, TheTargets
<1>4. OutcomeInv' /\ MovingInv'
  BY <1>1, <1>2, NotYetTold DEF HonestInv, MovingInv
<1>5. CASE /\ backup[t] # None /\ at' = [at EXCEPT ![t] = backup[t]]
           /\ backup' = [backup EXCEPT ![t] = None] /\ UNCHANGED rollback_failed
  <2>1. /\ at'[t] = backup[t] /\ backup'[t] = None
        /\ \A u \in TargetNames \ {t} : at'[u] = at[u] /\ backup'[u] = backup[u]
    BY <1>1, <1>3, <1>5
  <2>2. RollbackInv'
    <3> SUFFICES ASSUME ~ rollback_failed, NEW i \in 1..3
                 PROVE  LET u == Targets[i] IN
                        /\ i > moved' => Old(u, at[u])'
                        /\ i <= moved' => backup'[u] = None \/ Old(u, backup[u])'
                        /\ i <= moved' /\ u \notin moved_old =>
                              before[u] = None /\ (i > installed => Vacant(u, at[u])')
      BY <1>1, <1>2, <1>5 DEF RollbackInv
    <3>1. CASE i = moved
      BY <1>1, <1>2, <1>5, <2>1, <3>1 DEF HonestInv, RollbackInv, Old
    <3>2. CASE i # moved
      <4> DEFINE u == Targets[i]
      <4>1. u \in TargetNames \ {t} /\ (i > moved' <=> i > moved) /\ (i <= moved' <=> i <= moved)
        BY <1>1, <1>2, <3>2, TheTargets DEF Targets
      <4> HIDE DEF t
      <4>2. QED
        BY <1>1, <1>2, <2>1, <4>1 DEF HonestInv, RollbackInv, Vacant, Old
    <3>3. QED
      BY <3>1, <3>2
  <2>3. KeptInv'
    <3>1. t = "state" => at'["state"] = backup["state"] /\ backup'["state"] = None
      BY <2>1
    <3>2. t # "state" => at'["state"] = at["state"] /\ backup'["state"] = backup["state"]
      BY <2>1, TheTargets
    <3>3. t = "state" => backup["state"] # None
      BY <1>5
    <3> HIDE DEF t
    <3>4. QED
      BY <1>1, <1>2, <3>1, <3>2, <3>3 DEF HonestInv, KeptInv, Old
  <2>4. QED
    BY <1>4, <2>2, <2>3 DEF HonestInv
<1>6. CASE UNCHANGED <<at, backup>> /\ (t \notin moved_old \/ rollback_failed' = TRUE)
           /\ (t \notin moved_old => UNCHANGED rollback_failed)
  <2>1. RollbackInv'
    <3> SUFFICES ASSUME t \notin moved_old, ~ rollback_failed, NEW i \in 1..3
                 PROVE  LET u == Targets[i] IN
                        /\ i > moved' => Old(u, at[u])
                        /\ i <= moved' => backup[u] = None \/ Old(u, backup[u])
                        /\ i <= moved' /\ u \notin moved_old =>
                              before[u] = None /\ (i > installed => Vacant(u, at[u]))
      BY <1>1, <1>2, <1>6 DEF RollbackInv, Old, Vacant
    <3>1. i > moved' => i = moved \/ i > moved
      BY <1>1, <1>2
    <3>2. i <= moved' => i <= moved
      BY <1>1, <1>2
    <3>3. QED
      BY <1>1, <3>1, <3>2 DEF HonestInv, RollbackInv, Old, Vacant
  <2>2. KeptInv'
    BY <1>1, <1>2, <1>6 DEF HonestInv, KeptInv, Old
  <2>3. QED
    BY <1>4, <2>1, <2>2 DEF HonestInv
<1>7. QED
  BY <1>5, <1>6 DEF RestoreOld

\* Whatever fails or crashes in between, and whoever starts meanwhile: a reset tells what is on
\* the disk, and until it deletes its temporary directories the old state directory is there.
THEOREM ResetIsHonestHolds == Spec => []ResetIsHonest
<1>1. LayoutInv /\ HonestInv /\ [Next]_vars => HonestInv'
  <2> SUFFICES ASSUME LayoutInv, HonestInv, [Next]_vars PROVE HonestInv'
    OBVIOUS
  <2>1. CASE UNCHANGED vars
    <3>1. UNCHANGED <<at, keys, kept, reset>>
      BY <2>1 DEF vars, disk
    <3>2. QED
      BY <3>1, GatewaysAreHonest
  <2>2. CASE Next
    BY <2>2, GatewaysOnDisk, GatewaysAreHonest, BeginningIsHonest, MakeFileIsHonest,
       LeaseKeyIsHonest, MoveOldIsHonest, InstallNewIsHonest, RemoveInstalledIsHonest,
       RestoreOldIsHonest, EndingIsHonest DEF Next
  <2>3. QED
    BY <2>1, <2>2
<1>2. HonestInv => ResetIsHonest
  BY DEF HonestInv, OutcomeInv, KeptInv, ResetIsHonest
<1>3. QED
  BY <1>1, <1>2, InitialHonesty, SpecLayoutInv, PTL DEF Spec

-----------------------------------------------------------------------------
(* The files of the model.                                                 *)

Whole(files) == \A f \in Artifacts : files[f] = "whole"

\* Unless the cache was changed meanwhile: while a start verifies, what it has looked at and not
\* found faulty is whole; when it may load, and when it has loaded, all of it is.
VerifiedInv ==
    /\ unchecked \in [Model!Verifiers -> SUBSET Artifacts]
    /\ faulty \in [Model!Verifiers -> SUBSET Artifacts]
    /\ loading \in {"idle", "verify", "load", "probe", "available", "refused"}
    /\ loading = "verify" /\ pinned /\ ~ touched =>
          \A f \in Artifacts : f \in unchecked["load"] \cup faulty["load"] \/ cache[f] = "whole"
    /\ loading = "load" => pinned /\ (~ touched => Whole(cache))
    /\ loading \in {"probe", "available"} => pinned /\ (~ touched => Whole(loaded))
    /\ loading = "available" => labels = "mapped" /\ offsets

LEMMA InitVerified == Model!Init => VerifiedInv
BY DEF Model!Init, VerifiedInv, Model!Verifiers

\* The verification of a fetch is not the one of a start.
LEMMA OfAFetch ==
    ASSUME VerifiedInv, UNCHANGED <<pinned, cache, loading, touched, Model!model>>,
           \/ Model!BeginVerify("fetch") \/ Model!EndVerification("fetch")
           \/ \E f \in Artifacts : Model!Check("fetch", f)
    PROVE  VerifiedInv'
<1>1. /\ unchecked' \in [Model!Verifiers -> SUBSET Artifacts]
      /\ faulty' \in [Model!Verifiers -> SUBSET Artifacts]
      /\ unchecked'["load"] = unchecked["load"] /\ faulty'["load"] = faulty["load"]
  BY DEF VerifiedInv, Model!BeginVerify, Model!EndVerification, Model!Check, Model!Verifiers
<1>2. QED
  BY <1>1 DEF VerifiedInv, Whole, Model!model

\* The cache changes.
LEMMA OfTheCache ==
    ASSUME VerifiedInv, touched' = (touched \/ Model!Starting),
           UNCHANGED <<pinned, loading, unchecked, faulty, Model!model>>
    PROVE  VerifiedInv'
BY DEF VerifiedInv, Whole, Model!Starting, Model!model

LEMMA BeginStartVerified ==
    ASSUME VerifiedInv, Model!BeginStart
    PROVE  VerifiedInv'
<1>1. /\ unchecked' \in [Model!Verifiers -> SUBSET Artifacts]
      /\ faulty' \in [Model!Verifiers -> SUBSET Artifacts]
      /\ pinned => unchecked'["load"] = Artifacts
  BY DEF VerifiedInv, Model!BeginStart, Model!BeginVerify, Model!Verifiers
<1>2. loading' \in {"verify", "refused"} /\ UNCHANGED pinned
  BY DEF Model!BeginStart
<1>3. QED
  BY <1>1, <1>2 DEF VerifiedInv

LEMMA CheckCachedVerified ==
    ASSUME VerifiedInv, NEW f \in Artifacts, Model!CheckCached(f)
    PROVE  VerifiedInv'
<1>1. loading = "verify" /\ UNCHANGED <<pinned, cache, loading, touched>>
  BY DEF Model!CheckCached
<1>2. /\ unchecked' \in [Model!Verifiers -> SUBSET Artifacts]
      /\ faulty' \in [Model!Verifiers -> SUBSET Artifacts]
      /\ unchecked'["load"] = unchecked["load"] \ {f}
      /\ faulty["load"] \subseteq faulty'["load"]
      /\ f \in faulty'["load"] \/ cache[f] = "whole"
  BY DEF VerifiedInv, Model!CheckCached, Model!Check, Model!ArtifactFaulty, Model!Verifiers
<1>3. QED
  BY <1>1, <1>2 DEF VerifiedInv

LEMMA EndVerifyVerified ==
    ASSUME VerifiedInv, Model!EndVerify
    PROVE  VerifiedInv'
<1>1. /\ loading = "verify" /\ UNCHANGED <<pinned, cache, touched>>
      /\ \/ loading' = "refused"
         \/ /\ loading' = "load" /\ pinned
            /\ unchecked["load"] = {} /\ faulty["load"] = {}
  BY DEF Model!EndVerify, Model!Verified
<1>2. /\ unchecked' \in [Model!Verifiers -> SUBSET Artifacts]
      /\ faulty' \in [Model!Verifiers -> SUBSET Artifacts]
  BY DEF VerifiedInv, Model!EndVerify, Model!EndVerification, Model!Verifiers
<1>3. QED
  BY <1>1, <1>2 DEF VerifiedInv, Whole

LEMMA LoadVerified ==
    ASSUME VerifiedInv, Model!Load \/ Model!Probe \/ Model!Stop
    PROVE  VerifiedInv'
<1>1. /\ unchecked' \in [Model!Verifiers -> SUBSET Artifacts]
      /\ faulty' \in [Model!Verifiers -> SUBSET Artifacts]
      /\ UNCHANGED <<pinned, touched>>
  BY DEF VerifiedInv, Model!Load, Model!Probe, Model!Stop, Model!EndVerification, Model!Verifiers
<1>2. CASE Model!Load
  BY <1>1, <1>2 DEF VerifiedInv, Whole, Model!Load
<1>3. CASE Model!Probe
  <2>1. /\ loading = "probe" /\ UNCHANGED <<loaded, labels, offsets>>
        /\ loading' = "refused" \/ (loading' = "available" /\ labels = "mapped" /\ offsets)
    BY <1>3 DEF Model!Probe, Model!model
  <2>2. QED
    BY <1>1, <2>1 DEF VerifiedInv, Whole
<1>4. CASE Model!Stop
  BY <1>1, <1>4 DEF VerifiedInv, Model!Stop
<1>5. QED
  BY <1>2, <1>3, <1>4

LEMMA NextVerified == VerifiedInv /\ [Model!Next]_(Model!vars) => VerifiedInv'
<1> SUFFICES ASSUME VerifiedInv, Model!Next \/ UNCHANGED Model!vars PROVE VerifiedInv'
  OBVIOUS
<1>1. CASE Model!BeginFetch \/ UNCHANGED Model!vars
  BY <1>1 DEF Model!BeginFetch, Model!vars, Model!model, VerifiedInv, Whole
<1>2. CASE Model!BeginCheckFetched \/ Model!EndFetch \/ Model!Interrupt
  BY <1>2, OfAFetch DEF Model!BeginCheckFetched, Model!EndFetch, Model!Interrupt
<1>3. CASE Model!Tamper
  BY <1>3, OfTheCache DEF Model!Tamper
<1>4. ASSUME NEW f \in Artifacts, Model!Download(f) \/ Model!CheckFetched(f) \/ Model!CheckCached(f)
      PROVE  VerifiedInv'
  BY <1>4, OfTheCache, OfAFetch, CheckCachedVerified DEF Model!Download, Model!CheckFetched
<1>5. QED
  BY <1>1, <1>2, <1>3, <1>4, BeginStartVerified, EndVerifyVerified, LoadVerified DEF Model!Next

\* What is whole stays whole, from the verification of a start to the loaded model.
THEOREM SpecVerifiedInv == Model!Spec => []VerifiedInv
<1>1. QED
  BY InitVerified, NextVerified, PTL DEF Model!Spec

\* A detector that is available has loaded the pinned files, all of them and whole, and can map
\* what it finds, however fetches, interruptions and changes of the cache came before the start.
THEOREM ModelIsWholeHolds == Model!Spec => []ModelIsWhole
<1>1. VerifiedInv => ModelIsWhole
  BY DEF VerifiedInv, Whole, ModelIsWhole, Model!ModelIsWhole
<1>2. QED
  BY <1>1, SpecVerifiedInv, PTL

-----------------------------------------------------------------------------
(* An exchange over HTTP.                                                  *)

\* Where nothing was sent to the upstream yet, and where a stream is shown
Early == {"new", "head", "reading", "parsed", "prepared"}
Shown == {"started", "relaying", "flushed", "bound"}

\* Before the end nothing is counted but the start, and the client was shown a stream or nothing.
CountInv ==
    /\ started = IF step = "new" THEN 0 ELSE 1
    /\ step # "done" => completed = 0 /\ recorded = 0 /\ stream_errors = 0 /\ ~ gone
    /\ step # "done" => shown = IF step \in Shown THEN "start" ELSE "nothing"
    /\ shown \in {"nothing", "start", "all"}
    /\ AccountedFor

\* Where the handler is, in the order of its awaits: whether the upstream is open, and whether
\* what the client will see may be continued.
OrderInv ==
    /\ step \in Early \cup {"answered", "buffered", "restoring", "done"} \cup Shown
    /\ step \in Early => upstream = "none" /\ ~ relaying
    /\ step \in {"buffered", "restoring"} => ~ Http!Streaming /\ upstream = "closed" /\ ~ relaying
    /\ step \in {"answered"} \cup Shown => Http!Streaming /\ upstream = "open"
    /\ step \in {"answered", "started"} => ~ relaying
    /\ step = "restoring" /\ answer.type = "json" /\ answer.id => bound
    /\ step = "bound" /\ Http!Processed => bound
    /\ step \in Shown => status = Http!Code
    /\ EndsInOrder

HttpInv == CountInv /\ OrderInv

LEMMA InitHttp == Http!Init => HttpInv
BY DEF Http!Init, HttpInv, CountInv, OrderInv, AccountedFor, Http!AccountedFor, EndsInOrder,
       Http!EndsInOrder, Early, Shown

(* The steps, one by one: each looks at the whole of the invariant.         *)
USE DEF HttpInv, CountInv, OrderInv, AccountedFor, Http!AccountedFor, EndsInOrder,
        Http!EndsInOrder, Early, Shown, Http!Streaming, Http!Processed, Http!Readable, Http!Code

LEMMA ArriveStep ==
    ASSUME HttpInv, Http!Arrive
    PROVE  HttpInv'
BY DEF Http!Arrive, Http!Complete

LEMMA CheckHeadStep ==
    ASSUME HttpInv, Http!CheckHead
    PROVE  HttpInv'
BY DEF Http!CheckHead, Http!Respond, Http!Complete, Http!telemetry

LEMMA ReadChunkStep ==
    ASSUME HttpInv, NEW size \in 1..2, Http!ReadChunk(size)
    PROVE  HttpInv'
BY DEF Http!ReadChunk, Http!Respond, Http!Complete, Http!telemetry

LEMMA ParseStep ==
    ASSUME HttpInv, Http!Parse
    PROVE  HttpInv'
BY DEF Http!Parse, Http!Respond, Http!Complete, Http!telemetry

LEMMA PrepareStep ==
    ASSUME HttpInv, Http!Prepare
    PROVE  HttpInv'
BY DEF Http!Prepare, Http!Respond, Http!Raise, Http!Complete, Http!telemetry

LEMMA ForwardStep ==
    ASSUME HttpInv, Http!Forward
    PROVE  HttpInv'
BY DEF Http!Forward, Http!Raise, Http!Complete, Http!telemetry

LEMMA BindBufferedStep ==
    ASSUME HttpInv, Http!BindBuffered
    PROVE  HttpInv'
BY DEF Http!BindBuffered, Http!Raise, Http!Complete, Http!telemetry

LEMMA RestoreAndRespondStep ==
    ASSUME HttpInv, Http!RestoreAndRespond
    PROVE  HttpInv'
BY DEF Http!RestoreAndRespond, Http!Respond, Http!Raise, Http!Complete

LEMMA StartStreamStep ==
    ASSUME HttpInv, Http!StartStream
    PROVE  HttpInv'
BY DEF Http!StartStream, Http!Goes

LEMMA BeginRelayStep ==
    ASSUME HttpInv, Http!BeginRelay
    PROVE  HttpInv'
BY DEF Http!BeginRelay, Http!Goes, Http!telemetry

LEMMA RelayStep ==
    ASSUME HttpInv, Http!Relay
    PROVE  HttpInv'
BY DEF Http!Relay, Http!Raise, Http!Complete, Http!telemetry

LEMMA BindStreamStep ==
    ASSUME HttpInv, Http!BindStream
    PROVE  HttpInv'
BY DEF Http!BindStream, Http!Raise, Http!Complete, Http!telemetry

LEMMA EndStreamStep ==
    ASSUME HttpInv, Http!EndStream
    PROVE  HttpInv'
BY DEF Http!EndStream, Http!Complete

LEMMA HangUpStep ==
    ASSUME HttpInv, Http!HangUp
    PROVE  HttpInv'
BY DEF Http!HangUp, Http!Complete, Http!Abandon

LEMMA CancelStep ==
    ASSUME HttpInv, Http!Cancel
    PROVE  HttpInv'
<1>1. /\ step \notin {"new", "done"} /\ step' = "done"
      /\ stream_errors' = IF shown = "nothing" THEN stream_errors ELSE stream_errors + 1
      /\ status' = IF shown = "nothing" THEN 500 ELSE status
      /\ shown' = IF shown = "nothing" THEN "all" ELSE shown
      /\ completed' = 1 /\ recorded' = 500
      /\ upstream' = IF relaying \/ upstream = "none" THEN "closed" ELSE upstream
      /\ UNCHANGED <<request, total, answer, relaying, bound, gone, started>>
  BY DEF Http!Cancel, Http!Raise, Http!Complete, Http!Abandon
<1>2. CountInv'
  BY <1>1
<1>3. shown' = "all" => status' = 500
  <2>1. shown \in {"nothing", "start"}
    BY <1>1
  <2>2. QED
    BY <1>1, <2>1
<1>4. Http!Code' \in {200, 429}
  OBVIOUS
<1>5. relaying \/ ~ Http!Streaming => upstream' # "open"
  BY <1>1
<1>6. Http!Streaming' <=> Http!Streaming
  BY <1>1
<1>7. OrderInv'
  <2>1. ~ (shown' = "all" /\ status' = Http!Code')
    BY <1>3, <1>4
  <2>2. QED
    BY <1>1, <1>5, <1>6, <2>1
<1>8. QED
  BY <1>2, <1>7

LEMMA NextHttp == HttpInv /\ [Http!Next]_(Http!vars) => HttpInv'
<1>1. ASSUME HttpInv, UNCHANGED Http!vars
      PROVE  HttpInv'
  BY <1>1 DEF Http!vars
<1>2. ASSUME HttpInv, Http!Next
      PROVE  HttpInv'
  <2>1. ASSUME NEW size \in 1..2, Http!ReadChunk(size)
        PROVE  HttpInv'
    BY <1>2, <2>1, ReadChunkStep
  <2>2. QED
    BY <1>2, <2>1, ArriveStep, CheckHeadStep, ParseStep, PrepareStep, ForwardStep,
       BindBufferedStep, RestoreAndRespondStep, StartStreamStep, BeginRelayStep, RelayStep,
       BindStreamStep, EndStreamStep, CancelStep, HangUpStep
       DEF Http!Next
<1>3. QED
  BY <1>1, <1>2

HIDE DEF HttpInv, CountInv, OrderInv, AccountedFor, Http!AccountedFor, EndsInOrder,
         Http!EndsInOrder, Early, Shown, Http!Streaming, Http!Processed, Http!Readable, Http!Code

\* At every await the counters, the upstream and the client are where the handler is.
THEOREM SpecHttpInv == Http!Spec => []HttpInv
<1>1. QED
  BY InitHttp, NextHttp, PTL DEF Http!Spec

\* However an exchange ends, it was counted once as started and once as completed, with the
\* status its client saw; a stream that was broken off, and nothing else, is one stream error.
THEOREM AccountedForHolds == Http!Spec => []AccountedFor
<1>1. HttpInv => AccountedFor
  BY DEF HttpInv, CountInv
<1>2. QED
  BY <1>1, SpecHttpInv, PTL

\* A client that has seen the end of an answer can continue from it, and a stream that was begun
\* has closed its connection to the upstream, wherever the exchange was cut off.
THEOREM EndsInOrderHolds == Http!Spec => []EndsInOrder
<1>1. HttpInv => EndsInOrder
  BY DEF HttpInv, OrderInv
<1>2. QED
  BY <1>1, SpecHttpInv, PTL

-----------------------------------------------------------------------------
(* The parts of an installation, each beside the others. *)

\* What is proved of a part holds when it stands beside the others.
THEOREM PartsStepTogether == OperationsSpec => Spec /\ Model!Spec /\ Http!Spec
<1>1. OperationsInit => Init /\ Model!Init /\ Http!Init
  BY DEF OperationsInit
<1>2. UNCHANGED modelVars => UNCHANGED Model!vars
  BY DEF modelVars, Model!vars, Model!model
<1>3. UNCHANGED httpVars => UNCHANGED Http!vars
  BY DEF httpVars, Http!vars
<1>4. ASSUME [OperationsNext]_<<part, vars, modelVars, httpVars>>
      PROVE  [Next]_vars /\ [Model!Next]_(Model!vars) /\ [Http!Next]_(Http!vars)
  <2>1. /\ Next \/ UNCHANGED vars
        /\ Model!Next \/ UNCHANGED modelVars
        /\ Http!Next \/ UNCHANGED httpVars
    BY <1>4 DEF OperationsNext
  <2>2. QED
    BY <2>1, <1>2, <1>3
<1>5. QED
  BY <1>1, <1>4, PTL DEF OperationsSpec, Spec, Model!Spec, Http!Spec
=============================================================================
