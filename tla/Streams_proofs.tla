---------------------------- MODULE Streams_proofs ----------------------------
(***************************************************************************)
(* Proofs about the two stream processors, ResponsesStream and             *)
(* AnthropicStream, as MCStreams composes them: for any number of calls,   *)
(* blocks and texts, any cap and any pieces, the client is given whole     *)
(* arguments, originals only for trusted tools, complete texts, and no     *)
(* call or text is lost without notice; each tool block is delivered as    *)
(* CallDelivery promises.                                                  *)
(***************************************************************************)
EXTENDS MCStreams, TLAPS

-----------------------------------------------------------------------------
(* ResponsesStream.                                                        *)

Given == {d.item : d \in delivered}
Growing(i) == progress[i] \in {"new", "open"}

\* The size of a call is known as long as it is buffered or has overflowed.
SizesOK ==
    /\ DOMAIN arg_sizes = DOMAIN arg_buffers \cup arg_overflow
    /\ \A i \in DOMAIN arg_buffers : arg_sizes[i] = arg_buffers[i]

\* A name that is remembered is the right one.  While the stream goes on, the buffer of a
\* growing call has everything that was sent, unless it overflowed.
BufferOK ==
    \A i \in Items :
        /\ i \in DOMAIN item_names => item_names[i] = calls[i].name
        /\ Growing(i) /\ i \in DOMAIN arg_buffers => arg_buffers[i] = sent[i]
        /\ ended = "no" /\ Growing(i) /\ sent[i] > 0 => i \in DOMAIN arg_buffers \cup arg_overflow

\* The client was given, or refused, every call that is not growing, and no other.
OutcomeOK ==
    \A i \in Items :
        /\ i \in Given => ~ Growing(i)
        /\ ~ Growing(i) => i \in Given \cup refused

\* On a WebSocket nothing was refused as long as the connection is open.
WebSocketOK ==
    transport = "websocket" /\ ended = "no" =>
        /\ refused = {}
        /\ \A i \in Items : ~ Growing(i) /\ sent[i] > 0 => calls[i].valid

StreamInv ==
    /\ TypeOK
    /\ SizesOK
    /\ BufferOK
    /\ OutcomeOK
    /\ WebSocketOK
    /\ WholeArguments
    /\ OnlyTrustedRestored
    /\ NoCallLost
    /\ TextConserved
    /\ RefusedIsNotForwardedOnWebSocket

-----------------------------------------------------------------------------
(* dict operations.                                                        *)

\* d[k] = v and d.pop(k, None) leave a dict a dict.
LEMMA PutType ==
    \A S, T, f, k, v :
        f \in PartialFunctions(S, T) /\ k \in S /\ v \in T => Put(f, k, v) \in PartialFunctions(S, T)
<1> SUFFICES ASSUME NEW S, NEW T, NEW f \in PartialFunctions(S, T), NEW k \in S, NEW v \in T
             PROVE  Put(f, k, v) \in PartialFunctions(S, T)
  OBVIOUS
<1>1. PICK D \in SUBSET S : f \in [D -> T]
  BY DEF PartialFunctions
<1>2. Put(f, k, v) \in [D \cup {k} -> T]
  BY <1>1 DEF Put
<1>3. D \cup {k} \in SUBSET S
  BY <1>1
<1>4. QED
  BY <1>2, <1>3 DEF PartialFunctions

LEMMA DropType ==
    \A S, T, f, k : f \in PartialFunctions(S, T) => Drop(f, k) \in PartialFunctions(S, T)
<1> SUFFICES ASSUME NEW S, NEW T, NEW f \in PartialFunctions(S, T), NEW k
             PROVE  Drop(f, k) \in PartialFunctions(S, T)
  OBVIOUS
<1>1. PICK D \in SUBSET S : f \in [D -> T]
  BY DEF PartialFunctions
<1>2. Drop(f, k) \in [D \ {k} -> T]
  BY <1>1 DEF Drop, Restrict
<1>3. D \ {k} \in SUBSET S
  BY <1>1
<1>4. QED
  BY <1>2, <1>3 DEF PartialFunctions

LEMMA ValueFacts ==
    ASSUME NEW S, NEW T, NEW f \in PartialFunctions(S, T)
    PROVE  DOMAIN f \subseteq S /\ \A x \in DOMAIN f : f[x] \in T
BY DEF PartialFunctions

LEMMA EmptyDict == \A S, T : <<>> \in PartialFunctions(S, T) /\ DOMAIN <<>> = {}
<1> SUFFICES ASSUME NEW S, NEW T
             PROVE  <<>> \in PartialFunctions(S, T) /\ DOMAIN <<>> = {}
  OBVIOUS
<1>1. <<>> \in [{} -> T]
  OBVIOUS
<1>2. QED
  BY <1>1 DEF PartialFunctions

-----------------------------------------------------------------------------
LEMMA InitStreamInv == Init => StreamInv
<1> SUFFICES ASSUME Init PROVE StreamInv
  OBVIOUS
<1>1. TypeOK
  BY EmptyDict, StreamAssumption DEF Init, TypeOK
<1>2. SizesOK /\ BufferOK
  BY EmptyDict DEF Init, SizesOK, BufferOK
<1>3. OutcomeOK /\ WebSocketOK
  BY DEF Init, OutcomeOK, WebSocketOK, Given, Growing
<1>4. WholeArguments /\ OnlyTrustedRestored /\ NoCallLost /\ RefusedIsNotForwardedOnWebSocket
  BY DEF Init, WholeArguments, OnlyTrustedRestored, NoCallLost,
         RefusedIsNotForwardedOnWebSocket, RefusedIsNotForwarded
<1>5. TextConserved
  BY EmptyDict DEF Init, TextConserved, Held, Get
<1>6. QED
  BY <1>1, <1>2, <1>3, <1>4, <1>5 DEF StreamInv

-----------------------------------------------------------------------------
(* Every step keeps the invariant.                                         *)

\* The texts are as they were, and the stream has not come to its proper end.
LEMMA TextsUntouched ==
    ASSUME StreamInv, UNCHANGED textVars, ended' # "finished"
    PROVE  TextConserved' /\ NoCallLost'
BY DEF StreamInv, TextConserved, NoCallLost, Held, Get, textVars

\* The move of one call.
LEMMA AdvancesFacts ==
    ASSUME TypeOK, NEW i \in Items, NEW from, NEW to \in {"open", "argsDone", "over"},
           Advances(i, from, to)
    PROVE  /\ ended = "no" /\ progress[i] \in from
           /\ progress' \in [Items -> {"new", "open", "argsDone", "over"}]
           /\ \A j \in Items : progress'[j] = IF j = i THEN to ELSE progress[j]
           /\ transport' = transport /\ calls' = calls
BY DEF Advances, TypeOK

LEMMA StepItemAdded ==
    ASSUME StreamInv, NEW i \in Items, ItemAdded(i)
    PROVE  StreamInv'
<1>1. /\ ended = "no" /\ progress[i] = "new"
      /\ progress' \in [Items -> {"new", "open", "argsDone", "over"}]
      /\ \A j \in Items : progress'[j] = IF j = i THEN "open" ELSE progress[j]
      /\ transport' = transport /\ calls' = calls
      /\ UNCHANGED <<sent, argVars, textVars, outcome>>
  BY AdvancesFacts DEF ItemAdded, StreamInv
<1>2. \A j \in Items : Growing(j)' <=> Growing(j)
  BY <1>1 DEF Growing
<1>3. /\ item_names' \in PartialFunctions(Items, Names)
      /\ \A j \in DOMAIN item_names' : item_names'[j] = calls[j].name
  <2>1. /\ item_names \in PartialFunctions(Items, Names)
        /\ \A j \in DOMAIN item_names : item_names[j] = calls[j].name
    BY ValueFacts DEF StreamInv, TypeOK, BufferOK
  <2>2. calls[i].name \in Names
    BY DEF StreamInv, TypeOK
  <2>3. item_names' = item_names \/ item_names' = Put(item_names, i, calls[i].name)
    BY DEF ItemAdded
  <2>4. CASE item_names' = Put(item_names, i, calls[i].name)
    <3>1. item_names' \in PartialFunctions(Items, Names)
      BY <2>1, <2>2, <2>4, PutType
    <3>2. /\ DOMAIN item_names' = DOMAIN item_names \cup {i}
          /\ \A x \in DOMAIN item_names : x # i => item_names'[x] = item_names[x]
          /\ item_names'[i] = calls[i].name
      BY <2>4 DEF Put
    <3>3. QED
      BY <2>1, <3>1, <3>2
  <2>5. QED
    BY <2>1, <2>3, <2>4
<1>4. TypeOK'
  BY <1>1, <1>3 DEF StreamInv, TypeOK, argVars, textVars, outcome
<1>5. SizesOK' /\ BufferOK'
  BY <1>1, <1>2, <1>3 DEF StreamInv, SizesOK, BufferOK, argVars
<1>6. OutcomeOK' /\ WebSocketOK'
  BY <1>1, <1>2 DEF StreamInv, OutcomeOK, WebSocketOK, Given, outcome
<1>7. WholeArguments' /\ OnlyTrustedRestored' /\ RefusedIsNotForwardedOnWebSocket'
  BY <1>1 DEF StreamInv, WholeArguments, OnlyTrustedRestored,
     RefusedIsNotForwardedOnWebSocket, RefusedIsNotForwarded, outcome
<1>8. TextConserved' /\ NoCallLost'
  BY <1>1, TextsUntouched DEF outcome
<1>9. QED
  BY <1>4, <1>5, <1>6, <1>7, <1>8 DEF StreamInv

\* Each delta is appended, or the call has overflowed for good.
LEMMA StepArgsDelta ==
    ASSUME StreamInv, NEW i \in Items, NEW n \in 0..MaxPiece, ArgsDelta(i, n)
    PROVE  StreamInv'
<1> DEFINE size == Get(arg_sizes, i, 0) + n
           buffer == Get(arg_buffers, i, 0) + n
<1>1. /\ ended = "no" /\ Growing(i)
      /\ progress' \in [Items -> {"new", "open", "argsDone", "over"}]
      /\ \A j \in Items : progress'[j] = IF j = i THEN "open" ELSE progress[j]
      /\ transport' = transport /\ calls' = calls
      /\ UNCHANGED <<item_names, textVars, outcome>>
  BY AdvancesFacts DEF ArgsDelta, StreamInv, Growing
<1>2. \A j \in Items : Growing(j)' <=> Growing(j)
  BY <1>1 DEF Growing
<1>3. /\ sent' \in [Items -> 0..MaxArgs] /\ sent'[i] = sent[i] + n
      /\ \A j \in Items \ {i} : sent'[j] = sent[j]
  BY StreamAssumption DEF ArgsDelta, StreamInv, TypeOK
<1>4. /\ arg_buffers \in PartialFunctions(Items, 0..Cap)
      /\ arg_sizes \in PartialFunctions(Items, 0..(Cap + MaxPiece))
      /\ DOMAIN arg_buffers \subseteq Items
      /\ \A j \in DOMAIN arg_buffers : arg_buffers[j] \in 0..Cap
      /\ DOMAIN arg_sizes = DOMAIN arg_buffers \cup arg_overflow
      /\ arg_overflow \cap DOMAIN arg_buffers = {}
  BY ValueFacts DEF StreamInv, TypeOK, SizesOK
<1>5. i \notin arg_overflow =>
        /\ size = buffer /\ buffer = sent[i] + n
        /\ size \in 0..(Cap + MaxPiece)
  <2>1. CASE i \in DOMAIN arg_buffers
    BY <1>1, <1>4, <2>1, StreamAssumption DEF StreamInv, SizesOK, BufferOK, Get
  <2>2. CASE i \notin DOMAIN arg_buffers
    BY <1>1, <1>4, <2>2, StreamAssumption DEF StreamInv, TypeOK, BufferOK, Get
  <2>3. QED
    BY <2>1, <2>2
<1>6. /\ arg_buffers' \in PartialFunctions(Items, 0..Cap)
      /\ arg_sizes' \in PartialFunctions(Items, 0..(Cap + MaxPiece))
      /\ arg_overflow' \subseteq DOMAIN arg_sizes' \ DOMAIN arg_buffers'
      /\ SizesOK'
      /\ i \in DOMAIN arg_buffers' \cup arg_overflow'
      /\ i \in DOMAIN arg_buffers' => arg_buffers'[i] = sent'[i]
      /\ DOMAIN arg_buffers' \ {i} = DOMAIN arg_buffers \ {i}
      /\ arg_overflow' \ {i} = arg_overflow \ {i}
      /\ \A j \in DOMAIN arg_buffers' : j # i => arg_buffers'[j] = arg_buffers[j]
  <2>1. CASE i \in arg_overflow
    <3>1. UNCHANGED argVars
      BY <2>1 DEF ArgsDelta
    <3>2. QED
      BY <1>4, <2>1, <3>1 DEF argVars, StreamInv, SizesOK
  <2>2. CASE i \notin arg_overflow /\ size > Cap
    <3>1. /\ arg_sizes' = Put(arg_sizes, i, size)
          /\ arg_overflow' = arg_overflow \cup {i}
          /\ arg_buffers' = Drop(arg_buffers, i)
      BY <2>2 DEF ArgsDelta
    <3>2. /\ arg_sizes' \in PartialFunctions(Items, 0..(Cap + MaxPiece))
          /\ arg_buffers' \in PartialFunctions(Items, 0..Cap)
      BY <1>4, <1>5, <2>2, <3>1, PutType, DropType
    <3>3. /\ DOMAIN arg_sizes' = DOMAIN arg_sizes \cup {i}
          /\ \A x \in DOMAIN arg_sizes : x # i => arg_sizes'[x] = arg_sizes[x]
      BY <3>1 DEF Put
    <3>4. /\ DOMAIN arg_buffers' = DOMAIN arg_buffers \ {i}
          /\ \A x \in DOMAIN arg_buffers : x # i => arg_buffers'[x] = arg_buffers[x]
      BY <3>1 DEF Drop, Restrict
    <3>5. QED
      BY <1>4, <3>1, <3>2, <3>3, <3>4 DEF StreamInv, SizesOK
  <2>3. CASE i \notin arg_overflow /\ ~ (size > Cap)
    <3>1. /\ arg_sizes' = Put(arg_sizes, i, size)
          /\ arg_buffers' = Put(arg_buffers, i, buffer)
          /\ arg_overflow' = arg_overflow
      BY <2>3 DEF ArgsDelta
    <3>2. size \in 0..Cap /\ buffer \in 0..Cap
      BY <1>5, <2>3, StreamAssumption
    <3>3. /\ arg_sizes' \in PartialFunctions(Items, 0..(Cap + MaxPiece))
          /\ arg_buffers' \in PartialFunctions(Items, 0..Cap)
      BY <1>4, <1>5, <2>3, <3>1, <3>2, PutType
    <3>4. /\ DOMAIN arg_sizes' = DOMAIN arg_sizes \cup {i}
          /\ arg_sizes'[i] = size
          /\ \A x \in DOMAIN arg_sizes : x # i => arg_sizes'[x] = arg_sizes[x]
      BY <3>1 DEF Put
    <3>5. /\ DOMAIN arg_buffers' = DOMAIN arg_buffers \cup {i}
          /\ arg_buffers'[i] = buffer
          /\ \A x \in DOMAIN arg_buffers : x # i => arg_buffers'[x] = arg_buffers[x]
      BY <3>1 DEF Put
    <3>6. QED
      BY <1>3, <1>4, <1>5, <2>3, <3>1, <3>3, <3>4, <3>5 DEF StreamInv, SizesOK
  <2>4. QED
    BY <2>1, <2>2, <2>3
<1>7. TypeOK'
  BY <1>1, <1>3, <1>6 DEF StreamInv, TypeOK, textVars, outcome
<1>8. BufferOK'
  <2>1. \A j \in Items \ {i} :
           /\ j \in DOMAIN arg_buffers' <=> j \in DOMAIN arg_buffers
           /\ j \in arg_overflow' <=> j \in arg_overflow
    BY <1>6
  <2>2. QED
    BY <1>1, <1>2, <1>3, <1>6, <2>1 DEF StreamInv, BufferOK
<1>9. i \notin Given
  BY <1>1 DEF StreamInv, OutcomeOK
<1>10. OutcomeOK' /\ WebSocketOK'
  BY <1>1, <1>2, <1>3 DEF StreamInv, OutcomeOK, WebSocketOK, Given, outcome
<1>11. WholeArguments'
  <2>1. \A d \in delivered : d.item \in Items /\ d.item # i
    BY <1>9 DEF StreamInv, TypeOK, Given
  <2>2. QED
    BY <1>1, <1>3, <2>1 DEF StreamInv, WholeArguments, outcome
<1>12. OnlyTrustedRestored' /\ RefusedIsNotForwardedOnWebSocket'
  BY <1>1 DEF StreamInv, OnlyTrustedRestored,
     RefusedIsNotForwardedOnWebSocket, RefusedIsNotForwarded, outcome
<1>13. TextConserved' /\ NoCallLost'
  BY <1>1, TextsUntouched DEF outcome
<1>14. QED
  BY <1>6, <1>7, <1>8, <1>10, <1>11, <1>12, <1>13 DEF StreamInv

\* A call that is over keeps what the client knows of it in order, whichever of its two
\* last events says so.
LEMMA CallEnds ==
    ASSUME StreamInv, NEW i \in Items, NEW whole \in 0..MaxArgs, NEW restore \in BOOLEAN,
           NEW from, NEW to \in {"argsDone", "over"}, Advances(i, from, to),
           sent' = [sent EXCEPT ![i] = whole],
           ~ Growing(i) => whole = sent[i],
           restore => calls[i].name \in Trusted,
           \/ Deliver(i, whole, restore) /\ (whole > 0 => calls[i].valid)
           \/ Refuse(i) /\ (Growing(i) \/ (whole > 0 /\ ~ calls[i].valid))
    PROVE  /\ delivered' \subseteq [item : Items, length : 0..MaxArgs, restored : BOOLEAN]
           /\ refused' \in SUBSET Items /\ reported' = reported
           /\ ended' \in {"no", "closed"}
           /\ sent' \in [Items -> 0..MaxArgs]
           /\ OutcomeOK' /\ WebSocketOK'
           /\ WholeArguments' /\ OnlyTrustedRestored' /\ RefusedIsNotForwardedOnWebSocket'
<1> DEFINE given == [item |-> i, length |-> whole, restored |-> restore]
<1>1. /\ ended = "no"
      /\ progress' \in [Items -> {"new", "open", "argsDone", "over"}]
      /\ \A j \in Items : progress'[j] = IF j = i THEN to ELSE progress[j]
      /\ transport' = transport /\ calls' = calls
  BY AdvancesFacts DEF StreamInv
<1>2. /\ ~ Growing(i)'
      /\ \A j \in Items \ {i} : Growing(j)' <=> Growing(j)
  BY <1>1 DEF Growing
<1>3. /\ sent' \in [Items -> 0..MaxArgs] /\ sent'[i] = whole
      /\ \A j \in Items \ {i} : sent'[j] = sent[j]
  BY DEF StreamInv, TypeOK
<1>4. \A d \in delivered : d.item \in Items /\ sent'[d.item] = sent[d.item]
  <2>1. \A d \in delivered : d.item \in Items /\ (d.item = i => ~ Growing(i))
    BY DEF StreamInv, TypeOK, OutcomeOK, Given
  <2>2. QED
    BY <1>3, <2>1
<1>5. given \in [item : Items, length : 0..MaxArgs, restored : BOOLEAN]
  OBVIOUS
<1>6. CASE Deliver(i, whole, restore) /\ (whole > 0 => calls[i].valid)
  <2>1. delivered' = delivered \cup {given} /\ UNCHANGED <<refused, reported, ended>>
    BY <1>6 DEF Deliver
  <2>2. Given' = Given \cup {i}
    <3>1. given.item = i
      OBVIOUS
    <3> HIDE DEF given
    <3>2. QED
      BY <2>1, <3>1 DEF Given
  <2>3. OutcomeOK'
    BY <1>2, <2>1, <2>2 DEF StreamInv, OutcomeOK
  <2>4. WebSocketOK'
    BY <1>1, <1>2, <1>3, <1>6, <2>1 DEF StreamInv, WebSocketOK
  <2>5. WholeArguments'
    BY <1>3, <1>4, <2>1 DEF StreamInv, WholeArguments
  <2>6. OnlyTrustedRestored'
    BY <1>1, <2>1 DEF StreamInv, OnlyTrustedRestored
  <2>7. RefusedIsNotForwardedOnWebSocket'
    BY <1>1, <2>1 DEF StreamInv, WebSocketOK, RefusedIsNotForwardedOnWebSocket,
       RefusedIsNotForwarded
  <2>8. QED
    BY <1>1, <1>3, <1>5, <2>1, <2>3, <2>4, <2>5, <2>6, <2>7 DEF StreamInv, TypeOK
<1>7. CASE Refuse(i) /\ (Growing(i) \/ (whole > 0 /\ ~ calls[i].valid))
  <2>1. /\ delivered' = delivered /\ reported' = reported /\ refused' = refused \cup {i}
        /\ ended' \in {"no", "closed"}
        /\ transport = "websocket" => ended' = "closed"
    BY <1>1, <1>7 DEF Refuse
  <2>2. OutcomeOK'
    <3>1. Given' = Given
      BY <2>1 DEF Given
    <3>2. i \in refused'
      BY <2>1
    <3>3. \A j \in Items : j \in Given => ~ Growing(j)'
      BY <1>2 DEF StreamInv, OutcomeOK
    <3>4. \A j \in Items : ~ Growing(j)' => j \in Given \cup refused'
      BY <1>2, <2>1, <3>2 DEF StreamInv, OutcomeOK
    <3>5. QED
      BY <3>1, <3>3, <3>4 DEF OutcomeOK
  <2>3. WebSocketOK'
    BY <1>1, <2>1 DEF WebSocketOK
  <2>4. WholeArguments'
    BY <1>4, <2>1 DEF StreamInv, WholeArguments
  <2>5. OnlyTrustedRestored'
    BY <1>1, <2>1 DEF StreamInv, OnlyTrustedRestored
  <2>6. RefusedIsNotForwardedOnWebSocket'
    <3>1. SUFFICES ASSUME transport = "websocket"
                   PROVE  Given \cap (refused \cup {i}) = {}
      BY <1>1, <2>1 DEF RefusedIsNotForwardedOnWebSocket, RefusedIsNotForwarded, Given
    <3>2. refused = {} /\ (~ Growing(i) /\ sent[i] > 0 => calls[i].valid)
      BY <1>1, <3>1 DEF StreamInv, WebSocketOK
    <3>3. Growing(i)
      BY <1>7, <3>2
    <3>4. QED
      BY <3>2, <3>3 DEF StreamInv, OutcomeOK
  <2>7. QED
    BY <1>3, <2>1, <2>2, <2>3, <2>4, <2>5, <2>6 DEF StreamInv, TypeOK
<1>8. QED
  BY <1>6, <1>7

\* The call leaves the three collections together.
LEMMA StepArgsDone ==
    ASSUME StreamInv, NEW i \in Items, NEW whole \in 0..MaxArgs, ArgsDone(i, whole)
    PROVE  StreamInv'
<1> DEFINE buffered == Get(arg_buffers, i, 0)
           raw == IF buffered = 0 THEN whole ELSE buffered
           restore == Restores(Get(item_names, i, None))
<1>1. /\ Advances(i, {"new", "open"}, "argsDone") /\ Growing(i) /\ ended = "no"
      /\ sent[i] \in {0, whole} /\ sent' = [sent EXCEPT ![i] = whole]
      /\ arg_buffers' = Drop(arg_buffers, i) /\ arg_sizes' = Drop(arg_sizes, i)
      /\ arg_overflow' = arg_overflow \ {i}
      /\ UNCHANGED <<item_names, textVars>>
  BY DEF ArgsDone, Advances, Repeats, Growing
<1>2. raw = whole
  BY <1>1, ValueFacts DEF StreamInv, TypeOK, BufferOK, Get
<1>3. restore \in BOOLEAN /\ (restore => calls[i].name \in Trusted)
  BY StreamAssumption DEF StreamInv, BufferOK, Restores, Get
<1>4. \/ Deliver(i, whole, restore) /\ (whole > 0 => calls[i].valid)
      \/ Refuse(i) /\ (Growing(i) \/ (whole > 0 /\ ~ calls[i].valid))
  BY <1>1, <1>2 DEF ArgsDone, Forward, Accepted
<1>5. /\ delivered' \subseteq [item : Items, length : 0..MaxArgs, restored : BOOLEAN]
      /\ refused' \in SUBSET Items /\ reported' = reported
      /\ ended' \in {"no", "closed"}
      /\ sent' \in [Items -> 0..MaxArgs]
      /\ OutcomeOK' /\ WebSocketOK'
      /\ WholeArguments' /\ OnlyTrustedRestored' /\ RefusedIsNotForwardedOnWebSocket'
  <2> HIDE DEF restore
  <2>1. QED
    BY <1>1, <1>3, <1>4, CallEnds
<1>6. /\ progress' \in [Items -> {"new", "open", "argsDone", "over"}]
      /\ \A j \in Items : progress'[j] = IF j = i THEN "argsDone" ELSE progress[j]
      /\ transport' = transport /\ calls' = calls
  BY <1>1, AdvancesFacts DEF StreamInv
<1>7. /\ arg_buffers' \in PartialFunctions(Items, 0..Cap)
      /\ arg_sizes' \in PartialFunctions(Items, 0..(Cap + MaxPiece))
  BY <1>1, DropType DEF StreamInv, TypeOK
<1>8. /\ DOMAIN arg_sizes' = DOMAIN arg_sizes \ {i}
      /\ DOMAIN arg_buffers' = DOMAIN arg_buffers \ {i}
      /\ \A x \in DOMAIN arg_sizes : x # i => arg_sizes'[x] = arg_sizes[x]
      /\ \A x \in DOMAIN arg_buffers : x # i => arg_buffers'[x] = arg_buffers[x]
  BY <1>1 DEF Drop, Restrict
<1>9. SizesOK' /\ arg_overflow' \subseteq DOMAIN arg_sizes' \ DOMAIN arg_buffers'
  BY <1>1, <1>8 DEF StreamInv, TypeOK, SizesOK
<1>10. TypeOK'
  BY <1>1, <1>5, <1>6, <1>7, <1>9 DEF StreamInv, TypeOK, textVars
<1>11. BufferOK'
  <2>1. \A j \in Items \ {i} : sent'[j] = sent[j] /\ (Growing(j)' <=> Growing(j))
    BY <1>1, <1>6 DEF StreamInv, TypeOK, Growing
  <2>2. ~ Growing(i)'
    BY <1>6 DEF Growing
  <2>3. QED
    BY <1>1, <1>6, <1>8, <2>1, <2>2 DEF StreamInv, BufferOK
<1>12. TextConserved' /\ NoCallLost'
  BY <1>1, <1>5, TextsUntouched
<1>13. QED
  BY <1>5, <1>9, <1>10, <1>11, <1>12 DEF StreamInv

\* The names and the outcome change; what is buffered for the call may stay.
LEMMA StepItemDone ==
    ASSUME StreamInv, NEW i \in Items, NEW whole \in 0..MaxArgs, ItemDone(i, whole)
    PROVE  StreamInv'
<1> DEFINE restore == whole # 0 /\ Restores(calls[i].name)
<1>1. /\ Advances(i, {"new", "open", "argsDone"}, "over") /\ ended = "no"
      /\ sent[i] \in {0, whole} /\ sent' = [sent EXCEPT ![i] = whole]
      /\ ~ Growing(i) => whole = sent[i]
      /\ item_names' = Put(item_names, i, calls[i].name)
      /\ UNCHANGED <<argVars, textVars>>
  BY DEF ItemDone, Advances, Repeats, Growing
<1>2. restore \in BOOLEAN /\ (restore => calls[i].name \in Trusted)
  <2>1. restore \in BOOLEAN
    BY Zenon DEF Restores
  <2>2. QED
    BY <2>1 DEF Restores
<1>3. \/ Deliver(i, whole, restore) /\ (whole > 0 => calls[i].valid)
      \/ Refuse(i) /\ (Growing(i) \/ (whole > 0 /\ ~ calls[i].valid))
  <2>1. CASE whole = 0
    <3>1. restore = FALSE
      BY <2>1
    <3>2. Deliver(i, 0, FALSE)
      BY <2>1 DEF ItemDone
    <3>3. Deliver(i, whole, restore)
      BY <2>1, <3>1, <3>2, Zenon
    <3>4. QED
      BY <2>1, <3>3
  <2>2. CASE whole # 0
    <3>1. restore = Restores(calls[i].name)
      BY <2>2 DEF Restores
    <3>2. Forward(i, whole, Restores(calls[i].name))
      BY <2>2 DEF ItemDone
    <3>3. Forward(i, whole, restore)
      BY <3>1, <3>2, Zenon
    <3> HIDE DEF restore
    <3>4. whole > 0
      BY <2>2
    <3>5. QED
      BY <2>2, <3>3, <3>4 DEF Forward, Accepted
  <2>3. QED
    BY <2>1, <2>2
<1>4. /\ delivered' \subseteq [item : Items, length : 0..MaxArgs, restored : BOOLEAN]
      /\ refused' \in SUBSET Items /\ reported' = reported
      /\ ended' \in {"no", "closed"}
      /\ sent' \in [Items -> 0..MaxArgs]
      /\ OutcomeOK' /\ WebSocketOK'
      /\ WholeArguments' /\ OnlyTrustedRestored' /\ RefusedIsNotForwardedOnWebSocket'
  <2> HIDE DEF restore
  <2>1. QED
    BY <1>1, <1>2, <1>3, CallEnds
<1>5. /\ progress' \in [Items -> {"new", "open", "argsDone", "over"}]
      /\ \A j \in Items : progress'[j] = IF j = i THEN "over" ELSE progress[j]
      /\ transport' = transport /\ calls' = calls
  BY <1>1, AdvancesFacts DEF StreamInv
<1>6. item_names' \in PartialFunctions(Items, Names)
  <2>1. item_names \in PartialFunctions(Items, Names) /\ calls[i].name \in Names
    BY DEF StreamInv, TypeOK
  <2>2. QED
    BY <1>1, <2>1, PutType
<1>7. /\ DOMAIN item_names' = DOMAIN item_names \cup {i}
      /\ \A x \in DOMAIN item_names : x # i => item_names'[x] = item_names[x]
      /\ item_names'[i] = calls[i].name
  BY <1>1 DEF Put
<1>8. TypeOK' /\ SizesOK'
  BY <1>1, <1>4, <1>5, <1>6 DEF StreamInv, TypeOK, SizesOK, argVars, textVars
<1>9. BufferOK'
  <2>1. \A j \in Items \ {i} : sent'[j] = sent[j] /\ (Growing(j)' <=> Growing(j))
    BY <1>1, <1>5 DEF StreamInv, TypeOK, Growing
  <2>2. ~ Growing(i)'
    BY <1>5 DEF Growing
  <2>3. QED
    BY <1>1, <1>5, <1>7, <2>1, <2>2 DEF StreamInv, BufferOK, argVars
<1>10. TextConserved' /\ NoCallLost'
  BY <1>1, <1>4, TextsUntouched
<1>11. QED
  BY <1>4, <1>8, <1>9, <1>10 DEF StreamInv

\* What a response object repeats is whole, and of calls that are over.
LEMMA StepSnapshot ==
    ASSUME StreamInv, Snapshot
    PROVE  StreamInv'
<1> DEFINE Over == {j \in Items : progress[j] = "over"}
           repeated(j) == [item |-> j, length |-> sent[j], restored |-> FALSE]
<1>1. /\ ended = "no"
      /\ delivered' = delivered \cup {repeated(j) : j \in Over}
      /\ UNCHANGED <<transport, callVars, argVars, item_names, textVars, refused, reported, ended>>
  BY DEF Snapshot
<1>2. \A d \in delivered' : d \in delivered \/ \E j \in Over : d = repeated(j)
  BY <1>1
<1>3. \A j \in Over : /\ repeated(j).item = j /\ repeated(j).length = sent[j]
                     /\ ~ repeated(j).restored
                     /\ repeated(j) \in [item : Items, length : 0..MaxArgs, restored : BOOLEAN]
  BY DEF StreamInv, TypeOK
<1> HIDE DEF repeated
<1>4. TypeOK' /\ SizesOK' /\ BufferOK'
  BY <1>1, <1>2, <1>3 DEF StreamInv, TypeOK, SizesOK, BufferOK, Growing, callVars, argVars,
     textVars
<1>5. Given \subseteq Given' /\ Given' \subseteq Given \cup Over
  BY <1>1, <1>2, <1>3 DEF Given
<1>6. OutcomeOK' /\ WebSocketOK'
  BY <1>1, <1>5 DEF StreamInv, OutcomeOK, WebSocketOK, Growing, callVars
<1>7. WholeArguments' /\ OnlyTrustedRestored'
  BY <1>1, <1>2, <1>3 DEF StreamInv, WholeArguments, OnlyTrustedRestored, callVars
<1>8. RefusedIsNotForwardedOnWebSocket'
  BY <1>1 DEF StreamInv, WebSocketOK, RefusedIsNotForwardedOnWebSocket, RefusedIsNotForwarded
<1>9. TextConserved' /\ NoCallLost'
  BY <1>1, TextsUntouched
<1>10. QED
  BY <1>4, <1>6, <1>7, <1>8, <1>9 DEF StreamInv

-----------------------------------------------------------------------------
(* Texts, and the end.                                                     *)

\* A step that touches only texts leaves all that is said of calls.
LEMMA CallsUntouched ==
    ASSUME StreamInv, ended = "no",
           UNCHANGED <<transport, callVars, argVars, item_names, outcome>>
    PROVE  /\ SizesOK' /\ BufferOK' /\ OutcomeOK' /\ WebSocketOK'
           /\ WholeArguments' /\ OnlyTrustedRestored' /\ NoCallLost'
           /\ RefusedIsNotForwardedOnWebSocket'
<1>1. SizesOK' /\ BufferOK'
  BY DEF StreamInv, SizesOK, BufferOK, Growing, callVars, argVars
<1>2. OutcomeOK' /\ WebSocketOK'
  BY DEF StreamInv, OutcomeOK, WebSocketOK, Given, Growing, callVars, outcome
<1>3. WholeArguments' /\ OnlyTrustedRestored' /\ NoCallLost'
  BY DEF StreamInv, WholeArguments, OnlyTrustedRestored, NoCallLost, callVars, outcome
<1>4. RefusedIsNotForwardedOnWebSocket'
  BY DEF StreamInv, RefusedIsNotForwardedOnWebSocket, RefusedIsNotForwarded, outcome
<1>5. QED
  BY <1>1, <1>2, <1>3, <1>4

\* What is held of a text is known to be a length.
LEMMA HeldType ==
    ASSUME StreamInv, NEW b \in Blocks
    PROVE  /\ Held(b) \in 0..MaxCarry
           /\ got[b] \in 0..MaxArgs /\ shown[b] \in 0..MaxArgs
           /\ shown[b] + Held(b) = got[b]
<1>1. b \in DOMAIN carry => carry[b] \in 0..MaxCarry
  BY ValueFacts DEF StreamInv, TypeOK
<1>2. QED
  BY <1>1, StreamAssumption DEF StreamInv, TypeOK, TextConserved, Held, Get

\* A piece is shown, but for what is held back of it.
LEMMA StepTextDelta ==
    ASSUME StreamInv, NEW b \in Blocks, NEW n \in 1..MaxPiece, TextDelta(b, n)
    PROVE  StreamInv'
<1>1. /\ ended = "no" /\ got[b] + n <= MaxArgs /\ got' = [got EXCEPT ![b] = @ + n]
      /\ UNCHANGED <<transport, callVars, argVars, item_names, outcome>>
  BY DEF TextDelta
<1>2. PICK held \in 0..MaxCarry :
          /\ held <= Held(b) + n
          /\ carry' = Put(carry, b, held)
          /\ shown' = [shown EXCEPT ![b] = @ + Held(b) + n - held]
  BY DEF TextDelta
<1>3. carry' \in PartialFunctions(Blocks, 0..MaxCarry)
  <2>1. carry \in PartialFunctions(Blocks, 0..MaxCarry)
    BY DEF StreamInv, TypeOK
  <2>2. QED
    BY <1>2, <2>1, PutType
<1>4. /\ Held(b)' = held
      /\ \A c \in Blocks \ {b} : Held(c)' = Held(c)
  <2>1. DOMAIN carry' = DOMAIN carry \cup {b} /\ carry'[b] = held
    BY <1>2 DEF Put
  <2>2. \A c \in DOMAIN carry : c # b => carry'[c] = carry[c]
    BY <1>2 DEF Put
  <2>3. QED
    BY <2>1, <2>2 DEF Held, Get
<1>5. /\ Held(b) \in 0..MaxCarry /\ got[b] \in 0..MaxArgs /\ shown[b] \in 0..MaxArgs
      /\ shown[b] + Held(b) = got[b]
  BY HeldType
<1>6. shown[b] + Held(b) + n - held \in 0..MaxArgs /\ got[b] + n \in 0..MaxArgs
  BY <1>1, <1>2, <1>5, StreamAssumption
<1>7. got' \in [Blocks -> 0..MaxArgs] /\ shown' \in [Blocks -> 0..MaxArgs]
  BY <1>1, <1>2, <1>6 DEF StreamInv, TypeOK
<1>8. TypeOK'
  BY <1>1, <1>3, <1>7 DEF StreamInv, TypeOK, callVars, argVars, outcome
<1>9. \A c \in Blocks : shown'[c] + Held(c)' = got'[c]
  <2>1. shown'[b] + Held(b)' = got'[b]
    BY <1>1, <1>2, <1>4, <1>5 DEF StreamInv, TypeOK
  <2>2. \A c \in Blocks \ {b} : shown'[c] = shown[c] /\ got'[c] = got[c]
    BY <1>1, <1>2 DEF StreamInv, TypeOK
  <2>3. QED
    BY <1>4, <2>1, <2>2 DEF StreamInv, TextConserved
<1>10. TextConserved'
  BY <1>1, <1>9 DEF TextConserved, outcome
<1>11. QED
  BY <1>1, <1>8, <1>10, CallsUntouched DEF StreamInv

\* The rest is shown before the restorer is dropped.
LEMMA StepTextDone ==
    ASSUME StreamInv, NEW b \in Blocks, TextDone(b)
    PROVE  StreamInv'
<1>1. /\ ended = "no" /\ got' = got
      /\ carry' = Drop(carry, b) /\ shown' = [shown EXCEPT ![b] = @ + Held(b)]
      /\ UNCHANGED <<transport, callVars, argVars, item_names, outcome>>
  BY DEF TextDone
<1>2. carry' \in PartialFunctions(Blocks, 0..MaxCarry)
  <2>1. carry \in PartialFunctions(Blocks, 0..MaxCarry)
    BY DEF StreamInv, TypeOK
  <2>2. QED
    BY <1>1, <2>1, DropType
<1>3. /\ Held(b)' = 0
      /\ \A c \in Blocks \ {b} : Held(c)' = Held(c)
  <2>1. DOMAIN carry' = DOMAIN carry \ {b}
    BY <1>1 DEF Drop, Restrict
  <2>2. \A c \in DOMAIN carry : c # b => carry'[c] = carry[c]
    BY <1>1 DEF Drop, Restrict
  <2>3. QED
    BY <2>1, <2>2 DEF Held, Get
<1>4. /\ Held(b) \in 0..MaxCarry /\ got[b] \in 0..MaxArgs /\ shown[b] \in 0..MaxArgs
      /\ shown[b] + Held(b) = got[b]
  BY HeldType
<1>5. shown' \in [Blocks -> 0..MaxArgs]
  BY <1>1, <1>4 DEF StreamInv, TypeOK
<1>6. TypeOK'
  BY <1>1, <1>2, <1>5 DEF StreamInv, TypeOK, callVars, argVars, outcome
<1>7. \A c \in Blocks : shown'[c] + Held(c)' = got'[c]
  <2>1. shown'[b] + Held(b)' = got'[b]
    BY <1>1, <1>3, <1>4 DEF StreamInv, TypeOK
  <2>2. \A c \in Blocks \ {b} : shown'[c] = shown[c]
    BY <1>1 DEF StreamInv, TypeOK
  <2>3. QED
    BY <1>1, <1>3, <2>1, <2>2 DEF StreamInv, TextConserved
<1>8. TextConserved'
  BY <1>1, <1>7 DEF TextConserved, outcome
<1>9. QED
  BY <1>1, <1>6, <1>8, CallsUntouched DEF StreamInv

\* All that is held is shown, and every call that is still growing is counted.
LEMMA StepFinish ==
    ASSUME StreamInv, Finish
    PROVE  StreamInv'
<1>1. /\ ended = "no" /\ ended' = "finished"
      /\ carry' = <<>> /\ got' = got
      /\ shown' = [b \in Blocks |-> shown[b] + Held(b)]
      /\ reported' = DOMAIN arg_buffers \cup arg_overflow
      /\ arg_buffers' = <<>> /\ arg_sizes' = <<>> /\ arg_overflow' = {}
      /\ UNCHANGED <<transport, callVars, item_names, delivered, refused>>
  BY DEF Finish, FlushTexts
<1>2. \A b \in Blocks : got[b] \in 0..MaxArgs /\ shown'[b] = got[b]
  BY <1>1, HeldType
<1>3. shown' = got /\ shown' \in [Blocks -> 0..MaxArgs]
  BY <1>1, <1>2 DEF StreamInv, TypeOK
<1>4. reported' \in SUBSET Items
  BY <1>1, ValueFacts DEF StreamInv, TypeOK, SizesOK
<1>5. /\ arg_buffers' \in PartialFunctions(Items, 0..Cap) /\ DOMAIN arg_buffers' = {}
      /\ arg_sizes' \in PartialFunctions(Items, 0..(Cap + MaxPiece)) /\ DOMAIN arg_sizes' = {}
      /\ carry' \in PartialFunctions(Blocks, 0..MaxCarry) /\ DOMAIN carry' = {}
  BY <1>1, EmptyDict
<1>6. TypeOK' /\ SizesOK'
  BY <1>1, <1>3, <1>4, <1>5 DEF StreamInv, TypeOK, SizesOK, callVars
<1>7. BufferOK' /\ OutcomeOK' /\ WebSocketOK'
  BY <1>1, <1>5 DEF StreamInv, BufferOK, OutcomeOK, WebSocketOK, Given, Growing, callVars
<1>8. WholeArguments' /\ OnlyTrustedRestored' /\ RefusedIsNotForwardedOnWebSocket'
  BY <1>1 DEF StreamInv, WholeArguments, OnlyTrustedRestored,
     RefusedIsNotForwardedOnWebSocket, RefusedIsNotForwarded, callVars
<1>9. TextConserved'
  <2>1. \A b \in Blocks : Held(b)' = 0
    BY <1>5 DEF Held, Get
  <2>2. QED
    BY <1>1, <1>2, <1>3, <2>1 DEF TextConserved
<1>10. NoCallLost'
  <2>1. \A i \in Items : sent[i] > 0 => i \in Given \cup refused \cup reported'
    BY <1>1 DEF StreamInv, BufferOK, OutcomeOK, Growing
  <2>2. QED
    BY <1>1, <2>1 DEF NoCallLost, Given, callVars
<1>11. QED
  BY <1>6, <1>7, <1>8, <1>9, <1>10 DEF StreamInv

LEMMA StepBreak ==
    ASSUME StreamInv, Break
    PROVE  StreamInv'
<1>1. /\ ended = "no" /\ ended' = "broken"
      /\ UNCHANGED <<transport, callVars, argVars, item_names, textVars, delivered, refused,
                     reported>>
  BY DEF Break
<1>2. TypeOK' /\ SizesOK' /\ BufferOK'
  BY <1>1 DEF StreamInv, TypeOK, SizesOK, BufferOK, Growing, callVars, argVars, textVars
<1>3. OutcomeOK' /\ WebSocketOK'
  BY <1>1 DEF StreamInv, OutcomeOK, WebSocketOK, Given, Growing, callVars
<1>4. WholeArguments' /\ OnlyTrustedRestored' /\ RefusedIsNotForwardedOnWebSocket'
  BY <1>1 DEF StreamInv, WholeArguments, OnlyTrustedRestored,
     RefusedIsNotForwardedOnWebSocket, RefusedIsNotForwarded, callVars
<1>5. TextConserved' /\ NoCallLost'
  BY <1>1, TextsUntouched
<1>6. QED
  BY <1>2, <1>3, <1>4, <1>5 DEF StreamInv

LEMMA StutterStreamInv ==
    ASSUME StreamInv, UNCHANGED vars
    PROVE  StreamInv'
<1>1. TypeOK' /\ SizesOK' /\ BufferOK'
  BY DEF vars, StreamInv, TypeOK, SizesOK, BufferOK, Growing, callVars, argVars, textVars,
     outcome
<1>2. OutcomeOK' /\ WebSocketOK'
  BY DEF vars, StreamInv, OutcomeOK, WebSocketOK, Given, Growing, callVars, outcome
<1>3. WholeArguments' /\ OnlyTrustedRestored' /\ RefusedIsNotForwardedOnWebSocket'
  BY DEF vars, StreamInv, WholeArguments, OnlyTrustedRestored,
     RefusedIsNotForwardedOnWebSocket, RefusedIsNotForwarded, callVars, outcome
<1>4. TextConserved' /\ NoCallLost'
  BY DEF vars, StreamInv, TextConserved, NoCallLost, Held, Get, callVars, textVars, outcome
<1>5. QED
  BY <1>1, <1>2, <1>3, <1>4 DEF StreamInv

LEMMA NextStreamInv == StreamInv /\ [Next]_vars => StreamInv'
<1> SUFFICES ASSUME StreamInv, [Next]_vars PROVE StreamInv'
  OBVIOUS
<1>1. ASSUME NEW i \in Items, CallEvent(i) PROVE StreamInv'
  <2>1. CASE ItemAdded(i)
    BY <2>1, StepItemAdded
  <2>2. CASE \E n \in 0..MaxPiece : ArgsDelta(i, n)
    BY <2>2, StepArgsDelta
  <2>3. CASE \E whole \in 0..MaxArgs : ArgsDone(i, whole)
    BY <2>3, StepArgsDone
  <2>4. CASE \E whole \in 0..MaxArgs : ItemDone(i, whole)
    BY <2>4, StepItemDone
  <2>5. QED
    BY <1>1, <2>1, <2>2, <2>3, <2>4 DEF CallEvent
<1>2. CASE Snapshot
  BY <1>2, StepSnapshot
<1>3. ASSUME NEW b \in Blocks, TextDone(b) PROVE StreamInv'
  BY <1>3, StepTextDone
<1>4. ASSUME NEW b \in Blocks, NEW n \in 1..MaxPiece, TextDelta(b, n) PROVE StreamInv'
  BY <1>4, StepTextDelta
<1>5. CASE Finish
  BY <1>5, StepFinish
<1>6. CASE Break
  BY <1>6, StepBreak
<1>7. CASE UNCHANGED vars
  BY <1>7, StutterStreamInv
<1>8. CASE \E i \in Items : CallEvent(i)
  BY <1>1, <1>8
<1>9. CASE \E b \in Blocks : TextDone(b) \/ \E n \in 1..MaxPiece : TextDelta(b, n)
  <2>1. PICK b \in Blocks : TextDone(b) \/ \E n \in 1..MaxPiece : TextDelta(b, n)
    BY <1>9
  <2>2. CASE TextDone(b)
    BY <1>3, <2>2
  <2>3. CASE \E n \in 1..MaxPiece : TextDelta(b, n)
    BY <1>4, <2>3
  <2>4. QED
    BY <2>1, <2>2, <2>3
<1>10. QED
  BY <1>2, <1>5, <1>6, <1>7, <1>8, <1>9 DEF Next

-----------------------------------------------------------------------------
(* Theorems.                                                               *)

\* The inductive invariant holds of every stream that ResponsesStreamProcessor handles.
THEOREM SpecStreamInv == Spec => []StreamInv
<1>1. QED
  BY InitStreamInv, NextStreamInv, PTL DEF Spec

\* The collections of the processor keep to their types, the buffer of a call to the cap.
THEOREM StreamTypeCorrect == Spec => []TypeOK
<1>1. StreamInv => TypeOK
  BY DEF StreamInv
<1>2. QED
  BY <1>1, SpecStreamInv, PTL

\* _finish_args and _safe_args hand out all of a call's arguments or none.
THEOREM ArgumentsAreWhole == Spec => []WholeArguments
<1>1. StreamInv => WholeArguments
  BY DEF StreamInv
<1>2. QED
  BY <1>1, SpecStreamInv, PTL

\* Originals get into the arguments of a call only if its tool is trusted.
THEOREM OnlyTrustedToolsRestored == Spec => []OnlyTrustedRestored
<1>1. StreamInv => OnlyTrustedRestored
  BY DEF StreamInv
<1>2. QED
  BY <1>1, SpecStreamInv, PTL

\* finish() tells of every call that was begun and that the client has not got.
THEOREM NoCallIsLost == Spec => []NoCallLost
<1>1. StreamInv => NoCallLost
  BY DEF StreamInv
<1>2. QED
  BY <1>1, SpecStreamInv, PTL

\* Every character of a text is shown once or held back, and shown when the stream ends.
THEOREM TextIsConserved == Spec => []TextConserved
<1>1. StreamInv => TextConserved
  BY DEF StreamInv
<1>2. QED
  BY <1>1, SpecStreamInv, PTL

\* On a WebSocket the client never gets a call it was told is not forwarded.
THEOREM WebSocketRefusalStands == Spec => []RefusedIsNotForwardedOnWebSocket
<1>1. StreamInv => RefusedIsNotForwardedOnWebSocket
  BY DEF StreamInv
<1>2. QED
  BY <1>1, SpecStreamInv, PTL

-----------------------------------------------------------------------------
(* AnthropicStream.                                                        *)

Delivered == {d.block : d \in block_delivered}
Settled == Delivered \cup block_refused

\* Blocks that a flush would report
Pending == DOMAIN json_buffers \cup json_overflow

ToolTypes ==
    /\ inputs \in [ToolBlocks -> [name : Names, valid : BOOLEAN]]
    /\ stopped \subseteq ToolBlocks \cup TextBlocks
    /\ tool_sent \in [ToolBlocks -> 0..MaxArgs]
    /\ json_blocks \subseteq ToolBlocks
    /\ json_buffers \in PartialFunctions(ToolBlocks, 0..Cap)
    /\ json_sizes \in PartialFunctions(ToolBlocks, 0..(Cap + MaxPiece))
    /\ json_overflow \subseteq DOMAIN json_sizes \ DOMAIN json_buffers
    /\ block_names \in PartialFunctions(ToolBlocks, Names)
    /\ block_delivered \subseteq [block : ToolBlocks, length : 0..MaxArgs, restored : BOOLEAN]
    /\ block_refused \subseteq ToolBlocks
    /\ block_reported \subseteq ToolBlocks
    /\ block_ended \in {"no", "finished", "broken"}

\* A buffer has everything that was sent for its block, its size is known, and the name that is
\* remembered is the right one.  While the stream goes on, what was sent is pending or settled.
BuffersOK ==
    /\ DOMAIN json_sizes \subseteq Pending
    /\ \A b \in ToolBlocks :
        /\ b \in DOMAIN json_buffers =>
              json_buffers[b] = tool_sent[b] /\ Get(json_sizes, b, 0) = tool_sent[b]
        /\ b \in json_overflow => tool_sent[b] > 0
        /\ b \in DOMAIN block_names => block_names[b] = inputs[b].name
        /\ block_ended = "no" /\ tool_sent[b] > 0 => b \in Pending \cup Settled

\* A block is settled once, when it stops, and is not pending from then on.
FatesOK ==
    /\ Settled \subseteq stopped
    /\ Settled \cap Pending = {}
    /\ Delivered \cap block_refused = {}
    /\ block_ended = "no" => block_reported = {}

ToolInv == ToolTypes /\ BuffersOK /\ FatesOK /\ InputsWholeAndTrusted

TextInv ==
    /\ block_carry \in PartialFunctions(TextBlocks, 0..MaxCarry)
    /\ block_got \in [TextBlocks -> 0..MaxArgs]
    /\ block_shown \in [TextBlocks -> 0..MaxArgs]
    /\ \A b \in TextBlocks :
          /\ block_shown[b] + Anthropic!Held(b) = block_got[b]
          /\ b \in stopped \/ block_ended = "finished" => b \notin DOMAIN block_carry

BlocksInv == ToolInv /\ TextInv

\* The dicts of both modules are the same.
LEMMA SameDicts ==
    \A f, k, v : /\ Anthropic!Get(f, k, v) = Get(f, k, v)
                 /\ Anthropic!Put(f, k, v) = Put(f, k, v)
                 /\ Anthropic!Drop(f, k) = Drop(f, k)
BY DEF Anthropic!Get, Get, Anthropic!Put, Put, Anthropic!Drop, Drop, Anthropic!Restrict, Restrict

LEMMA InitBlocksInv == Anthropic!Init => BlocksInv
<1> SUFFICES ASSUME Anthropic!Init PROVE BlocksInv
  OBVIOUS
<1>1. ToolTypes
  BY EmptyDict, StreamAssumption DEF Anthropic!Init, ToolTypes
<1>2. BuffersOK /\ FatesOK /\ InputsWholeAndTrusted
  BY EmptyDict DEF Anthropic!Init, BuffersOK, FatesOK, Delivered, Settled, Pending,
                   InputsWholeAndTrusted, Anthropic!InputsWholeAndTrusted
<1>3. TextInv
  <2>1. /\ block_carry \in PartialFunctions(TextBlocks, 0..MaxCarry) /\ DOMAIN block_carry = {}
        /\ block_got = [b \in TextBlocks |-> 0] /\ block_shown = [b \in TextBlocks |-> 0]
    BY EmptyDict DEF Anthropic!Init
  <2>2. 0 \in 0..MaxArgs
    BY StreamAssumption
  <2>3. QED
    BY <2>1, <2>2, SameDicts DEF TextInv, Anthropic!Held, Get
<1>4. QED
  BY <1>1, <1>2, <1>3 DEF BlocksInv, ToolInv

-----------------------------------------------------------------------------
(* What a step of one kind of block leaves to the other.                   *)

LEMMA TextsStay ==
    ASSUME TextInv, UNCHANGED <<Anthropic!textVars>>, block_ended' \in {block_ended, "broken"},
           \A b \in TextBlocks : b \in stopped' => b \in stopped
    PROVE  TextInv'
BY DEF TextInv, Anthropic!textVars, Anthropic!Held, Get

LEMMA ToolsStay ==
    ASSUME ToolInv, UNCHANGED <<inputs, tool_sent, Anthropic!jsonVars, Anthropic!outcome>>,
           block_ended' \in {block_ended, "broken"},
           stopped \subseteq stopped', stopped' \subseteq ToolBlocks \cup TextBlocks
    PROVE  ToolInv'
<1>1. UNCHANGED <<inputs, tool_sent, json_blocks, json_buffers, json_sizes, json_overflow,
                  block_names, block_delivered, block_refused, block_reported>>
  BY DEF Anthropic!jsonVars, Anthropic!outcome
<1>2. ToolTypes'
  BY <1>1 DEF ToolInv, ToolTypes
<1>3. BuffersOK'
  BY <1>1 DEF ToolInv, ToolTypes, BuffersOK, Pending, Settled, Delivered, Get
<1>4. FatesOK'
  BY <1>1 DEF ToolInv, ToolTypes, FatesOK, Pending, Settled, Delivered
<1>5. InputsWholeAndTrusted'
  BY <1>1 DEF ToolInv, InputsWholeAndTrusted, Anthropic!InputsWholeAndTrusted
<1>6. QED
  BY <1>2, <1>3, <1>4, <1>5 DEF ToolInv

-----------------------------------------------------------------------------
(* The steps of a tool block.                                              *)

LEMMA StartToolStep ==
    ASSUME BlocksInv, NEW b \in ToolBlocks, Anthropic!StartTool(b)
    PROVE  BlocksInv'
<1>1. /\ block_ended = "no" /\ b \notin stopped /\ tool_sent[b] = 0
      /\ json_blocks' = json_blocks \cup {b}
      /\ json_buffers' = Put(json_buffers, b, 0)
      /\ block_names' \in {block_names, Put(block_names, b, inputs[b].name)}
      /\ UNCHANGED <<inputs, stopped, tool_sent, json_sizes, json_overflow, block_delivered,
                     block_refused, block_reported, block_ended>>
      /\ UNCHANGED <<Anthropic!textVars>>
  BY SameDicts DEF Anthropic!StartTool, Anthropic!Arrives, Anthropic!upstreamVars, Anthropic!outcome
<1>2. /\ DOMAIN json_buffers' = DOMAIN json_buffers \cup {b} /\ json_buffers'[b] = 0
      /\ \A c \in DOMAIN json_buffers : c # b => json_buffers'[c] = json_buffers[c]
  BY <1>1 DEF Put
<1>3. b \notin json_overflow
  BY <1>1 DEF BlocksInv, ToolInv, BuffersOK
<1>4. Get(json_sizes, b, 0) = 0
  BY <1>1, <1>3 DEF BlocksInv, ToolInv, BuffersOK, Pending, Get
<1>5. \A c \in DOMAIN block_names' : block_names'[c] = inputs[c].name
  BY <1>1 DEF BlocksInv, ToolInv, ToolTypes, BuffersOK, Put, PartialFunctions
<1>6. ToolTypes'
  <2>1. json_buffers' \in PartialFunctions(ToolBlocks, 0..Cap)
    BY <1>1, PutType, StreamAssumption DEF BlocksInv, ToolInv, ToolTypes
  <2>2. block_names' \in PartialFunctions(ToolBlocks, Names)
    BY <1>1, PutType DEF BlocksInv, ToolInv, ToolTypes
  <2>3. QED
    BY <1>1, <1>2, <1>3, <2>1, <2>2 DEF BlocksInv, ToolInv, ToolTypes
<1>7. BuffersOK'
  BY <1>1, <1>2, <1>3, <1>4, <1>5 DEF BlocksInv, ToolInv, BuffersOK, Pending, Settled, Delivered, Get
<1>8. FatesOK'
  BY <1>1, <1>2 DEF BlocksInv, ToolInv, FatesOK, Pending, Settled, Delivered
<1>9. InputsWholeAndTrusted'
  BY <1>1 DEF BlocksInv, ToolInv, InputsWholeAndTrusted, Anthropic!InputsWholeAndTrusted
<1>10. QED
  BY <1>1, <1>6, <1>7, <1>8, <1>9, TextsStay DEF BlocksInv, ToolInv

LEMMA InputDeltaStep ==
    ASSUME BlocksInv, NEW b \in ToolBlocks, NEW n \in 0..MaxPiece, Anthropic!InputDelta(b, n)
    PROVE  BlocksInv'
<1> DEFINE size == Get(json_sizes, b, 0) + n
           buffer == Get(json_buffers, b, 0) + n
<1>1. /\ block_ended = "no" /\ b \notin stopped /\ tool_sent[b] + n <= MaxArgs
      /\ tool_sent' = [tool_sent EXCEPT ![b] = @ + n]
      /\ UNCHANGED <<inputs, stopped, json_blocks, block_names, block_delivered, block_refused,
                     block_reported, block_ended>>
      /\ UNCHANGED <<Anthropic!textVars>>
  BY DEF Anthropic!InputDelta, Anthropic!Arrives, Anthropic!outcome
<1>2. /\ tool_sent' \in [ToolBlocks -> 0..MaxArgs] /\ tool_sent'[b] = tool_sent[b] + n
      /\ \A c \in ToolBlocks \ {b} : tool_sent'[c] = tool_sent[c]
      /\ tool_sent[b] \in Nat
  BY <1>1, StreamAssumption DEF BlocksInv, ToolInv, ToolTypes
<1>3. b \notin Settled /\ b \notin Delivered
  BY <1>1 DEF BlocksInv, ToolInv, FatesOK, Settled
<1>4. /\ json_buffers \in PartialFunctions(ToolBlocks, 0..Cap)
      /\ json_sizes \in PartialFunctions(ToolBlocks, 0..(Cap + MaxPiece))
      /\ DOMAIN json_buffers \subseteq ToolBlocks /\ DOMAIN json_sizes \subseteq ToolBlocks
      /\ \A c \in DOMAIN json_buffers : json_buffers[c] \in 0..Cap
      /\ json_overflow \subseteq DOMAIN json_sizes \ DOMAIN json_buffers
      /\ DOMAIN json_sizes \subseteq DOMAIN json_buffers \cup json_overflow
  <2>1. ToolTypes /\ DOMAIN json_sizes \subseteq DOMAIN json_buffers \cup json_overflow
    BY DEF BlocksInv, ToolInv, BuffersOK, Pending
  <2>2. QED
    BY <2>1, ValueFacts DEF ToolTypes
<1>5. b \notin json_overflow =>
        /\ size = tool_sent[b] + n /\ buffer = tool_sent[b] + n
        /\ size \in 0..(Cap + MaxPiece)
  <2>1. CASE b \in DOMAIN json_buffers
    BY <1>2, <1>4, <2>1, StreamAssumption DEF BlocksInv, ToolInv, BuffersOK, Get
  <2>2. CASE b \notin DOMAIN json_buffers
    BY <1>1, <1>2, <1>3, <1>4, <2>2, StreamAssumption DEF BlocksInv, ToolInv, BuffersOK, Pending, Get
  <2>3. QED
    BY <2>1, <2>2
<1>6. /\ json_buffers' \in PartialFunctions(ToolBlocks, 0..Cap)
      /\ json_sizes' \in PartialFunctions(ToolBlocks, 0..(Cap + MaxPiece))
      /\ json_overflow' \subseteq DOMAIN json_sizes' \ DOMAIN json_buffers'
      /\ DOMAIN json_sizes' \subseteq DOMAIN json_buffers' \cup json_overflow'
      /\ b \in DOMAIN json_buffers' \cup json_overflow'
      /\ b \in DOMAIN json_buffers' =>
            json_buffers'[b] = tool_sent'[b] /\ Get(json_sizes', b, 0) = tool_sent'[b]
      /\ b \in json_overflow' => tool_sent'[b] > 0
      /\ DOMAIN json_buffers' \ {b} = DOMAIN json_buffers \ {b}
      /\ DOMAIN json_sizes' \ {b} = DOMAIN json_sizes \ {b}
      /\ json_overflow' \ {b} = json_overflow \ {b}
      /\ \A c \in DOMAIN json_buffers' : c # b => json_buffers'[c] = json_buffers[c]
      /\ \A c \in DOMAIN json_sizes' : c # b => json_sizes'[c] = json_sizes[c]
  <2>1. CASE b \in json_overflow
    <3>1. UNCHANGED <<json_buffers, json_sizes, json_overflow>>
      BY <2>1 DEF Anthropic!InputDelta
    <3>2. tool_sent[b] > 0
      BY <2>1 DEF BlocksInv, ToolInv, BuffersOK
    <3>3. QED
      BY <1>2, <1>4, <2>1, <3>1, <3>2
  <2>2. CASE b \notin json_overflow /\ size > Cap
    <3>1. /\ json_sizes' = Put(json_sizes, b, size)
          /\ json_overflow' = json_overflow \cup {b}
          /\ json_buffers' = Drop(json_buffers, b)
      BY <2>2, SameDicts DEF Anthropic!InputDelta
    <3>2. /\ json_sizes' \in PartialFunctions(ToolBlocks, 0..(Cap + MaxPiece))
          /\ json_buffers' \in PartialFunctions(ToolBlocks, 0..Cap)
      BY <1>4, <1>5, <2>2, <3>1, PutType, DropType
    <3>3. /\ DOMAIN json_sizes' = DOMAIN json_sizes \cup {b}
          /\ \A c \in DOMAIN json_sizes : c # b => json_sizes'[c] = json_sizes[c]
      BY <3>1 DEF Put
    <3>4. /\ DOMAIN json_buffers' = DOMAIN json_buffers \ {b}
          /\ \A c \in DOMAIN json_buffers : c # b => json_buffers'[c] = json_buffers[c]
      BY <3>1 DEF Drop, Restrict
    <3>5. tool_sent'[b] > 0
      BY <1>2, <1>5, <2>2, StreamAssumption
    <3> HIDE DEF size
    <3>6. QED
      BY <1>4, <3>1, <3>2, <3>3, <3>4, <3>5
  <2>3. CASE b \notin json_overflow /\ ~ (size > Cap)
    <3>1. /\ json_sizes' = Put(json_sizes, b, size)
          /\ json_buffers' = Put(json_buffers, b, buffer)
          /\ json_overflow' = json_overflow
      BY <2>3, SameDicts DEF Anthropic!InputDelta
    <3>2. size \in 0..Cap /\ buffer \in 0..Cap
      BY <1>5, <2>3, StreamAssumption
    <3>3. /\ json_sizes' \in PartialFunctions(ToolBlocks, 0..(Cap + MaxPiece))
          /\ json_buffers' \in PartialFunctions(ToolBlocks, 0..Cap)
      BY <1>4, <1>5, <2>3, <3>1, <3>2, PutType
    <3>4. /\ DOMAIN json_sizes' = DOMAIN json_sizes \cup {b} /\ json_sizes'[b] = size
          /\ \A c \in DOMAIN json_sizes : c # b => json_sizes'[c] = json_sizes[c]
      BY <3>1 DEF Put
    <3>5. /\ DOMAIN json_buffers' = DOMAIN json_buffers \cup {b} /\ json_buffers'[b] = buffer
          /\ \A c \in DOMAIN json_buffers : c # b => json_buffers'[c] = json_buffers[c]
      BY <3>1 DEF Put
    <3>6. json_buffers'[b] = tool_sent'[b] /\ Get(json_sizes', b, 0) = tool_sent'[b]
      BY <1>2, <1>5, <2>3, <3>4, <3>5 DEF Get
    <3> HIDE DEF size, buffer
    <3>7. QED
      BY <1>4, <2>3, <3>1, <3>3, <3>4, <3>5, <3>6
  <2>4. QED
    BY <2>1, <2>2, <2>3
<1> HIDE DEF size, buffer
<1>7. ToolTypes'
  BY <1>1, <1>2, <1>6 DEF BlocksInv, ToolInv, ToolTypes
<1>8. \A c \in ToolBlocks \ {b} :
         /\ c \in DOMAIN json_buffers' <=> c \in DOMAIN json_buffers
         /\ c \in DOMAIN json_sizes' <=> c \in DOMAIN json_sizes
         /\ c \in json_overflow' <=> c \in json_overflow
         /\ Get(json_sizes', c, 0) = Get(json_sizes, c, 0)
  BY <1>6 DEF Get
<1>9. BuffersOK'
  BY <1>1, <1>2, <1>6, <1>8 DEF BlocksInv, ToolInv, BuffersOK, Pending, Settled, Delivered
<1>10. FatesOK'
  BY <1>1, <1>3, <1>6 DEF BlocksInv, ToolInv, FatesOK, Pending, Settled, Delivered
<1>11. InputsWholeAndTrusted'
  <2>1. \A d \in block_delivered : d.block \in ToolBlocks \ {b}
    BY <1>3 DEF BlocksInv, ToolInv, ToolTypes, Delivered
  <2>2. QED
    BY <1>1, <1>2, <2>1 DEF BlocksInv, ToolInv, InputsWholeAndTrusted, Anthropic!InputsWholeAndTrusted
<1>12. QED
  BY <1>1, <1>7, <1>9, <1>10, <1>11, TextsStay DEF BlocksInv, ToolInv

LEMMA StopToolStep ==
    ASSUME BlocksInv, NEW b \in ToolBlocks, Anthropic!StopTool(b)
    PROVE  BlocksInv'
<1> DEFINE raw == Get(json_buffers, b, 0)
           restore == Anthropic!Restores(Get(block_names, b, None))
           given == [block |-> b, length |-> raw, restored |-> restore]
<1>1. /\ block_ended = "no" /\ b \notin stopped /\ stopped' = stopped \cup {b}
      /\ json_blocks' = json_blocks \ {b}
      /\ json_buffers' = Drop(json_buffers, b) /\ json_sizes' = Drop(json_sizes, b)
      /\ json_overflow' = json_overflow \ {b} /\ block_names' = Drop(block_names, b)
      /\ UNCHANGED <<inputs, tool_sent, block_reported, block_ended>>
      /\ UNCHANGED <<Anthropic!textVars>>
  BY SameDicts DEF Anthropic!StopTool, Anthropic!Arrives, Anthropic!Forward, Anthropic!outcome
<1>2. \/ /\ b \notin json_overflow /\ raw > 0
         /\ block_delivered' = block_delivered \cup {given} /\ block_refused' = block_refused
      \/ /\ b \in json_overflow \/ raw > 0
         /\ block_refused' = block_refused \cup {b} /\ block_delivered' = block_delivered
      \/ /\ b \notin json_overflow /\ ~ (raw > 0)
         /\ UNCHANGED <<block_delivered, block_refused>>
  BY SameDicts DEF Anthropic!StopTool, Anthropic!Forward, Anthropic!outcome
<1>3. /\ ToolTypes
      /\ json_buffers \in PartialFunctions(ToolBlocks, 0..Cap)
      /\ json_sizes \in PartialFunctions(ToolBlocks, 0..(Cap + MaxPiece))
      /\ block_names \in PartialFunctions(ToolBlocks, Names)
  BY DEF BlocksInv, ToolInv, ToolTypes
<1>4. /\ DOMAIN json_buffers' = DOMAIN json_buffers \ {b}
      /\ DOMAIN json_sizes' = DOMAIN json_sizes \ {b}
      /\ DOMAIN block_names' = DOMAIN block_names \ {b}
      /\ \A c \in DOMAIN json_buffers : c # b => json_buffers'[c] = json_buffers[c]
      /\ \A c \in DOMAIN json_sizes : c # b => json_sizes'[c] = json_sizes[c]
      /\ \A c \in DOMAIN block_names : c # b => block_names'[c] = block_names[c]
  BY <1>1 DEF Drop, Restrict
<1>5. b \notin Settled /\ b \notin Delivered /\ b \notin block_refused
  BY <1>1 DEF BlocksInv, ToolInv, FatesOK, Settled
<1>6. raw > 0 => raw = tool_sent[b]
  BY DEF BlocksInv, ToolInv, BuffersOK, Get
<1>7. restore \in BOOLEAN /\ (restore => inputs[b].name \in Trusted)
  BY StreamAssumption DEF BlocksInv, ToolInv, BuffersOK, Get, Anthropic!Restores
<1>8. raw \in 0..MaxArgs \/ ~ (raw > 0)
  BY <1>3, <1>6 DEF ToolTypes
<1>9. b \notin json_overflow /\ ~ (raw > 0) => tool_sent[b] = 0
  <2> SUFFICES ASSUME b \notin json_overflow, ~ (raw > 0), tool_sent[b] > 0 PROVE FALSE
    BY <1>3 DEF ToolTypes
  <2>1. b \in DOMAIN json_buffers /\ json_buffers[b] = tool_sent[b]
    BY <1>1, <1>5 DEF BlocksInv, ToolInv, BuffersOK, Pending
  <2>2. QED
    BY <2>1 DEF Get
<1> HIDE DEF raw, restore
<1>10. /\ Delivered' \in {Delivered, Delivered \cup {b}}
       /\ block_refused' \in {block_refused, block_refused \cup {b}}
       /\ Delivered' = Delivered \/ block_refused' = block_refused
       /\ Settled' \in {Settled, Settled \cup {b}}
       /\ tool_sent[b] > 0 => b \in Settled'
  <2>1. CASE block_delivered' = block_delivered \cup {given} /\ block_refused' = block_refused
    <3>1. given.block = b
      OBVIOUS
    <3> HIDE DEF given
    <3>2. Delivered' = Delivered \cup {b}
      BY <2>1, <3>1 DEF Delivered
    <3>3. QED
      BY <2>1, <3>2 DEF Settled
  <2>2. CASE block_refused' = block_refused \cup {b} /\ block_delivered' = block_delivered
    <3>1. Delivered' = Delivered
      BY <2>2 DEF Delivered
    <3>2. QED
      BY <2>2, <3>1 DEF Settled
  <2>3. CASE /\ b \notin json_overflow /\ ~ (raw > 0)
             /\ UNCHANGED <<block_delivered, block_refused>>
    <3>1. Delivered' = Delivered
      BY <2>3 DEF Delivered
    <3>2. QED
      BY <1>9, <2>3, <3>1 DEF Settled
  <2>4. QED
    BY <1>2, <2>1, <2>2, <2>3
<1>11. ToolTypes'
  <2>1. /\ json_buffers' \in PartialFunctions(ToolBlocks, 0..Cap)
        /\ json_sizes' \in PartialFunctions(ToolBlocks, 0..(Cap + MaxPiece))
        /\ block_names' \in PartialFunctions(ToolBlocks, Names)
    BY <1>1, <1>3, DropType
  <2>2. block_delivered' \subseteq [block : ToolBlocks, length : 0..MaxArgs, restored : BOOLEAN]
    BY <1>2, <1>3, <1>7, <1>8 DEF ToolTypes
  <2>3. json_overflow' \subseteq DOMAIN json_sizes' \ DOMAIN json_buffers'
    BY <1>1, <1>3, <1>4 DEF ToolTypes
  <2>4. QED
    BY <1>1, <1>2, <1>3, <2>1, <2>2, <2>3 DEF ToolTypes
<1>12. BuffersOK'
  <2>1. \A c \in ToolBlocks \ {b} :
           /\ c \in Pending' <=> c \in Pending
           /\ c \in Settled => c \in Settled'
           /\ Get(json_sizes', c, 0) = Get(json_sizes, c, 0)
    BY <1>1, <1>4, <1>10 DEF Pending, Get
  <2>2. DOMAIN json_sizes' \subseteq Pending'
    BY <1>1, <1>4 DEF BlocksInv, ToolInv, BuffersOK, Pending
  <2>3. QED
    BY <1>1, <1>4, <1>10, <2>1, <2>2 DEF BlocksInv, ToolInv, BuffersOK
<1>13. FatesOK'
  <2>1. Pending' = Pending \ {b}
    BY <1>1, <1>4 DEF Pending
  <2>2. QED
    BY <1>1, <1>5, <1>10, <2>1 DEF BlocksInv, ToolInv, FatesOK
<1>14. InputsWholeAndTrusted'
  <2>1. \A d \in block_delivered' : d \in block_delivered \/ (d = given /\ raw > 0)
    BY <1>2
  <2>2. QED
    BY <1>1, <1>6, <1>7, <2>1
       DEF BlocksInv, ToolInv, InputsWholeAndTrusted, Anthropic!InputsWholeAndTrusted
<1>15. QED
  BY <1>1, <1>11, <1>12, <1>13, <1>14, TextsStay, BlocksAssumption DEF BlocksInv, ToolInv

LEMMA StopUnknownToolStep ==
    ASSUME BlocksInv, NEW b \in ToolBlocks, Anthropic!StopUnknownTool(b)
    PROVE  BlocksInv'
<1>1. /\ stopped' = stopped \cup {b} /\ UNCHANGED <<Anthropic!textVars>>
      /\ UNCHANGED <<inputs, tool_sent, Anthropic!jsonVars, Anthropic!outcome, block_ended>>
  BY DEF Anthropic!StopUnknownTool
<1>2. stopped' \subseteq ToolBlocks \cup TextBlocks
  BY <1>1 DEF BlocksInv, ToolInv, ToolTypes
<1>3. QED
  BY <1>1, <1>2, ToolsStay, TextsStay, BlocksAssumption DEF BlocksInv

-----------------------------------------------------------------------------
(* The steps of a text block.                                              *)

LEMMA HeldOfBlock ==
    ASSUME TextInv, NEW b \in TextBlocks
    PROVE  /\ Anthropic!Held(b) \in 0..MaxCarry
           /\ b \notin DOMAIN block_carry => Anthropic!Held(b) = 0
           /\ block_shown[b] \in Nat /\ block_got[b] \in 0..MaxArgs
BY ValueFacts, StreamAssumption, SameDicts DEF TextInv, Anthropic!Held, Get

\* One block moves on: what is held back and what was shown are still all that came.
LEMMA TextMoves ==
    ASSUME BlocksInv, NEW b \in TextBlocks, NEW rest, NEW seen, NEW came,
           block_carry' \in PartialFunctions(TextBlocks, 0..MaxCarry),
           block_got' = [block_got EXCEPT ![b] = came],
           block_shown' = [block_shown EXCEPT ![b] = seen],
           came \in 0..MaxArgs, seen \in Nat, rest \in Nat, seen + rest = came,
           Get(block_carry', b, 0) = rest,
           DOMAIN block_carry' \ {b} = DOMAIN block_carry \ {b},
           \A c \in DOMAIN block_carry : c # b => block_carry'[c] = block_carry[c],
           stopped' = IF b \in DOMAIN block_carry' THEN stopped ELSE stopped \cup {b},
           b \notin stopped, block_ended = "no",
           UNCHANGED <<inputs, tool_sent, Anthropic!jsonVars, Anthropic!outcome, block_ended>>
    PROVE  BlocksInv'
<1>1. stopped \subseteq stopped' /\ stopped' \subseteq ToolBlocks \cup TextBlocks
  BY DEF BlocksInv, ToolInv, ToolTypes
<1>2. ToolInv'
  BY <1>1, ToolsStay DEF BlocksInv
<1>3. seen \in 0..MaxArgs
  BY StreamAssumption
<1>4. \A c \in TextBlocks \ {b} :
         /\ Anthropic!Held(c)' = Anthropic!Held(c)
         /\ block_got'[c] = block_got[c] /\ block_shown'[c] = block_shown[c]
         /\ c \in DOMAIN block_carry' <=> c \in DOMAIN block_carry
         /\ c \in stopped' <=> c \in stopped
  BY SameDicts DEF BlocksInv, TextInv, Anthropic!Held, Get
<1>5. block_got'[b] = came /\ block_shown'[b] = seen /\ Anthropic!Held(b)' = rest
  BY SameDicts DEF BlocksInv, TextInv, Anthropic!Held
<1>6. TextInv'
  <2>1. /\ block_got' \in [TextBlocks -> 0..MaxArgs] /\ block_shown' \in [TextBlocks -> 0..MaxArgs]
    BY <1>3 DEF BlocksInv, TextInv
  <2>2. QED
    BY <1>4, <1>5, <2>1 DEF BlocksInv, TextInv
<1>7. QED
  BY <1>2, <1>6 DEF BlocksInv

LEMMA StartTextStep ==
    ASSUME BlocksInv, NEW b \in TextBlocks, Anthropic!StartText(b)
    PROVE  BlocksInv'
<1>1. /\ block_ended = "no" /\ b \notin stopped /\ block_got[b] = 0
      /\ block_carry' = Put(block_carry, b, 0)
      /\ UNCHANGED <<inputs, stopped, tool_sent, block_got, block_shown>>
      /\ UNCHANGED <<Anthropic!jsonVars, Anthropic!outcome, block_ended>>
  BY SameDicts DEF Anthropic!StartText, Anthropic!Arrives, Anthropic!upstreamVars
<1> DEFINE none == 0
<1>2. block_carry' \in PartialFunctions(TextBlocks, 0..MaxCarry)
  BY <1>1, PutType, StreamAssumption DEF BlocksInv, TextInv
<1>3. /\ DOMAIN block_carry' = DOMAIN block_carry \cup {b} /\ Get(block_carry', b, 0) = none
      /\ \A c \in DOMAIN block_carry : c # b => block_carry'[c] = block_carry[c]
  BY <1>1 DEF Put, Get
<1>4. block_shown[b] = 0
  BY <1>1, HeldOfBlock DEF BlocksInv, TextInv
<1>5. /\ block_got' = [block_got EXCEPT ![b] = none]
      /\ block_shown' = [block_shown EXCEPT ![b] = none]
  BY <1>1, <1>4 DEF BlocksInv, TextInv
<1>6. none \in 0..MaxArgs /\ none \in Nat /\ none + none = none
  BY StreamAssumption
<1> HIDE DEF none
<1>7. DOMAIN block_carry' \ {b} = DOMAIN block_carry \ {b}
  BY <1>3
<1>8. stopped' = IF b \in DOMAIN block_carry' THEN stopped ELSE stopped \cup {b}
  BY <1>1, <1>3
<1>9. UNCHANGED <<inputs, tool_sent, Anthropic!jsonVars, Anthropic!outcome, block_ended>>
  BY <1>1
<1>10. b \notin stopped /\ block_ended = "no"
  BY <1>1
<1>11. /\ Get(block_carry', b, 0) = none
       /\ \A c \in DOMAIN block_carry : c # b => block_carry'[c] = block_carry[c]
  BY <1>3
<1>12. QED
  BY <1>2, <1>5, <1>6, <1>7, <1>8, <1>9, <1>10, <1>11, TextMoves

LEMMA TextDeltaStep ==
    ASSUME BlocksInv, NEW b \in TextBlocks, NEW n \in 1..MaxPiece, Anthropic!TextDelta(b, n)
    PROVE  BlocksInv'
<1>1. PICK held \in 0..MaxCarry :
         /\ held <= Anthropic!Held(b) + n
         /\ block_carry' = Put(block_carry, b, held)
         /\ block_shown' = [block_shown EXCEPT ![b] = @ + Anthropic!Held(b) + n - held]
  BY SameDicts DEF Anthropic!TextDelta
<1>2. /\ block_ended = "no" /\ b \notin stopped /\ block_got[b] + n <= MaxArgs
      /\ block_got' = [block_got EXCEPT ![b] = @ + n]
      /\ UNCHANGED <<inputs, stopped, tool_sent>>
      /\ UNCHANGED <<Anthropic!jsonVars, Anthropic!outcome, block_ended>>
  BY DEF Anthropic!TextDelta, Anthropic!Arrives, Anthropic!upstreamVars
<1>3. block_carry' \in PartialFunctions(TextBlocks, 0..MaxCarry)
  BY <1>1, PutType DEF BlocksInv, TextInv
<1>4. /\ DOMAIN block_carry' = DOMAIN block_carry \cup {b} /\ Get(block_carry', b, 0) = held
      /\ \A c \in DOMAIN block_carry : c # b => block_carry'[c] = block_carry[c]
  BY <1>1 DEF Put, Get
<1> DEFINE came == block_got[b] + n
           seen == block_shown[b] + Anthropic!Held(b) + n - held
<1>5. /\ Anthropic!Held(b) \in Nat /\ block_shown[b] \in Nat /\ block_got[b] \in Nat
      /\ block_shown[b] + Anthropic!Held(b) = block_got[b]
  BY HeldOfBlock, StreamAssumption DEF BlocksInv, TextInv
<1>6. came \in 0..MaxArgs /\ seen \in Nat /\ seen + held = came /\ held \in Nat
  BY <1>1, <1>2, <1>5, StreamAssumption
<1>7. block_got' = [block_got EXCEPT ![b] = came] /\ block_shown' = [block_shown EXCEPT ![b] = seen]
  BY <1>1, <1>2
<1> HIDE DEF came, seen
<1>8. DOMAIN block_carry' \ {b} = DOMAIN block_carry \ {b}
  BY <1>4
<1>9. /\ stopped' = IF b \in DOMAIN block_carry' THEN stopped ELSE stopped \cup {b}
      /\ b \notin stopped /\ block_ended = "no"
      /\ UNCHANGED <<inputs, tool_sent, Anthropic!jsonVars, Anthropic!outcome, block_ended>>
  BY <1>2, <1>4
<1>10. /\ Get(block_carry', b, 0) = held
       /\ \A c \in DOMAIN block_carry : c # b => block_carry'[c] = block_carry[c]
  BY <1>4
<1>11. QED
  BY <1>3, <1>6, <1>7, <1>8, <1>9, <1>10, TextMoves

LEMMA StopTextStep ==
    ASSUME BlocksInv, NEW b \in TextBlocks, Anthropic!StopText(b)
    PROVE  BlocksInv'
<1>1. /\ block_ended = "no" /\ b \notin stopped /\ stopped' = stopped \cup {b}
      /\ block_carry' = Drop(block_carry, b)
      /\ block_shown' = [block_shown EXCEPT ![b] = @ + Anthropic!Held(b)]
      /\ UNCHANGED <<inputs, tool_sent, block_got, Anthropic!jsonVars, Anthropic!outcome,
                     block_ended>>
  BY SameDicts DEF Anthropic!StopText, Anthropic!Arrives
<1>2. block_carry' \in PartialFunctions(TextBlocks, 0..MaxCarry)
  BY <1>1, DropType DEF BlocksInv, TextInv
<1>3. /\ DOMAIN block_carry' = DOMAIN block_carry \ {b} /\ Get(block_carry', b, 0) = 0
      /\ \A c \in DOMAIN block_carry : c # b => block_carry'[c] = block_carry[c]
  BY <1>1 DEF Drop, Restrict, Get
<1> DEFINE came == block_got[b]
<1>4. /\ Anthropic!Held(b) \in Nat /\ block_shown[b] \in Nat /\ came \in 0..MaxArgs
      /\ block_shown[b] + Anthropic!Held(b) = came
  BY HeldOfBlock, StreamAssumption DEF BlocksInv, TextInv
<1>5. came \in Nat /\ came + 0 = came
  BY <1>4, StreamAssumption
<1>6. /\ block_got' = [block_got EXCEPT ![b] = came]
      /\ block_shown' = [block_shown EXCEPT ![b] = came]
  BY <1>1, <1>4 DEF BlocksInv, TextInv
<1> HIDE DEF came
<1>7. DOMAIN block_carry' \ {b} = DOMAIN block_carry \ {b}
  BY <1>3
<1>8. /\ stopped' = IF b \in DOMAIN block_carry' THEN stopped ELSE stopped \cup {b}
      /\ b \notin stopped /\ block_ended = "no"
      /\ UNCHANGED <<inputs, tool_sent, Anthropic!jsonVars, Anthropic!outcome, block_ended>>
  BY <1>1, <1>3
<1>9. /\ Get(block_carry', b, 0) = 0 /\ 0 \in Nat
      /\ \A c \in DOMAIN block_carry : c # b => block_carry'[c] = block_carry[c]
  BY <1>3
<1>10. QED
  BY <1>2, <1>4, <1>5, <1>6, <1>7, <1>8, <1>9, TextMoves

-----------------------------------------------------------------------------
(* The end of the stream.                                                  *)

LEMMA FlushStep ==
    ASSUME BlocksInv, Anthropic!Flush
    PROVE  BlocksInv'
<1>1. /\ block_ended' = "finished" /\ block_carry' = <<>>
      /\ block_shown' = [b \in TextBlocks |-> block_shown[b] + Anthropic!Held(b)]
      /\ block_reported' = Pending
      /\ json_buffers' = <<>> /\ json_sizes' = <<>> /\ json_overflow' = {}
      /\ UNCHANGED <<inputs, stopped, tool_sent, json_blocks, block_names, block_got,
                     block_delivered, block_refused>>
  BY DEF Anthropic!Flush, Anthropic!upstreamVars, Pending
<1>2. DOMAIN json_buffers' = {} /\ DOMAIN json_sizes' = {} /\ DOMAIN block_carry' = {}
  BY <1>1, EmptyDict
<1>3. Pending \subseteq ToolBlocks
  <2>1. json_buffers \in PartialFunctions(ToolBlocks, 0..Cap)
        /\ json_sizes \in PartialFunctions(ToolBlocks, 0..(Cap + MaxPiece))
        /\ json_overflow \subseteq DOMAIN json_sizes
    BY DEF BlocksInv, ToolInv, ToolTypes
  <2>2. QED
    BY <2>1, ValueFacts DEF Pending
<1>4. ToolTypes'
  BY <1>1, <1>2, <1>3, EmptyDict DEF BlocksInv, ToolInv, ToolTypes
<1>5. BuffersOK'
  BY <1>1, <1>2 DEF BlocksInv, ToolInv, BuffersOK, Pending
<1>6. FatesOK'
  BY <1>1, <1>2 DEF BlocksInv, ToolInv, FatesOK, Pending, Settled, Delivered
<1>7. InputsWholeAndTrusted'
  BY <1>1 DEF BlocksInv, ToolInv, InputsWholeAndTrusted, Anthropic!InputsWholeAndTrusted
<1>8. TextInv'
  <2>1. \A b \in TextBlocks : block_shown'[b] = block_got[b]
    BY <1>1 DEF BlocksInv, TextInv
  <2>2. block_shown' \in [TextBlocks -> 0..MaxArgs]
    BY <1>1, <2>1 DEF BlocksInv, TextInv
  <2>3. \A b \in TextBlocks : Anthropic!Held(b)' = 0 /\ block_got[b] \in Nat
    BY <1>2, SameDicts, HeldOfBlock, StreamAssumption DEF Anthropic!Held, Get, BlocksInv
  <2>4. block_carry' \in PartialFunctions(TextBlocks, 0..MaxCarry)
    BY <1>1, EmptyDict
  <2>5. QED
    BY <1>1, <1>2, <2>1, <2>2, <2>3, <2>4 DEF BlocksInv, TextInv
<1>9. QED
  BY <1>4, <1>5, <1>6, <1>7, <1>8 DEF BlocksInv, ToolInv

\* The connection is gone, or nothing happens.
LEMMA BreakStep ==
    ASSUME BlocksInv, Anthropic!Break \/ UNCHANGED Anthropic!vars
    PROVE  BlocksInv'
<1>1. /\ UNCHANGED <<inputs, stopped, tool_sent, Anthropic!jsonVars, Anthropic!outcome>>
      /\ UNCHANGED <<Anthropic!textVars>>
      /\ block_ended' \in {block_ended, "broken"}
  BY DEF Anthropic!Break, Anthropic!vars, Anthropic!upstreamVars
<1>2. stopped' \subseteq ToolBlocks \cup TextBlocks
  BY <1>1 DEF BlocksInv, ToolInv, ToolTypes
<1>3. QED
  BY <1>1, <1>2, ToolsStay, TextsStay DEF BlocksInv

LEMMA NextBlocksInv == BlocksInv /\ [Anthropic!Next]_(Anthropic!vars) => BlocksInv'
<1> SUFFICES ASSUME BlocksInv, Anthropic!Next \/ UNCHANGED Anthropic!vars PROVE BlocksInv'
  OBVIOUS
<1>1. CASE \E b \in ToolBlocks : Anthropic!ToolEvent(b)
  BY <1>1, StartToolStep, InputDeltaStep, StopToolStep, StopUnknownToolStep DEF Anthropic!ToolEvent
<1>2. CASE \E b \in TextBlocks : Anthropic!TextEvent(b)
  BY <1>2, StartTextStep, TextDeltaStep, StopTextStep DEF Anthropic!TextEvent
<1>3. QED
  BY <1>1, <1>2, FlushStep, BreakStep DEF Anthropic!Next

\* The inductive invariant holds of every stream that AnthropicMessagesStreamProcessor handles.
THEOREM SpecBlocksInv == Anthropic!Spec => []BlocksInv
<1>1. QED
  BY InitBlocksInv, NextBlocksInv, PTL DEF Anthropic!Spec

\* The processor's state has its types: _json_sizes, for one, stays within the cap and a piece.
THEOREM BlocksTypeCorrect == Anthropic!Spec => []Anthropic!TypeOK
<1>1. BlocksInv => Anthropic!TypeOK
  BY DEF BlocksInv, ToolInv, TextInv, ToolTypes, Anthropic!TypeOK, Anthropic!PartialFunctions,
         PartialFunctions
<1>2. QED
  BY <1>1, SpecBlocksInv, PTL

\* The client is given all of a tool's input or none, and originals in it only for a trusted
\* tool, whatever the upstream sends for its block: _finish_block, _safe_restore_json.
THEOREM InputsAreWhole == Anthropic!Spec => []InputsWholeAndTrusted
<1>1. BlocksInv => InputsWholeAndTrusted
  BY DEF BlocksInv, ToolInv
<1>2. QED
  BY <1>1, SpecBlocksInv, PTL

\* When the client sees a text block stop, or the stream end, it has all of the block's text.
THEOREM TextIsComplete == Anthropic!Spec => []TextCompleteAtStop
<1>1. BlocksInv => TextCompleteAtStop
  <2> SUFFICES ASSUME BlocksInv, NEW b \in TextBlocks
               PROVE  /\ block_shown[b] + Anthropic!Held(b) = block_got[b]
                      /\ b \in stopped \/ block_ended = "finished" => block_shown[b] = block_got[b]
    BY DEF TextCompleteAtStop, Anthropic!TextCompleteAtStop
  <2>1. /\ block_shown[b] + Anthropic!Held(b) = block_got[b]
        /\ b \in stopped \/ block_ended = "finished" => b \notin DOMAIN block_carry
    BY DEF BlocksInv, TextInv
  <2>2. QED
    BY <2>1, HeldOfBlock, StreamAssumption DEF BlocksInv
<1>2. QED
  BY <1>1, SpecBlocksInv, PTL

-----------------------------------------------------------------------------
(* Each block is delivered as CallDelivery promises.                       *)

LEMMA FateOf ==
    ASSUME NEW b \in ToolBlocks
    PROVE  Anthropic!fate[b] =
               IF b \in block_refused THEN "refused"
               ELSE IF b \in Delivered THEN "given"
               ELSE IF b \in block_reported THEN "reported" ELSE "open"
BY DEF Anthropic!fate, Delivered
Begun == {b \in ToolBlocks : tool_sent[b] > 0}

LEMMA NothingHappens ==
    ASSUME UNCHANGED <<tool_sent, block_delivered, block_refused, block_reported>>,
           block_ended' = "finished" <=> block_ended = "finished"
    PROVE  UNCHANGED Anthropic!Delivery!vars
BY DEF Anthropic!Delivery!vars, Anthropic!fate

LEMMA InputDeltaBegins ==
    ASSUME BlocksInv, NEW b \in ToolBlocks, NEW n \in 0..MaxPiece, Anthropic!InputDelta(b, n)
    PROVE  Anthropic!Delivery!Begin(b) \/ UNCHANGED Anthropic!Delivery!vars
<1>1. /\ block_ended = "no" /\ b \notin stopped
      /\ tool_sent' = [tool_sent EXCEPT ![b] = @ + n]
      /\ UNCHANGED <<block_delivered, block_refused, block_reported, block_ended>>
  BY DEF Anthropic!InputDelta, Anthropic!Arrives, Anthropic!outcome
<1>2. Anthropic!fate' = Anthropic!fate /\ (block_ended' = "finished") = (block_ended = "finished")
  BY <1>1 DEF Anthropic!fate
<1>3. Anthropic!fate[b] = "open"
  BY <1>1, FateOf DEF BlocksInv, ToolInv, FatesOK, Settled
<1>4. Begun' = Begun \/ Begun' = Begun \cup {b}
  BY <1>1 DEF Begun, BlocksInv, ToolInv, ToolTypes
<1>5. CASE Begun' = Begun
  BY <1>2, <1>5 DEF Anthropic!Delivery!vars, Begun
<1>6. CASE Begun' = Begun \cup {b}
  BY <1>1, <1>2, <1>3, <1>6 DEF Anthropic!Delivery!Begin, Begun
<1>7. QED
  BY <1>4, <1>5, <1>6

LEMMA StopToolSettles ==
    ASSUME BlocksInv, NEW b \in ToolBlocks, Anthropic!StopTool(b)
    PROVE  Anthropic!Delivery!Settle(b) \/ UNCHANGED Anthropic!Delivery!vars
<1> DEFINE raw == Get(json_buffers, b, 0)
           restore == Anthropic!Restores(Get(block_names, b, None))
           given == [block |-> b, length |-> raw, restored |-> restore]
<1>1. /\ block_ended = "no" /\ b \notin stopped
      /\ UNCHANGED <<tool_sent, block_reported, block_ended>>
  BY DEF Anthropic!StopTool, Anthropic!Arrives, Anthropic!Forward, Anthropic!outcome
<1>2. \/ block_delivered' = block_delivered \cup {given} /\ block_refused' = block_refused
      \/ block_refused' = block_refused \cup {b} /\ block_delivered' = block_delivered
      \/ UNCHANGED <<block_delivered, block_refused>>
  BY SameDicts DEF Anthropic!StopTool, Anthropic!Forward, Anthropic!outcome
<1>3. given.block = b
  OBVIOUS
<1> HIDE DEF given
<1>4. /\ b \notin block_refused /\ b \notin Delivered /\ Anthropic!fate[b] = "open"
      /\ b \notin block_reported
  BY <1>1, FateOf DEF BlocksInv, ToolInv, FatesOK, Settled
<1>5. ASSUME NEW f \in {"given", "refused"},
             \A c \in ToolBlocks \ {b} :
                 (c \in Delivered' <=> c \in Delivered) /\ (c \in block_refused' <=> c \in block_refused),
             f = "given" => b \in Delivered' /\ b \notin block_refused',
             f = "refused" => b \in block_refused'
      PROVE  Anthropic!Delivery!Settle(b)
  <2>1. Anthropic!fate' = [Anthropic!fate EXCEPT ![b] = f]
    <3>1. \A c \in ToolBlocks : Anthropic!fate'[c] = IF c = b THEN f ELSE Anthropic!fate[c]
      BY <1>1, <1>5 DEF Anthropic!fate, Delivered
    <3>2. /\ Anthropic!fate' = [c \in ToolBlocks |-> Anthropic!fate'[c]]
          /\ Anthropic!fate = [c \in ToolBlocks |-> Anthropic!fate[c]]
      BY DEF Anthropic!fate
    <3>3. QED
      BY <3>1, <3>2
  <2>2. QED
    BY <1>1, <1>4, <2>1 DEF Anthropic!Delivery!Settle
<1>6. CASE block_delivered' = block_delivered \cup {given} /\ block_refused' = block_refused
  <2>1. Delivered' = Delivered \cup {b}
    BY <1>3, <1>6 DEF Delivered
  <2>2. QED
    BY <1>4, <1>5, <1>6, <2>1
<1>7. CASE block_refused' = block_refused \cup {b} /\ block_delivered' = block_delivered
  <2>1. Delivered' = Delivered
    BY <1>7 DEF Delivered
  <2>2. QED
    BY <1>5, <1>7, <2>1
<1>8. CASE UNCHANGED <<block_delivered, block_refused>>
  BY <1>1, <1>8, NothingHappens
<1>9. QED
  BY <1>2, <1>6, <1>7, <1>8

LEMMA FlushCloses ==
    ASSUME BlocksInv, Anthropic!Flush
    PROVE  Anthropic!Delivery!Close
<1>1. /\ block_ended = "no" /\ block_ended' = "finished" /\ block_reported' = Pending
      /\ UNCHANGED <<tool_sent, block_delivered, block_refused>>
  BY DEF Anthropic!Flush, Anthropic!upstreamVars, Pending
<1>2. Delivered' = Delivered
  BY <1>1 DEF Delivered
<1>3. \A b \in ToolBlocks :
         /\ Anthropic!fate'[b] = IF b \in block_refused THEN "refused"
                                 ELSE IF b \in Delivered THEN "given"
                                 ELSE IF b \in Pending THEN "reported" ELSE "open"
         /\ Anthropic!fate[b] = IF b \in block_refused THEN "refused"
                                ELSE IF b \in Delivered THEN "given" ELSE "open"
         /\ tool_sent[b] > 0 => b \in Pending \/ b \in block_refused \/ b \in Delivered
  BY <1>1, <1>2, FateOf DEF Anthropic!fate, Delivered, BlocksInv, ToolInv, FatesOK, BuffersOK, Settled
<1>4. Anthropic!fate' = [b \in ToolBlocks |-> Anthropic!fate'[b]]
  BY DEF Anthropic!fate
<1>5. Anthropic!fate' \in [ToolBlocks -> Anthropic!Delivery!Fates]
  BY <1>3, <1>4 DEF Anthropic!Delivery!Fates
<1>6. \A b \in ToolBlocks :
         IF Anthropic!fate[b] = "open" /\ b \in Begun THEN Anthropic!fate'[b] = "reported"
         ELSE \/ Anthropic!fate'[b] = Anthropic!fate[b]
              \/ Anthropic!fate[b] = "open" /\ Anthropic!fate'[b] = "reported"
  BY <1>3 DEF Begun
<1>7. QED
  BY <1>1, <1>5, <1>6 DEF Anthropic!Delivery!Close, Begun

\* Every step of the processor settles, begins or closes as CallDelivery lets it, or does
\* nothing that a client could see of a call.
LEMMA StepsDeliver ==
    BlocksInv /\ [Anthropic!Next]_(Anthropic!vars) =>
        [Anthropic!Delivery!Next]_(Anthropic!Delivery!vars)
<1> SUFFICES ASSUME BlocksInv, Anthropic!Next \/ UNCHANGED Anthropic!vars
             PROVE  Anthropic!Delivery!Next \/ UNCHANGED Anthropic!Delivery!vars
  OBVIOUS
<1>1. ASSUME NEW b \in ToolBlocks, Anthropic!ToolEvent(b)
      PROVE  Anthropic!Delivery!Next \/ UNCHANGED Anthropic!Delivery!vars
  <2>1. CASE Anthropic!StartTool(b) \/ Anthropic!StopUnknownTool(b)
    BY <2>1, NothingHappens DEF Anthropic!StartTool, Anthropic!StopUnknownTool,
       Anthropic!upstreamVars, Anthropic!outcome
  <2>2. CASE \E n \in 0..MaxPiece : Anthropic!InputDelta(b, n)
    BY <2>2, InputDeltaBegins DEF Anthropic!Delivery!Next
  <2>3. CASE Anthropic!StopTool(b)
    BY <2>3, StopToolSettles DEF Anthropic!Delivery!Next
  <2>4. QED
    BY <1>1, <2>1, <2>2, <2>3 DEF Anthropic!ToolEvent
<1>2. CASE \E b \in TextBlocks : Anthropic!TextEvent(b)
  BY <1>2, NothingHappens DEF Anthropic!TextEvent, Anthropic!StartText, Anthropic!TextDelta,
     Anthropic!StopText, Anthropic!upstreamVars, Anthropic!outcome
<1>3. CASE Anthropic!Break \/ UNCHANGED Anthropic!vars
  BY <1>3, NothingHappens DEF Anthropic!Break, Anthropic!vars, Anthropic!upstreamVars,
     Anthropic!outcome
<1>4. CASE Anthropic!Flush
  BY <1>4, FlushCloses DEF Anthropic!Delivery!Next
<1>5. QED
  BY <1>1, <1>2, <1>3, <1>4 DEF Anthropic!Next

LEMMA DeliveryBegins == Anthropic!Init => Anthropic!Delivery!Init
BY DEF Anthropic!Init, Anthropic!Delivery!Init, Anthropic!fate

\* Each tool block is settled once, given whole or refused, and the end of the stream reports
\* those that are not.
THEOREM DeliversAsPromised == Anthropic!Spec => ImplementsCallDelivery
<1>1. QED
  BY StepsDeliver, SpecBlocksInv, DeliveryBegins, PTL
     DEF Anthropic!Spec, ImplementsCallDelivery, Anthropic!ImplementsCallDelivery, Anthropic!Delivery!Spec

\* What is proved of the processors holds when the two of them stand side by side.
THEOREM StreamsAreBoth == StreamsSpec => Spec /\ Anthropic!Spec
<1>1. StreamsInit => Init /\ Anthropic!Init
  BY DEF StreamsInit
<1>2. [StreamsNext]_<<protocol, vars, anthropicVars>> => [Next]_vars /\ [Anthropic!Next]_(Anthropic!vars)
  BY DEF StreamsNext, anthropicVars, Anthropic!vars, Anthropic!upstreamVars, Anthropic!jsonVars,
         Anthropic!textVars, Anthropic!outcome
<1>3. QED
  BY <1>1, <1>2, PTL DEF StreamsSpec, Spec, Anthropic!Spec
===============================================================================
