-------------------------- MODULE NonceCacheProof ---------------------------
(***************************************************************************)
(* Proofs about NonceCache, for any number of callers and keys, any limit  *)
(* and any ttl.                                                            *)
(***************************************************************************)
EXTENDS NonceCache, FiniteSetTheorems, TLAPS

-----------------------------------------------------------------------------
\* The inductive invariant.

\* A call has read a time that has come; an accepted key is held with the time of
\* its call until more than the ttl has passed since.
TimeInv ==
  /\ \A c \in Callers : now[c] # Never => now[c] <= clock
  /\ \A k \in Keys : uses[k] > 0 =>
       began[k] \in Nat /\ (cache[k] = began[k] \/ clock - began[k] > TTL)

\* Only accepted keys are held, and all of them until there are more than Limit.
CountInv ==
  /\ IsFiniteSet(Used)
  /\ \A k \in Keys : cache[k] # Never => uses[k] > 0
  /\ Cardinality(Used) <= Limit => \A k \in Keys : uses[k] <= 1 /\ (uses[k] > 0 => cache[k] # Never)

NCInv == TypeOK /\ TimeInv /\ CountInv

-----------------------------------------------------------------------------
\* What the clean-up leaves: some of the entries, all of those that are not too
\* old for a time that has come, and all of them unless there are many.
LEMMA CleanedFacts ==
  ASSUME NCInv, NEW t \in Nat, t <= clock
  PROVE  /\ Cleaned(t) \in [Keys -> Nat \cup {Never}]
         /\ \A k \in Keys : Cleaned(t)[k] \in {Never, cache[k]}
         /\ \A k \in Keys : Cleaned(t)[k] # cache[k] => clock - cache[k] > TTL
         /\ Cardinality(Held) <= Limit => Cleaned(t) = cache
         /\ Cardinality(Held) > Limit =>
              \A k \in Keys : Cleaned(t)[k] # Never => t - Cleaned(t)[k] <= TTL
<1>1. cache \in [Keys -> Nat \cup {Never}] /\ clock \in Nat
  BY NonceAssumption DEF NCInv, TypeOK
<1>2. IsFiniteSet(Held) /\ Cardinality(Held) \in Nat
  <2>1. Held \subseteq Used
    BY DEF Held, Used, NCInv, CountInv
  <2> QED
    BY <2>1, FS_Subset, FS_CardinalityType DEF NCInv, CountInv
<1>3. CASE Cardinality(Held) <= Limit
  <2>1. Cleaned(t) = cache
    BY <1>2, <1>3, NonceAssumption DEF Cleaned
  <2> QED
    BY <1>1, <1>2, <1>3, <2>1, NonceAssumption
<1>4. CASE Cardinality(Held) > Limit
  <2>1. Cleaned(t) = [k \in Keys |-> IF Expired(k, t) THEN Never ELSE cache[k]]
    BY <1>4 DEF Cleaned
  <2>2. ~(Cardinality(Held) <= Limit)
    BY <1>2, <1>4, NonceAssumption
  <2>3. \A k \in Keys : Expired(k, t) => clock - cache[k] > TTL
    BY <1>1, NonceAssumption DEF Expired
  <2>4. \A k \in Keys : cache[k] # Never /\ ~Expired(k, t) => t - cache[k] <= TTL
    BY <1>1, NonceAssumption DEF Expired
  <2> QED
    BY <1>1, <2>1, <2>2, <2>3, <2>4
<1> QED
  BY <1>2, <1>3, <1>4, NonceAssumption

LEMMA NCInit == Init => NCInv
<1> SUFFICES ASSUME Init PROVE NCInv
  OBVIOUS
<1>1. Used = {}
  BY DEF Init, Used
<1>2. IsFiniteSet(Used)
  BY <1>1, FS_EmptySet
<1> QED
  BY <1>2, NonceAssumption DEF Init, NCInv, TypeOK, TimeInv, CountInv

LEMMA TickStep ==
  ASSUME NCInv, Tick PROVE NCInv'
<1>1. Used' = Used
  BY DEF Tick, Used
<1>2. clock \in Nat /\ clock' = clock + 1 /\ clock' \in 0..EndOfTime
  BY NonceAssumption DEF Tick, NCInv, TypeOK
<1>3. TypeOK'
  BY <1>2 DEF Tick, NCInv, TypeOK
<1>4. TimeInv'
  BY <1>2, NonceAssumption DEF Tick, NCInv, TypeOK, TimeInv
<1>5. CountInv'
  BY <1>1 DEF Tick, NCInv, CountInv
<1> QED
  BY <1>3, <1>4, <1>5 DEF NCInv

LEMMA CallStep ==
  ASSUME NCInv, NEW c \in Callers, NEW k \in Keys, Call(c, k) PROVE NCInv'
<1>1. Used' = Used
  BY DEF Call, Used
<1>2. TypeOK'
  BY NonceAssumption DEF Call, NCInv, TypeOK
<1>3. TimeInv'
  BY NonceAssumption DEF Call, NCInv, TypeOK, TimeInv
<1>4. CountInv'
  BY <1>1 DEF Call, NCInv, CountInv
<1> QED
  BY <1>2, <1>3, <1>4 DEF NCInv

\* A call that is refused: the clean-up alone.
LEMMA RefuseStep ==
  ASSUME NCInv, NEW c \in Callers, Check(c), Cleaned(now[c])[key[c]] # Never PROVE NCInv'
<1> DEFINE kept == Cleaned(now[c])
<1>1. now[c] \in Nat /\ now[c] <= clock /\ clock \in Nat
  BY NonceAssumption DEF Check, NCInv, TypeOK, TimeInv
<1>2. /\ cache' = kept /\ now' = [now EXCEPT ![c] = Never]
      /\ UNCHANGED <<clock, key, began, uses>> /\ Used' = Used
  BY DEF Check, Used
<1>3. /\ kept \in [Keys -> Nat \cup {Never}]
      /\ \A k \in Keys : kept[k] \in {Never, cache[k]}
      /\ \A k \in Keys : kept[k] # cache[k] => clock - cache[k] > TTL
      /\ Cardinality(Held) <= Limit => kept = cache
  BY <1>1, CleanedFacts
<1> HIDE DEF kept
<1>4. TypeOK'
  BY <1>2, <1>3 DEF NCInv, TypeOK
<1>5. TimeInv'
  BY <1>1, <1>2, <1>3, NonceAssumption DEF NCInv, TypeOK, TimeInv
<1>6. CountInv'
  <2>1. Cardinality(Used) <= Limit => Cardinality(Held) <= Limit
    <3>1. Held \subseteq Used
      BY DEF Held, Used, NCInv, CountInv
    <3>2. Cardinality(Held) <= Cardinality(Used) /\ Cardinality(Used) \in Nat /\ Cardinality(Held) \in Nat
      BY <3>1, FS_Subset, FS_CardinalityType DEF NCInv, CountInv
    <3> QED
      BY <3>2, NonceAssumption
  <2> QED
    BY <1>2, <1>3, <2>1 DEF NCInv, CountInv
<1> QED
  BY <1>4, <1>5, <1>6 DEF NCInv

\* A call that is accepted: the clean-up and a new entry.
LEMMA AcceptStep ==
  ASSUME NCInv, NEW c \in Callers, Check(c), Cleaned(now[c])[key[c]] = Never PROVE NCInv'
<1> DEFINE kept == Cleaned(now[c])
           x == key[c]
           t == now[c]
<1>1. t \in Nat /\ t <= clock /\ clock \in Nat /\ x \in Keys
  BY NonceAssumption DEF Check, NCInv, TypeOK, TimeInv
<1>2. /\ cache' = [kept EXCEPT ![x] = t] /\ now' = [now EXCEPT ![c] = Never]
      /\ began' = [began EXCEPT ![x] = t] /\ uses' = [uses EXCEPT ![x] = @ + 1]
      /\ UNCHANGED <<clock, key>>
  BY DEF Check
<1>3. /\ kept \in [Keys -> Nat \cup {Never}]
      /\ \A k \in Keys : kept[k] \in {Never, cache[k]}
      /\ \A k \in Keys : kept[k] # cache[k] => clock - cache[k] > TTL
      /\ Cardinality(Held) <= Limit => kept = cache
      /\ kept[x] = Never
  BY <1>1, CleanedFacts
<1> HIDE DEF kept, x, t
<1>4. uses \in [Keys -> Nat] /\ began \in [Keys -> Nat \cup {Never}]
  BY DEF NCInv, TypeOK
<1>5. TypeOK'
  BY <1>1, <1>2, <1>3, <1>4 DEF NCInv, TypeOK
<1>6. TimeInv'
  BY <1>1, <1>2, <1>3, <1>4, NonceAssumption DEF NCInv, TypeOK, TimeInv
<1>7. CountInv'
  <2>1. Used' = Used \cup {x}
    BY <1>1, <1>2, <1>4 DEF Used
  <2>2. IsFiniteSet(Used') /\ Cardinality(Used') \in Nat /\ Cardinality(Used) \in Nat
    BY <2>1, FS_AddElement, FS_CardinalityType DEF NCInv, CountInv
  <2>3. \A k \in Keys : cache'[k] # Never => uses'[k] > 0
    BY <1>1, <1>2, <1>3, <1>4 DEF NCInv, CountInv
  <2>4. ASSUME Cardinality(Used') <= Limit
        PROVE  \A k \in Keys : uses'[k] <= 1 /\ (uses'[k] > 0 => cache'[k] # Never)
    <3>1. Cardinality(Used) <= Limit
      BY <2>1, <2>2, <2>4, FS_Subset, NonceAssumption
    <3>2. Cardinality(Held) <= Limit
      <4>1. Held \subseteq Used
        BY DEF Held, Used, NCInv, CountInv
      <4>2. Cardinality(Held) <= Cardinality(Used) /\ Cardinality(Held) \in Nat
        BY <4>1, FS_Subset, FS_CardinalityType DEF NCInv, CountInv
      <4> QED
        BY <2>2, <3>1, <4>2, NonceAssumption
    <3>3. \A k \in Keys : uses[k] <= 1 /\ (uses[k] > 0 => cache[k] # Never)
      BY <3>1 DEF NCInv, CountInv
    <3>4. uses[x] = 0
      BY <1>1, <1>3, <1>4, <3>2, <3>3
    <3> QED
      BY <1>1, <1>2, <1>3, <1>4, <3>2, <3>3, <3>4, NonceAssumption
  <2> QED
    BY <2>2, <2>3, <2>4 DEF CountInv
<1> QED
  BY <1>5, <1>6, <1>7 DEF NCInv

LEMMA NCNext == NCInv /\ [Next]_vars => NCInv'
<1> SUFFICES ASSUME NCInv, [Next]_vars PROVE NCInv'
  OBVIOUS
<1>1. ASSUME NEW c \in Callers, Check(c) PROVE NCInv'
  BY <1>1, RefuseStep, AcceptStep
<1>2. CASE UNCHANGED vars
  <2>1. Used' = Used
    BY <1>2 DEF vars, Used
  <2> QED
    BY <1>2, <2>1 DEF vars, NCInv, TypeOK, TimeInv, CountInv
<1> QED
  BY <1>1, <1>2, TickStep, CallStep DEF Next

-----------------------------------------------------------------------------
\* The theorems.

\* Every behaviour keeps the types, and a held key the time of the call that
\* accepted it.
THEOREM NonceTypeCorrect == Spec => []TypeOK
<1>1. NCInv => TypeOK
  BY DEF NCInv
<1> QED
  BY <1>1, NCInit, NCNext, PTL DEF Spec

\* verifier.go:184: up to Limit nonces are accepted once each, for ever.
THEOREM FewAreNeverReusedHolds == Spec => []FewAreNeverReused
<1>1. NCInv => FewAreNeverReused
  BY DEF NCInv, CountInv, FewAreNeverReused
<1> QED
  BY <1>1, NCInit, NCNext, PTL DEF Spec

\* verifier.go:161: a nonce is accepted again only when more than the ttl has
\* passed since the call that accepted it read the clock.
THEOREM NoReplayHolds == Spec => NoReplay
<1>1. NCInv /\ [Next]_vars =>
        [\A k \in Keys : uses[k] > 0 /\ uses'[k] > uses[k] => clock - began[k] > TTL]_vars
  <2> SUFFICES ASSUME NCInv, Next, NEW k \in Keys, uses[k] > 0, uses'[k] > uses[k]
               PROVE  clock - began[k] > TTL
    OBVIOUS
  <2>1. uses[k] \in Nat
    BY DEF NCInv, TypeOK
  <2>2. PICK c \in Callers : Check(c)
    BY <2>1 DEF Next, Tick, Call
  <2>3. now[c] \in Nat /\ now[c] <= clock
    BY <2>2 DEF Check, NCInv, TypeOK, TimeInv
  <2>4. Cleaned(now[c])[key[c]] = Never /\ key[c] = k
    BY <2>1, <2>2 DEF Check, NCInv, TypeOK
  <2>5. began[k] \in Nat /\ (cache[k] = began[k] \/ clock - began[k] > TTL)
    BY DEF NCInv, TimeInv
  <2>6. Cleaned(now[c])[k] # cache[k] => clock - cache[k] > TTL
    BY <2>3, CleanedFacts
  <2> QED
    BY <2>4, <2>5, <2>6, NonceAssumption
<1> QED
  BY <1>1, NCInit, NCNext, PTL DEF Spec, NoReplay

\* verifier.go:184: above Limit + 1 keys, a call leaves no expired one.
THEOREM OnlyLiveAboveLimitHolds == Spec => OnlyLiveAboveLimit
<1> DEFINE Live ==
      cache' # cache /\ Cardinality(Held') > Limit + 1 =>
        \E c \in Callers :
          /\ now[c] # Never /\ now'[c] = Never
          /\ \A k \in Held' : now[c] - cache'[k] <= TTL
<1>1. NCInv /\ [Next]_vars => [Live]_vars
  <2> SUFFICES ASSUME NCInv, Next, cache' # cache, Cardinality(Held') > Limit + 1
               PROVE  \E c \in Callers :
                        /\ now[c] # Never /\ now'[c] = Never
                        /\ \A k \in Held' : now[c] - cache'[k] <= TTL
    OBVIOUS
  <2>1. PICK c \in Callers : Check(c)
    BY DEF Next, Tick, Call
  <2> DEFINE kept == Cleaned(now[c])
  <2>2. now[c] \in Nat /\ now[c] <= clock /\ key[c] \in Keys /\ now \in [Callers -> Nat \cup {Never}]
    BY <2>1 DEF Check, NCInv, TypeOK, TimeInv
  <2>3. /\ kept \in [Keys -> Nat \cup {Never}]
        /\ \A k \in Keys : kept[k] \in {Never, cache[k]}
        /\ Cardinality(Held) > Limit => \A k \in Keys : kept[k] # Never => now[c] - kept[k] <= TTL
    BY <2>2, CleanedFacts
  <2>4. cache' \in {kept, [kept EXCEPT ![key[c]] = now[c]]} /\ now' = [now EXCEPT ![c] = Never]
    BY <2>1 DEF Check
  <2> HIDE DEF kept
  <2>5. Cardinality(Held) > Limit
    <3>1. Held' \subseteq Held \cup {key[c]}
      BY <2>2, <2>3, <2>4 DEF Held
    <3>2. IsFiniteSet(Held) /\ Cardinality(Held) \in Nat
      <4>1. Held \subseteq Used
        BY DEF Held, Used, NCInv, CountInv
      <4> QED
        BY <4>1, FS_Subset, FS_CardinalityType DEF NCInv, CountInv
    <3>3. /\ IsFiniteSet(Held \cup {key[c]})
          /\ Cardinality(Held \cup {key[c]}) <= Cardinality(Held) + 1
          /\ Cardinality(Held \cup {key[c]}) \in Nat
      BY <3>2, FS_AddElement, FS_CardinalityType
    <3>4. Cardinality(Held') <= Cardinality(Held \cup {key[c]}) /\ Cardinality(Held') \in Nat
      BY <3>1, <3>3, FS_Subset, FS_CardinalityType
    <3> QED
      BY <3>2, <3>3, <3>4, NonceAssumption
  <2>6. \A k \in Held' : now[c] - cache'[k] <= TTL
    <3>1. \A k \in Keys : cache'[k] # Never => cache'[k] = kept[k] \/ cache'[k] = now[c]
      BY <2>2, <2>3, <2>4
    <3>2. \A k \in Keys : kept[k] # Never => now[c] - kept[k] <= TTL
      BY <2>3, <2>5
    <3> QED
      BY <2>2, <3>1, <3>2, NonceAssumption DEF Held
  <2> QED
    BY <2>1, <2>2, <2>4, <2>6, NonceAssumption
<1> QED
  BY <1>1, NCInit, NCNext, PTL DEF Spec, OnlyLiveAboveLimit
=============================================================================
