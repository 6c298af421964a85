----------------------------- MODULE NonceCache -----------------------------
(***************************************************************************)
(* NonceCache of verifier.go: concurrent calls of CheckAndAdd.  A call     *)
(* reads the clock before it takes the lock, so the calls decide in        *)
(* another order than that of their times.  A key, the ID hash followed by *)
(* the nonce, is a member of Keys.                                         *)
(***************************************************************************)
EXTENDS Integers, FiniteSets

CONSTANTS
  Callers,   \* goroutines that call CheckAndAdd
  Keys,      \* the keys they pass
  Limit,     \* how many keys are held before expired ones are dropped; 1000
  TTL,       \* time after which a key has expired
  EndOfTime, \* bound of the clock
  Never      \* no time

ASSUME NonceAssumption == Limit \in Nat /\ TTL \in Nat /\ EndOfTime \in Nat /\ Never \notin Nat

VARIABLES
  clock,     \* the time
  key,       \* the key each caller passed
  now,       \* the time each caller read; Never between two calls
  cache,     \* the time held with each key; Never for a key that is not held
  began,     \* history: when the last call that accepted a key read the clock
  uses       \* history: how many calls accepted each key

vars == <<clock, key, now, cache, began, uses>>

Init ==
  /\ clock = 0
  /\ key \in [Callers -> Keys] /\ now = [c \in Callers |-> Never]
  /\ cache = [k \in Keys |-> Never]
  /\ began = [k \in Keys |-> Never] /\ uses = [k \in Keys |-> 0]

Held == {k \in Keys : cache[k] # Never}

-----------------------------------------------------------------------------
Tick ==
  /\ clock < EndOfTime
  /\ clock' = clock + 1
  /\ UNCHANGED <<key, now, cache, began, uses>>

\* The key is built and the clock read, outside the lock.
Call(c, k) ==
  /\ now[c] = Never
  /\ key' = [key EXCEPT ![c] = k]
  /\ now' = [now EXCEPT ![c] = clock]
  /\ UNCHANGED <<clock, cache, began, uses>>

\* Mutant: a key expires as soon as its age is the ttl.
ExpiredAtTTL(k, t) == cache[k] # Never /\ t - cache[k] >= TTL

Expired(k, t) == cache[k] # Never /\ t - cache[k] > TTL

\* Mutant: the limit itself is too many.
CleanedAtLimit(t) ==
  IF Cardinality(Held) >= Limit THEN [k \in Keys |-> IF Expired(k, t) THEN Never ELSE cache[k]]
  ELSE cache

\* Mutant: no key is ever dropped.
KeepAll(t) == cache

\* The keys that a caller that read t keeps: expired ones go when there are many.
Cleaned(t) ==
  IF Cardinality(Held) > Limit THEN [k \in Keys |-> IF Expired(k, t) THEN Never ELSE cache[k]]
  ELSE cache

\* Mutant: a refused nonce counts from now on.
CheckRefreshes(c) ==
  /\ now[c] # Never
  /\ LET kept == Cleaned(now[c]) IN
       /\ cache' = [kept EXCEPT ![key[c]] = now[c]]
       /\ IF kept[key[c]] # Never THEN UNCHANGED <<began, uses>>
          ELSE /\ began' = [began EXCEPT ![key[c]] = now[c]]
               /\ uses' = [uses EXCEPT ![key[c]] = @ + 1]
  /\ now' = [now EXCEPT ![c] = Never]
  /\ UNCHANGED <<clock, key>>

\* CheckAndAdd under the lock.
Check(c) ==
  /\ now[c] # Never
  /\ LET kept == Cleaned(now[c]) IN
       IF kept[key[c]] # Never
       THEN /\ cache' = kept
            /\ UNCHANGED <<began, uses>>
       ELSE /\ cache' = [kept EXCEPT ![key[c]] = now[c]]
            /\ began' = [began EXCEPT ![key[c]] = now[c]]
            /\ uses' = [uses EXCEPT ![key[c]] = @ + 1]
  /\ now' = [now EXCEPT ![c] = Never]
  /\ UNCHANGED <<clock, key>>

Next == Tick \/ (\E c \in Callers : Check(c) \/ \E k \in Keys : Call(c, k))

Spec == Init /\ [][Next]_vars
-----------------------------------------------------------------------------
\* The types of the variables.  A held key has the time that the call that
\* accepted it read, whatever calls were refused since.
TypeOK ==
  /\ clock \in 0..EndOfTime
  /\ key \in [Callers -> Keys]
  /\ now \in [Callers -> Nat \cup {Never}]
  /\ cache \in [Keys -> Nat \cup {Never}]
  /\ began \in [Keys -> Nat \cup {Never}]
  /\ uses \in [Keys -> Nat]
  /\ \A k \in Keys : cache[k] \in {Never, began[k]}

\* verifier.go:161 "NonceCache prevents replay attacks": a nonce is accepted again
\* only when more than the ttl has passed since the call that accepted it read
\* the clock, however long that call, the one that drops the nonce and the one
\* that accepts it again wait for the lock.
NoReplay ==
  [][\A k \in Keys : uses[k] > 0 /\ uses'[k] > uses[k] => clock - began[k] > TTL]_vars

Used == {k \in Keys : uses[k] > 0}

\* verifier.go:184: a nonce is never accepted twice, expired or not, as long as
\* no more than Limit different ones were accepted.
FewAreNeverReused == Cardinality(Used) <= Limit => \A k \in Keys : uses[k] <= 1

\* verifier.go:184: a call that leaves more than Limit + 1 keys leaves none that
\* had expired when it read the clock: above that, only the rate of the calls
\* bounds the cache.
OnlyLiveAboveLimit ==
  [][cache' # cache /\ Cardinality(Held') > Limit + 1 =>
       \E c \in Callers :
         /\ now[c] # Never /\ now'[c] = Never
         /\ \A k \in Held' : now[c] - cache'[k] <= TTL]_vars
=============================================================================
