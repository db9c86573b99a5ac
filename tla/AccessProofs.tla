---------------------------- MODULE AccessProofs ----------------------------
(***************************************************************************)
(* Proofs about who gets in.                                               *)
(*                                                                         *)
(* The API keys, for any number of keys, concurrent Verify and Revoke      *)
(* calls and argon2 slots: KeysInv is the inductive invariant.  CacheInv   *)
(* rests on what a Verify carries from one of its steps to the next, and   *)
(* on each row holding the last key minted under its id.                   *)
(*                                                                         *)
(* The throttling of failed authentications, for any number of addresses   *)
(* and attempts and any limits: ThrottleInv, the inductive invariant,      *)
(* relates every recorded time to the clock; what pruned returns is shown  *)
(* by looking at the least prefix that would break it.                     *)
(***************************************************************************)
EXTENDS ApiKeys, Throttling, FiniteSetTheorems, WellFoundedInduction, NaturalsInduction, TLAPS

\* A row holds the last key that was minted under its id.
RowsHoldLastMinted ==
    \A i \in Ids : Live(i) =>
       \E n \in DOMAIN minted : /\ minted[n] = <<i, table[i]>>
                                /\ \A m \in DOMAIN minted : minted[m][1] = i => m <= n

\* Past the parse a Verify has a well-formed key, and it compares its secret
\* with one that was minted under its id.
ComparesMinted ==
    \A r \in Requests :
       /\ step[r] \in {"lookup", "queue", "argon"} => key[r] \in Keys
       /\ step[r] \in {"queue", "argon"} => <<key[r][1], hash[r]>> \in Minted

KeysInv ==
    /\ TypeOK /\ IsFiniteSet(Hashing)
    /\ LockMatchesStep /\ PassedRecheckLive /\ CachedIdsLive
    /\ OnlyMintedKeysPass /\ RowsHoldLastMinted /\ ComparesMinted

\* The invariant implies that a revoked key is cached only where its row id
\* has been handed out again: its row is live, with a key minted later.
LEMMA KeysInvImpliesCacheInv == KeysInv => CacheInv
  <1> SUFFICES ASSUME KeysInv PROVE RevokedCachedOnlyByReuse
    BY DEF KeysInv, CacheInv
  <1> SUFFICES ASSUME NEW i \in DOMAIN minted, minted[i] \in Revoked \cap verified
               PROVE  \E j \in DOMAIN minted : i < j /\ minted[j][1] = minted[i][1]
    BY DEF RevokedCachedOnlyByReuse
  <1> DEFINE id == minted[i][1]
  <1>1. minted[i] \in Keys /\ DOMAIN minted \subseteq Nat
    BY DEF KeysInv, TypeOK
  <1>2. id \in Ids /\ table[id] # minted[i][2] /\ Live(id)
    BY <1>1 DEF Revoked, KeysInv, CachedIdsLive, Keys
  <1>3. PICK n \in DOMAIN minted : /\ minted[n] = <<id, table[id]>>
                                   /\ \A m \in DOMAIN minted : minted[m][1] = id => m <= n
    BY <1>2 DEF KeysInv, RowsHoldLastMinted
  <1>4. i <= n /\ i # n /\ minted[n][1] = id
    BY <1>1, <1>2, <1>3
  <1> QED
    BY <1>1, <1>4

\* At the start there are no keys, and nobody verifies one.
LEMMA KeysInit == Init => KeysInv
  <1> SUFFICES ASSUME Init PROVE KeysInv
    OBVIOUS
  <1>1. Hashing = {}
    BY DEF Init, Hashing
  <1>2. IsFiniteSet(Hashing) /\ Cardinality(Hashing) = 0
    BY <1>1, FS_EmptySet
  <1>3. TypeOK
    BY <1>2, ArgonAssumption DEF Init, TypeOK, Presented, Steps
  <1>4. LockMatchesStep /\ PassedRecheckLive /\ CachedIdsLive /\ OnlyMintedKeysPass
    BY FreeAssumption DEF Init, LockMatchesStep, PassedRecheckLive, CachedIdsLive, OnlyMintedKeysPass
  <1>5. RowsHoldLastMinted /\ ComparesMinted
    BY DEF Init, RowsHoldLastMinted, ComparesMinted, Live
  <1> QED
    BY <1>2, <1>3, <1>4, <1>5 DEF KeysInv

\* A key is minted: its row holds the last key of its id.
LEMMA CreateStep ==
    ASSUME KeysInv, NEW s \in Secrets, Create(s)
    PROVE  KeysInv'
  <1>1. UNCHANGED <<verified, mu, step, key, hash, admin>>
    BY DEF Create
  <1>2. PICK id \in Ids : /\ table' = [table EXCEPT ![id] = s]
                          /\ minted' = Append(minted, <<id, s>>)
    BY DEF Create
  <1> DEFINE N == Len(minted)
             k == <<id, s>>
  <1>3. k \in Keys /\ k[1] = id /\ k[2] = s
    BY DEF Keys
  <1>4. minted \in Seq(Keys) /\ N \in Nat /\ DOMAIN minted = 1..N
    BY DEF KeysInv, TypeOK
  <1> HIDE DEF k
  <1>5. /\ minted' \in Seq(Keys) /\ DOMAIN minted' = 1..N + 1
        /\ minted'[N + 1] = k /\ \A n \in DOMAIN minted : minted'[n] = minted[n]
    <2>1. minted' = Append(minted, k)
      BY <1>2 DEF k
    <2> QED
      BY <1>3, <1>4, <2>1
  <1> HIDE DEF N
  <1>6. Minted \subseteq Minted'
    BY <1>4, <1>5 DEF Minted
  <1>7. /\ table' \in [Ids -> Secrets \cup {NoSecret}]
        /\ table'[id] = s /\ \A i \in Ids : i # id => table'[i] = table[i]
    BY <1>2 DEF KeysInv, TypeOK
  <1>8. \A i \in Ids : Live(i) => Live(i)'
    BY <1>7, NoSecretAssumption DEF Live
  <1>9. Hashing' = Hashing
    BY <1>1 DEF Hashing
  <1>10. TypeOK' /\ IsFiniteSet(Hashing')
    BY <1>1, <1>5, <1>7, <1>9 DEF KeysInv, TypeOK
  <1>11. \A j \in Ids : Revoking(j) => Revoking(j)'
    BY <1>1 DEF Revoking
  <1>12. \A m \in Keys : m[1] \in Ids
    BY DEF Keys
  <1>13. \A r \in Requests : step[r] = "insert" => key[r] \in Keys
    <2>1. Minted \subseteq Keys
      BY <1>4 DEF Minted
    <2> QED
      BY <2>1 DEF KeysInv, OnlyMintedKeysPass
  <1>14. LockMatchesStep' /\ PassedRecheckLive' /\ CachedIdsLive'
    <2>1. LockMatchesStep'
      BY <1>1 DEF KeysInv, LockMatchesStep
    <2>2. PassedRecheckLive'
      BY <1>1, <1>8, <1>11, <1>12, <1>13 DEF KeysInv, PassedRecheckLive
    <2>3. CachedIdsLive'
      BY <1>1, <1>8, <1>11, <1>12 DEF KeysInv, CachedIdsLive, TypeOK
    <2> QED
      BY <2>1, <2>2, <2>3
  <1>15. OnlyMintedKeysPass' /\ ComparesMinted'
    BY <1>1, <1>6 DEF KeysInv, OnlyMintedKeysPass, ComparesMinted
  <1>16. RowsHoldLastMinted'
    <2> SUFFICES ASSUME NEW i \in Ids, Live(i)'
                 PROVE  \E n \in DOMAIN minted' : /\ minted'[n] = <<i, table'[i]>>
                                                  /\ \A m \in DOMAIN minted' : minted'[m][1] = i => m <= n
      BY DEF RowsHoldLastMinted
    <2>1. CASE i = id
      <3>1. minted'[N + 1] = <<i, table'[i]>> /\ N + 1 \in DOMAIN minted' /\ \A m \in DOMAIN minted' : m <= N + 1
        BY <1>4, <1>5, <1>7, <2>1 DEF k
      <3> QED
        BY <3>1
    <2>2. CASE i # id
      <3>1. Live(i) /\ table'[i] = table[i]
        BY <1>7, <2>2 DEF Live
      <3>2. PICK n \in DOMAIN minted : /\ minted[n] = <<i, table[i]>>
                                       /\ \A m \in DOMAIN minted : minted[m][1] = i => m <= n
        BY <3>1 DEF KeysInv, RowsHoldLastMinted
      <3>3. \A m \in DOMAIN minted' : minted'[m][1] = i => m \in DOMAIN minted
        BY <1>3, <1>4, <1>5, <2>2
      <3>4. n \in DOMAIN minted' /\ minted'[n] = <<i, table'[i]>>
        BY <1>4, <1>5, <3>1, <3>2
      <3>5. \A m \in DOMAIN minted' : minted'[m][1] = i => m <= n
        BY <1>5, <3>2, <3>3
      <3> QED
        BY <3>4, <3>5
    <2> QED
      BY <2>1, <2>2
  <1> QED
    BY <1>10, <1>14, <1>15, <1>16 DEF KeysInv

\* A row is deleted: the purge that is still to come covers its cached key.
LEMMA RevokeDeleteStep ==
    ASSUME KeysInv, NEW a \in Admins, NEW i \in Ids, RevokeDelete(a, i)
    PROVE  KeysInv'
  <1>1. UNCHANGED <<minted, verified, mu, step, key, hash>>
    BY DEF RevokeDelete
  <1>2. /\ table' \in [Ids -> Secrets \cup {NoSecret}]
        /\ table'[i] = NoSecret /\ \A j \in Ids : j # i => table'[j] = table[j]
    BY DEF RevokeDelete, KeysInv, TypeOK
  <1>3. /\ admin' \in [Admins -> Ids \cup {0}] /\ admin[a] = 0
        /\ admin'[a] = i /\ \A c \in Admins : c # a => admin'[c] = admin[c]
    BY DEF RevokeDelete, KeysInv, TypeOK
  <1>4. Hashing' = Hashing /\ Minted' = Minted
    BY <1>1 DEF Hashing, Minted
  <1>5. TypeOK' /\ IsFiniteSet(Hashing')
    BY <1>1, <1>2, <1>3, <1>4 DEF KeysInv, TypeOK
  <1>6. \A j \in Ids : Live(j) \/ Revoking(j) => Live(j)' \/ Revoking(j)'
    BY <1>2, <1>3 DEF Live, Revoking, Ids
  <1>7. \A m \in Keys : m[1] \in Ids
    BY DEF Keys
  <1>8. \A r \in Requests : step[r] = "insert" => key[r] \in Keys
    <2>1. Minted \subseteq Keys
      BY DEF Minted, KeysInv, TypeOK
    <2> QED
      BY <2>1 DEF KeysInv, OnlyMintedKeysPass
  <1>9. LockMatchesStep'
    BY <1>1 DEF KeysInv, LockMatchesStep
  <1>10. PassedRecheckLive'
    BY <1>1, <1>6, <1>7, <1>8 DEF KeysInv, PassedRecheckLive
  <1>11. CachedIdsLive'
    BY <1>1, <1>6, <1>7 DEF KeysInv, CachedIdsLive, TypeOK
  <1>12. OnlyMintedKeysPass' /\ ComparesMinted'
    BY <1>1, <1>4 DEF KeysInv, OnlyMintedKeysPass, ComparesMinted
  <1>13. RowsHoldLastMinted'
    BY <1>1, <1>2 DEF KeysInv, RowsHoldLastMinted, Live
  <1> QED
    BY <1>5, <1>9, <1>10, <1>11, <1>12, <1>13 DEF KeysInv

\* The purge, under mu, when no Verify is between its re-check and its insert.
LEMMA RevokePurgeStep ==
    ASSUME KeysInv, NEW a \in Admins, RevokePurge(a)
    PROVE  KeysInv'
  <1>1. /\ mu = Free /\ verified' = {k \in verified : k[1] # admin[a]}
        /\ UNCHANGED <<table, minted, mu, step, key, hash>>
    BY DEF RevokePurge
  <1>2. /\ admin' \in [Admins -> Ids \cup {0}]
        /\ admin'[a] = 0 /\ \A c \in Admins : c # a => admin'[c] = admin[c]
    BY DEF RevokePurge, KeysInv, TypeOK
  <1>3. Hashing' = Hashing /\ Minted' = Minted
    BY <1>1 DEF Hashing, Minted
  <1>4. TypeOK' /\ IsFiniteSet(Hashing')
    BY <1>1, <1>2, <1>3 DEF KeysInv, TypeOK
  <1>5. LockMatchesStep'
    BY <1>1 DEF KeysInv, LockMatchesStep
  <1>6. PassedRecheckLive'
    BY <1>1, FreeAssumption DEF KeysInv, LockMatchesStep, PassedRecheckLive
  <1>7. \A i \in Ids : i # admin[a] /\ Revoking(i) => Revoking(i)'
    BY <1>2 DEF Revoking
  <1>8. \A k \in verified : k[1] \in Ids
    BY DEF KeysInv, TypeOK, Keys
  <1>9. CachedIdsLive'
    BY <1>1, <1>7, <1>8 DEF KeysInv, CachedIdsLive, Live
  <1>10. OnlyMintedKeysPass' /\ ComparesMinted'
    BY <1>1, <1>3 DEF KeysInv, OnlyMintedKeysPass, ComparesMinted
  <1>11. RowsHoldLastMinted'
    BY <1>1 DEF KeysInv, RowsHoldLastMinted, Live
  <1> QED
    BY <1>4, <1>5, <1>6, <1>9, <1>10, <1>11 DEF KeysInv

-----------------------------------------------------------------------------
(* Verify *)

\* A request that goes anywhere but into argon2 leaves the slots in bounds.
LEMMA SlotsStep ==
    ASSUME KeysInv, NEW r \in Requests, NEW s \in Steps \ {"argon"}, step' = [step EXCEPT ![r] = s]
    PROVE  IsFiniteSet(Hashing') /\ Cardinality(Hashing') <= ArgonSlots
  <1>1. Hashing' \subseteq Hashing
    BY DEF Hashing, KeysInv, TypeOK
  <1>2. IsFiniteSet(Hashing) /\ Cardinality(Hashing) <= ArgonSlots
    BY DEF KeysInv, TypeOK
  <1>3. IsFiniteSet(Hashing') /\ Cardinality(Hashing') <= Cardinality(Hashing)
    BY <1>1, <1>2, FS_Subset
  <1>4. Cardinality(Hashing') \in Nat /\ Cardinality(Hashing) \in Nat
    BY <1>2, <1>3, FS_CardinalityType
  <1> QED
    BY <1>2, <1>3, <1>4, ArgonAssumption

\* What is left to show of a step of Verify that takes request r to s.
LEMMA VerifyFrame ==
    ASSUME KeysInv, NEW r \in Requests, NEW s \in Steps, step' = [step EXCEPT ![r] = s],
           UNCHANGED <<table, minted, admin>>,
           key' \in [Requests -> Presented], \A q \in Requests : q # r => key'[q] = key[q],
           hash' \in [Requests -> Secrets \cup {NoSecret}],
           \A q \in Requests : q # r => hash'[q] = hash[q],
           verified' \subseteq Keys, verified' \subseteq Minted,
           \A k \in verified' : Live(k[1]) \/ Revoking(k[1]),
           mu' \in Requests \cup {Free}, LockMatchesStep',
           s = "insert" => Live(key'[r][1]) \/ Revoking(key'[r][1]),
           s \in {"lock", "insert", "valid"} => key'[r] \in Minted,
           s \in {"lookup", "queue", "argon"} => key'[r] \in Keys,
           s \in {"queue", "argon"} => <<key'[r][1], hash'[r]>> \in Minted,
           IsFiniteSet(Hashing'), Cardinality(Hashing') <= ArgonSlots
    PROVE  KeysInv'
  <1>1. /\ step' \in [Requests -> Steps]
        /\ step'[r] = s /\ \A q \in Requests : q # r => step'[q] = step[q]
    BY DEF KeysInv, TypeOK
  <1>2. Minted' = Minted
    BY DEF Minted
  <1>3. TypeOK'
    BY <1>1 DEF KeysInv, TypeOK
  <1>4. PassedRecheckLive'
    BY <1>1 DEF KeysInv, PassedRecheckLive, Live, Revoking
  <1>5. CachedIdsLive'
    BY DEF CachedIdsLive, Live, Revoking
  <1>6. OnlyMintedKeysPass' /\ ComparesMinted'
    BY <1>1, <1>2 DEF KeysInv, OnlyMintedKeysPass, ComparesMinted
  <1>7. RowsHoldLastMinted'
    BY DEF KeysInv, RowsHoldLastMinted, Live
  <1> QED
    BY <1>3, <1>4, <1>5, <1>6, <1>7 DEF KeysInv

\* mu stays with its holder when neither it nor the request gets past Lock.
LEMMA LockUnchanged ==
    ASSUME KeysInv, NEW r \in Requests, NEW s \in Steps, step' = [step EXCEPT ![r] = s],
           step[r] # "insert", s # "insert", UNCHANGED mu
    PROVE  LockMatchesStep'
  BY DEF KeysInv, TypeOK, LockMatchesStep

\* The steps of Verify up to its re-check.
LEMMA VerifyReadStep ==
    ASSUME KeysInv, NEW r \in Requests,
           \/ \E k \in Presented : VerifyCall(r, k)
           \/ VerifyCache(r)
           \/ \E fails \in BOOLEAN : VerifyLookup(r, fails)
           \/ VerifySecret(r)
    PROVE  KeysInv'
  <1>1. /\ key \in [Requests -> Presented] /\ hash \in [Requests -> Secrets \cup {NoSecret}]
        /\ verified \subseteq Keys /\ verified \subseteq Minted
        /\ \A k \in verified : Live(k[1]) \/ Revoking(k[1])
        /\ mu \in Requests \cup {Free}
    BY DEF KeysInv, TypeOK, OnlyMintedKeysPass, CachedIdsLive
  <1>2. ASSUME NEW k \in Presented, VerifyCall(r, k) PROVE KeysInv'
    <2>1. /\ step' = [step EXCEPT ![r] = "cache"] /\ step[r] # "insert"
          /\ key' = [key EXCEPT ![r] = k] /\ UNCHANGED <<table, minted, verified, mu, hash, admin>>
      BY <1>2 DEF VerifyCall, goto
    <2>2. "cache" \in Steps \ {"argon"}
      BY DEF Steps
    <2>3. LockMatchesStep'
      BY <2>1, <2>2, LockUnchanged
    <2>4. IsFiniteSet(Hashing') /\ Cardinality(Hashing') <= ArgonSlots
      BY <2>1, <2>2, SlotsStep
    <2> QED
      BY <1>1, <2>1, <2>2, <2>3, <2>4, VerifyFrame
  <1>3. ASSUME VerifyCache(r) PROVE KeysInv'
    <2> DEFINE s == IF key[r] \in verified THEN "valid"
                    ELSE IF key[r] = Malformed THEN "invalid" ELSE "lookup"
    <2>1. /\ step' = [step EXCEPT ![r] = s] /\ step[r] # "insert"
          /\ UNCHANGED <<table, minted, verified, mu, key, hash, admin>>
      BY <1>3 DEF VerifyCache, goto
    <2>2. s \in Steps \ {"argon"} /\ s \in {"valid", "invalid", "lookup"}
      BY DEF Steps
    <2>3. s = "valid" => key[r] \in Minted
      BY <1>1
    <2>4. s = "lookup" => key[r] \in Keys
      BY <1>1 DEF Presented
    <2> HIDE DEF s
    <2>5. LockMatchesStep'
      BY <2>1, <2>2, LockUnchanged
    <2>6. IsFiniteSet(Hashing') /\ Cardinality(Hashing') <= ArgonSlots
      BY <2>1, <2>2, SlotsStep
    <2> QED
      BY <1>1, <2>1, <2>2, <2>3, <2>4, <2>5, <2>6, VerifyFrame
  <1>4. ASSUME NEW fails \in BOOLEAN, VerifyLookup(r, fails) PROVE KeysInv'
    <2>1. key[r] \in Keys /\ step[r] # "insert"
      BY <1>4 DEF VerifyLookup, KeysInv, ComparesMinted
    <2>2. UNCHANGED <<table, minted, verified, mu, key, admin>>
      BY <1>4 DEF VerifyLookup
    <2>3. CASE Live(key[r][1]) /\ hash' = [hash EXCEPT ![r] = table[key[r][1]]] /\ goto(r, "queue")
      <3> DEFINE i == key[r][1]
      <3>1. i \in Ids
        BY <2>1 DEF Keys
      <3>2. <<i, table[i]>> \in Minted
        BY <2>3, <3>1 DEF KeysInv, RowsHoldLastMinted, Minted
      <3>3. table[i] \in Secrets \cup {NoSecret}
        BY <3>1 DEF KeysInv, TypeOK
      <3>4. hash' = [hash EXCEPT ![r] = table[i]] /\ step' = [step EXCEPT ![r] = "queue"]
        BY <2>3 DEF goto
      <3>5. "queue" \in Steps \ {"argon"}
        BY DEF Steps
      <3>6. LockMatchesStep'
        BY <2>1, <2>2, <3>4, <3>5, LockUnchanged
      <3>7. IsFiniteSet(Hashing') /\ Cardinality(Hashing') <= ArgonSlots
        BY <3>4, <3>5, SlotsStep
      <3>8. /\ hash' \in [Requests -> Secrets \cup {NoSecret}]
            /\ \A q \in Requests : q # r => hash'[q] = hash[q]
            /\ <<key'[r][1], hash'[r]>> \in Minted
        BY <1>1, <2>2, <3>2, <3>3, <3>4
      <3> HIDE DEF i
      <3> QED
        BY <1>1, <2>1, <2>2, <3>4, <3>5, <3>6, <3>7, <3>8, VerifyFrame
    <2>4. CASE goto(r, "invalid") /\ UNCHANGED hash
      <3>1. step' = [step EXCEPT ![r] = "invalid"]
        BY <2>4 DEF goto
      <3>2. "invalid" \in Steps \ {"argon"}
        BY DEF Steps
      <3>3. LockMatchesStep'
        BY <2>1, <2>2, <3>1, <3>2, LockUnchanged
      <3>4. IsFiniteSet(Hashing') /\ Cardinality(Hashing') <= ArgonSlots
        BY <3>1, <3>2, SlotsStep
      <3> QED
        BY <1>1, <2>2, <2>4, <3>1, <3>2, <3>3, <3>4, VerifyFrame
    <2> QED
      BY <1>4, <2>3, <2>4 DEF VerifyLookup
  <1>5. ASSUME VerifySecret(r) PROVE KeysInv'
    <2> DEFINE s == IF key[r][2] = hash[r] THEN "lock" ELSE "invalid"
    <2>1. /\ step' = [step EXCEPT ![r] = s] /\ step[r] = "argon"
          /\ hash' = [hash EXCEPT ![r] = NoSecret]
          /\ UNCHANGED <<table, minted, verified, mu, key, admin>>
      BY <1>5 DEF VerifySecret, goto
    <2>2. s \in Steps \ {"argon"} /\ s \in {"lock", "invalid"}
      BY DEF Steps
    <2>3. s = "lock" => key[r] \in Minted
      <3>1. <<key[r][1], hash[r]>> \in Minted /\ key[r] \in Keys
        BY <2>1 DEF KeysInv, ComparesMinted
      <3>2. key[r] = <<key[r][1], key[r][2]>>
        BY <3>1 DEF Keys
      <3> QED
        BY <3>1, <3>2
    <2> HIDE DEF s
    <2>4. LockMatchesStep'
      BY <2>1, <2>2, LockUnchanged
    <2>5. IsFiniteSet(Hashing') /\ Cardinality(Hashing') <= ArgonSlots
      BY <2>1, <2>2, SlotsStep
    <2> QED
      BY <1>1, <2>1, <2>2, <2>3, <2>4, <2>5, VerifyFrame
  <1> QED
    BY <1>2, <1>3, <1>4, <1>5

\* A free slot of argonSem is taken.
LEMMA VerifyAcquireStep ==
    ASSUME KeysInv, NEW r \in Requests, VerifyAcquire(r)
    PROVE  KeysInv'
  <1>1. /\ step' = [step EXCEPT ![r] = "argon"] /\ step[r] = "queue" /\ Cardinality(Hashing) < ArgonSlots
        /\ UNCHANGED <<table, minted, verified, mu, key, hash, admin>>
    BY DEF VerifyAcquire, goto
  <1>2. /\ key \in [Requests -> Presented] /\ hash \in [Requests -> Secrets \cup {NoSecret}]
        /\ verified \subseteq Keys /\ verified \subseteq Minted
        /\ \A k \in verified : Live(k[1]) \/ Revoking(k[1])
        /\ mu \in Requests \cup {Free} /\ step \in [Requests -> Steps]
    BY DEF KeysInv, TypeOK, OnlyMintedKeysPass, CachedIdsLive
  <1>3. "argon" \in Steps
    BY DEF Steps
  <1>4. Hashing' = Hashing \cup {r}
    BY <1>1, <1>2 DEF Hashing
  <1>5. IsFiniteSet(Hashing)
    BY DEF KeysInv
  <1>6. IsFiniteSet(Hashing') /\ Cardinality(Hashing') <= ArgonSlots
    <2>0. r \notin Hashing
      BY <1>1 DEF Hashing
    <2>1. IsFiniteSet(Hashing \cup {r}) /\ Cardinality(Hashing \cup {r}) = Cardinality(Hashing) + 1
      BY <1>5, <2>0, FS_AddElement
    <2>2. Cardinality(Hashing \cup {r}) \in Nat /\ Cardinality(Hashing) \in Nat
      BY <1>5, <2>1, FS_CardinalityType
    <2> QED
      BY <1>1, <1>4, <2>1, <2>2, ArgonAssumption
  <1>7. LockMatchesStep'
    BY <1>1, <1>3, LockUnchanged
  <1>8. key[r] \in Keys /\ <<key[r][1], hash[r]>> \in Minted
    BY <1>1 DEF KeysInv, ComparesMinted
  <1> QED
    BY <1>1, <1>2, <1>3, <1>6, <1>7, <1>8, VerifyFrame

\* The re-check under mu: the row is there when mu is taken.
LEMMA VerifyRecheckStep ==
    ASSUME KeysInv, NEW r \in Requests, NEW fails \in BOOLEAN, VerifyRecheck(r, fails)
    PROVE  KeysInv'
  <1>1. step[r] = "lock" /\ mu = Free /\ UNCHANGED <<table, minted, verified, key, hash, admin>>
    BY DEF VerifyRecheck
  <1>2. /\ key \in [Requests -> Presented] /\ hash \in [Requests -> Secrets \cup {NoSecret}]
        /\ verified \subseteq Keys /\ verified \subseteq Minted
        /\ \A k \in verified : Live(k[1]) \/ Revoking(k[1])
        /\ mu \in Requests \cup {Free} /\ step \in [Requests -> Steps]
    BY DEF KeysInv, TypeOK, OnlyMintedKeysPass, CachedIdsLive
  <1>3. key[r] \in Minted
    BY <1>1 DEF KeysInv, OnlyMintedKeysPass
  <1>4. CASE Live(key[r][1]) /\ mu' = r /\ goto(r, "insert")
    <2>1. step' = [step EXCEPT ![r] = "insert"]
      BY <1>4 DEF goto
    <2>2. "insert" \in Steps \ {"argon"}
      BY DEF Steps
    <2>3. \A q \in Requests : step[q] # "insert"
      BY <1>1, FreeAssumption DEF KeysInv, LockMatchesStep
    <2>4. LockMatchesStep'
      BY <1>2, <1>4, <2>1, <2>3 DEF LockMatchesStep
    <2>5. IsFiniteSet(Hashing') /\ Cardinality(Hashing') <= ArgonSlots
      BY <2>1, <2>2, SlotsStep
    <2> QED
      BY <1>1, <1>2, <1>3, <1>4, <2>1, <2>2, <2>4, <2>5, VerifyFrame
  <1>5. CASE goto(r, "invalid") /\ UNCHANGED mu
    <2>1. step' = [step EXCEPT ![r] = "invalid"]
      BY <1>5 DEF goto
    <2>2. "invalid" \in Steps \ {"argon"}
      BY DEF Steps
    <2>3. LockMatchesStep'
      BY <1>1, <1>5, <2>1, <2>2, LockUnchanged
    <2>4. IsFiniteSet(Hashing') /\ Cardinality(Hashing') <= ArgonSlots
      BY <2>1, <2>2, SlotsStep
    <2> QED
      BY <1>1, <1>2, <1>5, <2>1, <2>2, <2>3, <2>4, VerifyFrame
  <1> QED
    BY <1>4, <1>5 DEF VerifyRecheck

\* The insert: its row is there, or a purge still waits for mu.
LEMMA VerifyInsertStep ==
    ASSUME KeysInv, NEW r \in Requests, VerifyInsert(r)
    PROVE  KeysInv'
  <1>1. /\ step[r] = "insert" /\ step' = [step EXCEPT ![r] = "valid"] /\ mu' = Free
        /\ verified' = verified \cup {key[r]} /\ UNCHANGED <<table, minted, key, hash, admin>>
    BY DEF VerifyInsert, goto
  <1>2. /\ key \in [Requests -> Presented] /\ hash \in [Requests -> Secrets \cup {NoSecret}]
        /\ verified \subseteq Keys /\ verified \subseteq Minted
        /\ \A k \in verified : Live(k[1]) \/ Revoking(k[1])
        /\ mu \in Requests \cup {Free} /\ step \in [Requests -> Steps]
    BY DEF KeysInv, TypeOK, OnlyMintedKeysPass, CachedIdsLive
  <1>3. /\ key[r] \in Minted /\ (Live(key[r][1]) \/ Revoking(key[r][1])) /\ mu = r
        /\ Minted \subseteq Keys
    BY <1>1 DEF KeysInv, OnlyMintedKeysPass, PassedRecheckLive, LockMatchesStep, Minted, TypeOK
  <1>4. "valid" \in Steps \ {"argon"}
    BY DEF Steps
  <1>5. LockMatchesStep'
    <2>1. \A q \in Requests : q # r => step[q] # "insert"
      BY <1>3 DEF KeysInv, LockMatchesStep
    <2> QED
      BY <1>1, <1>2, <2>1, FreeAssumption DEF LockMatchesStep
  <1>6. IsFiniteSet(Hashing') /\ Cardinality(Hashing') <= ArgonSlots
    BY <1>1, <1>4, SlotsStep
  <1>7. /\ verified' \subseteq Keys /\ verified' \subseteq Minted
        /\ \A k \in verified' : Live(k[1]) \/ Revoking(k[1])
    BY <1>1, <1>2, <1>3
  <1> QED
    BY <1>1, <1>2, <1>3, <1>4, <1>5, <1>6, <1>7, VerifyFrame

\* A restart keeps the table only.
LEMMA RestartStep == KeysInv /\ Restart => KeysInv'
  <1> SUFFICES ASSUME KeysInv, Restart PROVE KeysInv'
    OBVIOUS
  <1>1. Hashing' = {}
    BY DEF Restart, Hashing
  <1>2. IsFiniteSet(Hashing') /\ Cardinality(Hashing') = 0
    BY <1>1, FS_EmptySet
  <1>3. TypeOK'
    BY <1>2, ArgonAssumption DEF Restart, KeysInv, TypeOK, Presented, Steps
  <1>4. LockMatchesStep' /\ PassedRecheckLive' /\ CachedIdsLive' /\ OnlyMintedKeysPass' /\ ComparesMinted'
    BY FreeAssumption
    DEF Restart, LockMatchesStep, PassedRecheckLive, CachedIdsLive, OnlyMintedKeysPass, ComparesMinted
  <1>5. RowsHoldLastMinted'
    BY DEF Restart, KeysInv, RowsHoldLastMinted, Live
  <1> QED
    BY <1>2, <1>3, <1>4, <1>5 DEF KeysInv

\* A step leaves the invariant as it is.
LEMMA KeysStep == KeysInv /\ [Next]_vars => KeysInv'
  <1> SUFFICES ASSUME KeysInv, [Next]_vars PROVE KeysInv'
    OBVIOUS
  <1>1. CASE UNCHANGED vars
    BY <1>1
    DEF vars, KeysInv, TypeOK, Hashing, LockMatchesStep, PassedRecheckLive, CachedIdsLive, OnlyMintedKeysPass,
        Minted, RowsHoldLastMinted, ComparesMinted, Live, Revoking
  <1>2. ASSUME NEW r \in Requests, Verify(r) PROVE KeysInv'
    BY <1>2, VerifyReadStep, VerifyAcquireStep, VerifyRecheckStep, VerifyInsertStep DEF Verify
  <1>3. ASSUME NEW r \in Requests, NEW k \in Presented, VerifyCall(r, k) PROVE KeysInv'
    BY <1>3, VerifyReadStep
  <1> QED
    BY <1>1, <1>2, <1>3, CreateStep, RevokeDeleteStep, RevokePurgeStep, RestartStep DEF Next

-----------------------------------------------------------------------------
(* The property, for every value of the constants *)

\* The inductive invariant holds in every state.
THEOREM KeysInvariant == Spec => []KeysInv
  BY KeysInit, KeysStep, PTL DEF Spec

\* The cache agrees with the table and with mu, lets in only keys that were
\* minted, keeps a revoked key only where its row id was reused, and argon2
\* never takes more than its slots, for any number of calls.
THEOREM CacheConsistent == Spec => []CacheInv
  BY KeysInvariant, KeysInvImpliesCacheInv, PTL

-----------------------------------------------------------------------------
(* Throttling *)

\* A call that is about to record has read the clock within RecordDelay.
RecordsInTime ==
    \A r \in Attempts :
       /\ stage[r] \in {"verify", "record"} => ip[r] \in IPs
       /\ stage[r] = "record" => at[r] <= now /\ now <= at[r] + RecordDelay

\* No entry is about the future, and none of its failures is much younger than
\* the time it was last seen.
EntriesInTime ==
    \A i \in tracked :
       /\ entries[i].lockedUntil <= now + Lockout
       /\ \A k \in DOMAIN entries[i].failures :
             /\ entries[i].failures[k] <= now
             /\ entries[i].failures[k] <= entries[i].lastSeenMs + RecordDelay

ThrottleInv ==
    /\ ThrottleTypeOK /\ IsFiniteSet(tracked) /\ tick <= now
    /\ RecordsInTime /\ EntriesInTime

-----------------------------------------------------------------------------
(* pruned *)

\* A nonempty set of naturals has a least element.
LEMMA LeastOf ==
    ASSUME NEW T, T \subseteq Nat, T # {}
    PROVE  \E x \in T : \A y \in T : x <= y
  <1> DEFINE R == OpToRel(<, Nat)
  <1>1. \E x \in T : \A y \in T : ~ (<<y, x>> \in R)
    <2>1. IsWellFoundedOn(R, Nat)
      BY NatLessThanWellFounded
    <2> HIDE DEF R
    <2> QED
      BY <2>1, WFMin
  <1>2. \A x, y \in Nat : x < y => <<x, y>> \in R
    BY DEF OpToRel
  <1>3. \E Q : /\ \E x \in T : \A y \in T : ~ (<<y, x>> \in Q)
               /\ \A x, y \in Nat : x < y => <<x, y>> \in Q
    BY <1>1, <1>2, Zenon
  <1>4. PICK x \in T : \A y \in T : ~ (y < x)
    BY <1>3
  <1> QED
    BY <1>4

\* g is the table that the loop over the failures fills, up to the n-th.
Keeps(g, failures, t, n) ==
    \A i \in 0..n :
       g[i] = IF i = 0 THEN <<>>
              ELSE IF failures[i] > t - Window THEN Append(g[i - 1], failures[i])
                   ELSE g[i - 1]

\* The loop has a table for every list of failures.
LEMMA TableExists ==
    ASSUME NEW S, NEW s \in Seq(S), NEW t
    PROVE  \E g \in [0..Len(s) -> Seq(S)] : Keeps(g, s, t, Len(s))
  <1> DEFINE T == {n \in 0..Len(s) : ~ \E g \in [0..n -> Seq(S)] : Keeps(g, s, t, n)}
  <1>1. SUFFICES ASSUME T # {} PROVE FALSE
    OBVIOUS
  <1>2. PICK m \in T : \A y \in T : m <= y
    <2>1. T \subseteq Nat
      OBVIOUS
    <2> HIDE DEF T
    <2> QED
      BY <1>1, <2>1, LeastOf
  <1>3. CASE m = 0
    <2> DEFINE g == [i \in 0..0 |-> <<>>]
    <2>1. g \in [0..0 -> Seq(S)] /\ Keeps(g, s, t, 0)
      BY DEF Keeps
    <2> QED
      BY <1>2, <1>3, <2>1
  <1>4. CASE m # 0
    <2>1. m \in 1..Len(s) /\ m - 1 \in 0..Len(s) /\ m - 1 \notin T
      <3>1. m \in 0..Len(s)
        OBVIOUS
      <3> HIDE DEF T
      <3> QED
        BY <1>2, <1>4, <3>1
    <2>2. PICK g \in [0..(m - 1) -> Seq(S)] : Keeps(g, s, t, m - 1)
      BY <2>1
    <2> DEFINE e == IF s[m] > t - Window THEN Append(g[m - 1], s[m]) ELSE g[m - 1]
               h == [i \in 0..m |-> IF i = m THEN e ELSE g[i]]
    <2>3. s[m] \in S /\ g[m - 1] \in Seq(S)
      BY <2>1, <2>2
    <2>4. e \in Seq(S)
      BY <2>3
    <2>5. h \in [0..m -> Seq(S)]
      <3> HIDE DEF e
      <3> QED
        BY <2>1, <2>2, <2>4
    <2>6. Keeps(h, s, t, m)
      <3> SUFFICES ASSUME NEW i \in 0..m
                   PROVE  h[i] = IF i = 0 THEN <<>>
                                 ELSE IF s[i] > t - Window THEN Append(h[i - 1], s[i])
                                      ELSE h[i - 1]
        BY DEF Keeps
      <3>1. CASE i = m
        BY <2>1, <3>1
      <3>2. CASE i # m
        <4>1. i \in 0..(m - 1) /\ h[i] = g[i] /\ (i # 0 => h[i - 1] = g[i - 1])
          BY <2>1, <3>2
        <4> QED
          BY <2>2, <4>1 DEF Keeps
      <3> QED
        BY <3>1, <3>2
    <2> QED
      BY <1>2, <2>1, <2>5, <2>6
  <1> QED
    BY <1>3, <1>4

\* pruned is the last row of such a table.
LEMMA PrunedTable ==
    ASSUME NEW S, NEW s \in Seq(S), NEW t
    PROVE  \E g : Keeps(g, s, t, Len(s)) /\ pruned(s, t) = g[Len(s)]
  <1> DEFINE IsTable(g) == g = [n \in 0..Len(s) |->
                                  IF n = 0 THEN <<>>
                                  ELSE IF s[n] > t - Window THEN Append(g[n - 1], s[n])
                                       ELSE g[n - 1]]
  <1>1. pruned(s, t) = (CHOOSE g : IsTable(g))[Len(s)]
    BY DEF pruned
  <1>2. \E g : IsTable(g)
    <2>1. PICK g \in [0..Len(s) -> Seq(S)] : Keeps(g, s, t, Len(s))
      BY TableExists
    <2> QED
      BY <2>1 DEF Keeps
  <1>3. IsTable(CHOOSE g : IsTable(g))
    BY <1>2
  <1>4. PICK g : IsTable(g) /\ pruned(s, t) = g[Len(s)]
    BY <1>1, <1>3
  <1>5. Keeps(g, s, t, Len(s))
    BY <1>4 DEF Keeps
  <1> QED
    BY <1>4, <1>5

\* What is kept are failures of the list, and those inside the window.
LEMMA PrunedKeeps ==
    ASSUME NEW S, NEW s \in Seq(S), NEW t
    PROVE  /\ pruned(s, t) \in Seq(S)
           /\ \A k \in DOMAIN pruned(s, t) :
                 \E j \in DOMAIN s : pruned(s, t)[k] = s[j] /\ s[j] > t - Window
  <1> DEFINE D == DOMAIN s
             Good(q) == /\ q \in Seq(S)
                        /\ \A k \in DOMAIN q : \E j \in D : q[k] = s[j] /\ s[j] > t - Window
  <1>1. PICK g : Keeps(g, s, t, Len(s)) /\ pruned(s, t) = g[Len(s)]
    BY PrunedTable
  <1> DEFINE T == {n \in 0..Len(s) : ~ Good(g[n])}
  <1>2. T = {}
    <2>1. SUFFICES ASSUME T # {} PROVE FALSE
      OBVIOUS
    <2>2. PICK m \in T : \A y \in T : m <= y
      <3>1. T \subseteq Nat
        OBVIOUS
      <3> HIDE DEF T
      <3> QED
        BY <2>1, <3>1, LeastOf
    <2>3. m \in 0..Len(s) /\ ~Good(g[m])
      OBVIOUS
    <2>4. m # 0
      <3>1. g[0] = <<>>
        BY <1>1 DEF Keeps
      <3>2. Good(<<>>)
        OBVIOUS
      <3> HIDE DEF Good
      <3> QED
        BY <2>3, <3>1, <3>2
    <2>5. m \in 1..Len(s) /\ m - 1 \in 0..Len(s) /\ m - 1 \notin T
      <3> HIDE DEF T, Good
      <3> QED
        BY <2>2, <2>3, <2>4
    <2> DEFINE q == g[m - 1]
               x == s[m]
    <2>6. /\ g[m] = IF x > t - Window THEN Append(q, x) ELSE q
          /\ Good(q) /\ x \in S /\ m \in D
      BY <1>1, <2>4, <2>5 DEF Keeps
    <2>7. x > t - Window => Good(Append(q, x))
      <3> HIDE DEF q, D
      <3> SUFFICES ASSUME x > t - Window PROVE Good(Append(q, x))
        OBVIOUS
      <3>1. /\ Append(q, x) \in Seq(S) /\ DOMAIN Append(q, x) = 1..(Len(q) + 1)
            /\ Len(q) \in Nat /\ DOMAIN q = 1..Len(q)
            /\ Append(q, x)[Len(q) + 1] = x /\ \A k \in 1..Len(q) : Append(q, x)[k] = q[k]
        <4> HIDE DEF x
        <4> QED
          BY <2>6
      <3>2. \A k \in DOMAIN Append(q, x) :
               \E j \in D : Append(q, x)[k] = s[j] /\ s[j] > t - Window
        <4> TAKE k \in DOMAIN Append(q, x)
        <4>1. CASE k = Len(q) + 1
          BY <2>6, <3>1, <4>1
        <4>2. CASE k # Len(q) + 1
          <5>1. k \in DOMAIN q
            BY <3>1, <4>2
          <5> QED
            BY <2>6, <3>1, <5>1
        <4> QED
          BY <4>1, <4>2
      <3> QED
        BY <3>1, <3>2
    <2> HIDE DEF Good
    <2> QED
      BY <2>3, <2>6, <2>7
  <1>3. Len(s) \in 0..Len(s)
    OBVIOUS
  <1>4. Good(g[Len(s)])
    BY <1>2, <1>3
  <1> QED
    BY <1>1, <1>4

\* Nothing is kept of a list that is older than the window.
LEMMA PrunedEmpty ==
    ASSUME NEW S, NEW s \in Seq(S), NEW t, \A j \in DOMAIN s : ~ (s[j] > t - Window)
    PROVE  pruned(s, t) = <<>>
  <1>1. pruned(s, t) \in Seq(S) /\ DOMAIN pruned(s, t) = {}
    BY PrunedKeeps
  <1> HIDE DEF pruned
  <1> QED
    BY <1>1

-----------------------------------------------------------------------------
(* RecordFailure *)

\* An entry as RecordFailure finds it, and as it creates it.
noFailures == [failures |-> <<>>, lockedUntil |-> 0, lastSeenMs |-> 0]
found(i) == IF i \in tracked THEN entries[i] ELSE noFailures

\* One failure more: the threshold clears the list, and a lockout is either
\* left as it was or counted from the time of the failure.
LEMMA FailedEntry ==
    ASSUME NEW e \in Entry, NEW t \in 0..MaxTime
    PROVE  /\ failed(e, t) \in Entry /\ Len(failed(e, t).failures) < MaxFails
           /\ failed(e, t).lastSeenMs = t
           /\ failed(e, t).lockedUntil \in {e.lockedUntil, t + Lockout}
           /\ \A k \in DOMAIN failed(e, t).failures :
                 \/ failed(e, t).failures[k] = t
                 \/ \E j \in DOMAIN e.failures : failed(e, t).failures[k] = e.failures[j]
  <1> DEFINE S == 0..MaxTime
             p == pruned(e.failures, t)
             f == Append(p, t)
  <1>1. e.failures \in Seq(S) /\ e.lockedUntil \in Nat /\ t \in Nat
    BY DEF Entry
  <1>2. /\ p \in Seq(S)
        /\ \A k \in DOMAIN p : \E j \in DOMAIN e.failures : p[k] = e.failures[j]
    <2> HIDE DEF S
    <2> QED
      BY <1>1, PrunedKeeps
  <1>3. /\ f \in Seq(S) /\ Len(f) \in Nat
        /\ \A k \in DOMAIN f : f[k] = t \/ \E j \in DOMAIN e.failures : f[k] = e.failures[j]
    <2>1. t \in S
      OBVIOUS
    <2> HIDE DEF p, S
    <2>2. /\ f \in Seq(S) /\ DOMAIN f = 1..(Len(p) + 1) /\ Len(p) \in Nat /\ DOMAIN p = 1..Len(p)
          /\ Len(f) = Len(p) + 1 /\ f[Len(p) + 1] = t /\ \A k \in 1..Len(p) : f[k] = p[k]
      BY <1>2, <2>1
    <2> HIDE DEF f
    <2> QED
      BY <1>2, <2>2
  <1>4. failed(e, t) = IF Len(f) >= MaxFails
                       THEN [failures |-> <<>>, lockedUntil |-> t + Lockout, lastSeenMs |-> t]
                       ELSE [e EXCEPT !.failures = f, !.lastSeenMs = t]
    BY DEF failed
  <1> HIDE DEF f
  <1>5. CASE Len(f) >= MaxFails
    <2>1. failed(e, t) = [failures |-> <<>>, lockedUntil |-> t + Lockout, lastSeenMs |-> t]
      BY <1>4, <1>5
    <2>2. t + Lockout \in Nat /\ MaxFails \in Nat \ {0}
      BY <1>1, ThrottlingAssumption
    <2> QED
      BY <2>1, <2>2 DEF Entry
  <1>6. CASE ~ (Len(f) >= MaxFails)
    <2>1. failed(e, t) = [e EXCEPT !.failures = f, !.lastSeenMs = t]
      BY <1>4, <1>6
    <2>2. /\ failed(e, t) \in Entry /\ failed(e, t).failures = f /\ failed(e, t).lastSeenMs = t
          /\ failed(e, t).lockedUntil = e.lockedUntil
      BY <1>3, <2>1 DEF Entry
    <2>3. Len(f) < MaxFails
      BY <1>3, <1>6, ThrottlingAssumption
    <2> QED
      BY <1>3, <2>2, <2>3
  <1> QED
    BY <1>5, <1>6

\* What RecordFailure does to the map: the failed entry is in, at most one other
\* is out, and one is out only at the cap.
LEMMA RecordShape ==
    ASSUME ThrottleInv, NEW r \in Attempts, RecordFailure(r)
    PROVE  \E out \in SUBSET tracked :
              /\ DOMAIN entries' = (tracked \ out) \cup {ip[r]} /\ ip[r] \notin out
              /\ entries'[ip[r]] = failed(found(ip[r]), at[r])
              /\ \A j \in tracked \ out : j # ip[r] => entries'[j] = entries[j]
              /\ \/ out = {} /\ (ip[r] \notin tracked => Cardinality(tracked) < MaxEntries)
                 \/ \E o \in evictOldestEntryLocked :
                       out = {o} /\ ip[r] \notin tracked /\ Cardinality(tracked) >= MaxEntries
  <1> DEFINE i == ip[r]
  <1>1. CASE i \in tracked /\ entries' = [entries EXCEPT ![i] = failed(@, at[r])]
    <2>1. /\ DOMAIN entries' = tracked /\ entries'[i] = failed(entries[i], at[r])
          /\ \A j \in tracked : j # i => entries'[j] = entries[j]
      BY <1>1 DEF tracked
    <2> QED
      BY <1>1, <2>1 DEF found
  <1>2. CASE /\ i \notin tracked /\ Cardinality(tracked) < MaxEntries
             /\ entries' = with(entries, i, failed(noFailures, at[r]))
    <2>1. /\ DOMAIN entries' = tracked \cup {i} /\ entries'[i] = failed(noFailures, at[r])
          /\ \A j \in tracked : j # i => entries'[j] = entries[j]
      BY <1>2 DEF tracked, with
    <2> QED
      BY <1>2, <2>1 DEF found
  <1>3. ASSUME i \notin tracked, Cardinality(tracked) >= MaxEntries,
               NEW o \in evictOldestEntryLocked,
               entries' = with(without(entries, o), i, failed(noFailures, at[r]))
        PROVE  /\ o \in tracked /\ DOMAIN entries' = (tracked \ {o}) \cup {i}
               /\ entries'[i] = failed(noFailures, at[r])
               /\ \A j \in tracked \ {o} : j # i => entries'[j] = entries[j]
    <2>1. o \in tracked
      BY DEF evictOldestEntryLocked
    <2>2. DOMAIN without(entries, o) = tracked \ {o}
          /\ \A j \in tracked \ {o} : without(entries, o)[j] = entries[j]
      BY DEF without, tracked
    <2> QED
      BY <1>3, <2>1, <2>2 DEF with
  <1>4. \/ i \in tracked /\ entries' = [entries EXCEPT ![i] = failed(@, at[r])]
        \/ /\ i \notin tracked /\ Cardinality(tracked) < MaxEntries
           /\ entries' = with(entries, i, failed(noFailures, at[r]))
        \/ /\ i \notin tracked /\ Cardinality(tracked) >= MaxEntries
           /\ \E o \in evictOldestEntryLocked :
                 entries' = with(without(entries, o), i, failed(noFailures, at[r]))
    BY DEF RecordFailure, noFailures
  <1>5. CASE \E o \in evictOldestEntryLocked :
                /\ i \notin tracked /\ Cardinality(tracked) >= MaxEntries
                /\ entries' = with(without(entries, o), i, failed(noFailures, at[r]))
    <2>1. PICK o \in evictOldestEntryLocked :
                /\ i \notin tracked /\ Cardinality(tracked) >= MaxEntries
                /\ entries' = with(without(entries, o), i, failed(noFailures, at[r]))
      BY <1>5
    <2>2. /\ o \in tracked /\ DOMAIN entries' = (tracked \ {o}) \cup {i}
          /\ entries'[i] = failed(noFailures, at[r])
          /\ \A j \in tracked \ {o} : j # i => entries'[j] = entries[j]
      BY <1>3, <2>1
    <2>3. {o} \in SUBSET tracked
      BY <2>2
    <2> QED
      BY <2>1, <2>2, <2>3 DEF found
  <1> QED
    BY <1>1, <1>2, <1>4, <1>5

-----------------------------------------------------------------------------
(* Each action preserves the invariant *)

\* At the start the map is empty.
LEMMA ThrottleStart == ThrottleInit => ThrottleInv
  <1> SUFFICES ASSUME ThrottleInit PROVE ThrottleInv
    OBVIOUS
  <1>1. tracked = {} /\ IsFiniteSet(tracked) /\ Cardinality(tracked) = 0
    BY FS_EmptySet DEF ThrottleInit, tracked
  <1>2. ThrottleTypeOK
    BY <1>1, ThrottlingAssumption DEF ThrottleInit, ThrottleTypeOK
  <1> QED
    BY <1>1, <1>2 DEF ThrottleInit, ThrottleInv, RecordsInTime, EntriesInTime

\* Requests that only look at the map.
LEMMA LookStep ==
    ASSUME ThrottleInv, NEW r \in Attempts,
           (\E i \in IPs : IsLocked(r, i)) \/ Pass(r) \/ FailReadClock(r)
    PROVE  ThrottleInv'
  <1>1. UNCHANGED <<now, entries, tick>> /\ now \in 0..MaxTime /\ now \in Nat
    BY ThrottlingAssumption DEF IsLocked, Pass, FailReadClock, ThrottleInv, ThrottleTypeOK
  <1>2. tracked' = tracked
    BY <1>1 DEF tracked
  <1>3. ThrottleTypeOK'
    BY <1>1, <1>2 DEF IsLocked, Pass, FailReadClock, ThrottleInv, ThrottleTypeOK
  <1>4. RecordsInTime'
    BY <1>1, ThrottlingAssumption
       DEF IsLocked, Pass, FailReadClock, ThrottleInv, ThrottleTypeOK, RecordsInTime
  <1>5. EntriesInTime'
    BY <1>1, <1>2 DEF ThrottleInv, EntriesInTime
  <1> QED
    BY <1>1, <1>2, <1>3, <1>4, <1>5 DEF ThrottleInv

\* The sweep drops entries; the ticker and the clock move on.
LEMMA TimeStep == ThrottleInv /\ (SweeperTick \/ sweep \/ Clock) => ThrottleInv'
  <1> SUFFICES ASSUME ThrottleInv, SweeperTick \/ sweep \/ Clock PROVE ThrottleInv'
    OBVIOUS
  <1>1. /\ UNCHANGED <<stage, ip, at>> /\ now \in 0..MaxTime /\ tick \in -1..MaxTime /\ tick <= now
        /\ now \in Nat /\ MaxTime \in Nat
    BY ThrottlingAssumption DEF SweeperTick, sweep, Clock, ThrottleInv, ThrottleTypeOK
  <1>2. now' \in 0..MaxTime /\ tick' \in -1..MaxTime /\ tick' <= now' /\ now <= now'
    BY <1>1 DEF SweeperTick, sweep, Clock
  <1>3. tracked' \subseteq tracked /\ \A i \in tracked' : entries'[i] = entries[i]
    <2>1. CASE sweep
      BY <2>1 DEF sweep, tracked
    <2>2. CASE entries' = entries
      BY <2>2 DEF tracked
    <2> QED
      BY <2>1, <2>2 DEF SweeperTick, Clock
  <1>4. IsFiniteSet(tracked') /\ Cardinality(tracked') <= Cardinality(tracked)
    BY <1>3, FS_Subset DEF ThrottleInv
  <1>5. Cardinality(tracked') <= MaxEntries
    <2>1. Cardinality(tracked) \in Nat /\ Cardinality(tracked') \in Nat /\ MaxEntries \in Nat
      BY <1>4, FS_CardinalityType, ThrottlingAssumption DEF ThrottleInv
    <2> QED
      BY <1>4, <2>1 DEF ThrottleInv, ThrottleTypeOK
  <1>6. ThrottleTypeOK'
    BY <1>1, <1>2, <1>3, <1>5 DEF ThrottleInv, ThrottleTypeOK
  <1>7. RecordsInTime'
    <2>1. \A r \in Attempts : stage[r] = "record" => at[r] \in Nat
      BY DEF ThrottleInv, ThrottleTypeOK
    <2>2. CASE Clock
      BY <1>1, <2>1, <2>2, ThrottlingAssumption DEF Clock, ThrottleInv, RecordsInTime
    <2>3. CASE now' = now
      BY <1>1, <2>3 DEF ThrottleInv, RecordsInTime
    <2> QED
      BY <2>2, <2>3 DEF SweeperTick, sweep
  <1>8. EntriesInTime'
    <2> SUFFICES ASSUME NEW i \in tracked'
                 PROVE  /\ entries'[i].lockedUntil <= now' + Lockout
                        /\ \A k \in DOMAIN entries'[i].failures :
                              /\ entries'[i].failures[k] <= now'
                              /\ entries'[i].failures[k] <= entries'[i].lastSeenMs + RecordDelay
      BY DEF EntriesInTime
    <2>1. i \in tracked /\ entries'[i] = entries[i] /\ entries[i] \in Entry
      BY <1>3 DEF ThrottleInv, ThrottleTypeOK
    <2> DEFINE e == entries[i]
    <2>2. /\ e.lockedUntil <= now + Lockout
          /\ \A k \in DOMAIN e.failures : /\ e.failures[k] <= now
                                           /\ e.failures[k] <= e.lastSeenMs + RecordDelay
      BY <2>1 DEF ThrottleInv, EntriesInTime
    <2>3. /\ e.lockedUntil \in Nat /\ e.failures \in Seq(0..MaxTime)
          /\ \A k \in DOMAIN e.failures : e.failures[k] \in Nat
      BY <1>1, <2>1 DEF Entry
    <2> HIDE DEF e
    <2>4. /\ e.lockedUntil <= now' + Lockout
          /\ \A k \in DOMAIN e.failures : e.failures[k] <= now'
      BY <1>1, <1>2, <2>2, <2>3, ThrottlingAssumption
    <2> QED
      BY <2>1, <2>2, <2>4 DEF e
  <1> QED
    BY <1>2, <1>4, <1>6, <1>7, <1>8 DEF ThrottleInv

\* A failure is recorded at the time its call read.
LEMMA RecordStep ==
    ASSUME ThrottleInv, NEW r \in Attempts, RecordFailure(r)
    PROVE  ThrottleInv'
  <1> DEFINE i == ip[r]
             t == at[r]
             e == failed(found(i), t)
  <1>1. /\ UNCHANGED <<now, tick>> /\ now \in 0..MaxTime /\ now \in Nat /\ MaxTime \in Nat
        /\ i \in IPs /\ t \in 0..MaxTime /\ t <= now /\ now <= t + RecordDelay
    BY ThrottlingAssumption DEF RecordFailure, ThrottleInv, ThrottleTypeOK, RecordsInTime
  <1>2. found(i) \in Entry
    <2>1. noFailures \in Entry
      BY ThrottlingAssumption DEF noFailures, Entry
    <2> QED
      BY <2>1 DEF found, ThrottleInv, ThrottleTypeOK
  <1>3. /\ e \in Entry /\ Len(e.failures) < MaxFails /\ e.lastSeenMs = t
        /\ e.lockedUntil \in {found(i).lockedUntil, t + Lockout}
        /\ \A k \in DOMAIN e.failures :
              e.failures[k] = t \/ \E j \in DOMAIN found(i).failures : e.failures[k] = found(i).failures[j]
    BY <1>1, <1>2, FailedEntry
  <1>4. /\ found(i).lockedUntil <= now + Lockout
        /\ \A k \in DOMAIN found(i).failures : found(i).failures[k] <= now
    <2>1. CASE i \in tracked
      BY <2>1 DEF found, ThrottleInv, EntriesInTime
    <2>2. CASE i \notin tracked
      <3>1. found(i) = noFailures
        BY <2>2 DEF found
      <3> QED
        BY <1>1, <3>1, ThrottlingAssumption DEF noFailures
    <2> QED
      BY <2>1, <2>2
  <1>5. PICK out \in SUBSET tracked :
           /\ tracked' = (tracked \ out) \cup {i} /\ i \notin out
           /\ entries'[i] = e
           /\ \A j \in tracked \ out : j # i => entries'[j] = entries[j]
           /\ \/ out = {} /\ (i \notin tracked => Cardinality(tracked) < MaxEntries)
              \/ \E o \in evictOldestEntryLocked :
                    out = {o} /\ i \notin tracked /\ Cardinality(tracked) >= MaxEntries
    BY RecordShape DEF tracked
  <1>6. IsFiniteSet(tracked') /\ Cardinality(tracked') <= MaxEntries
    <2>1. /\ IsFiniteSet(tracked) /\ Cardinality(tracked) <= MaxEntries /\ MaxEntries \in Nat
          /\ Cardinality(tracked) \in Nat
      BY FS_CardinalityType, ThrottlingAssumption DEF ThrottleInv, ThrottleTypeOK
    <2>2. CASE i \in tracked
      <3>1. tracked' = tracked
        BY <1>5, <2>2
      <3> QED
        BY <2>1, <3>1
    <2>3. CASE i \notin tracked /\ out = {}
      <3>1. tracked' = tracked \cup {i} /\ Cardinality(tracked) < MaxEntries
        BY <1>5, <2>3, <2>1
      <3>2. IsFiniteSet(tracked') /\ Cardinality(tracked') = Cardinality(tracked) + 1
        BY <2>1, <2>3, <3>1, FS_AddElement
      <3> QED
        BY <2>1, <3>1, <3>2
    <2>4. CASE i \notin tracked /\ out # {}
      <3>1. PICK o \in tracked : out = {o}
        BY <1>5, <2>4 DEF evictOldestEntryLocked
      <3>2. IsFiniteSet(tracked \ {o}) /\ Cardinality(tracked \ {o}) = Cardinality(tracked) - 1
        BY <2>1, FS_RemoveElement
      <3>3. i \notin tracked \ {o} /\ tracked' = (tracked \ {o}) \cup {i}
        BY <1>5, <2>4, <3>1
      <3>4. IsFiniteSet(tracked') /\ Cardinality(tracked') = Cardinality(tracked \ {o}) + 1
        BY <3>2, <3>3, FS_AddElement
      <3> QED
        BY <2>1, <3>2, <3>4
    <2> QED
      BY <2>2, <2>3, <2>4
  <1> HIDE DEF e
  <1>7. \A j \in tracked' : j # i => j \in tracked /\ entries'[j] = entries[j]
    BY <1>5
  <1>8. ThrottleTypeOK'
    <2>1. tracked' \subseteq IPs
      BY <1>1, <1>7 DEF ThrottleInv, ThrottleTypeOK
    <2>2. \A j \in tracked' : entries'[j] \in Entry /\ Len(entries'[j].failures) < MaxFails
      BY <1>3, <1>5, <1>7 DEF ThrottleInv, ThrottleTypeOK
    <2>3. /\ stage' \in [Attempts -> {"idle", "verify", "record"}]
          /\ ip' \in [Attempts -> IPs \cup {NoIP}] /\ at' \in [Attempts -> 0..MaxTime]
      BY <1>1 DEF RecordFailure, ThrottleInv, ThrottleTypeOK
    <2>4. now' \in 0..MaxTime /\ tick' \in -1..MaxTime
      BY <1>1 DEF ThrottleInv, ThrottleTypeOK
    <2> QED
      BY <1>6, <2>1, <2>2, <2>3, <2>4 DEF ThrottleTypeOK
  <1>9. RecordsInTime'
    BY <1>1 DEF RecordFailure, ThrottleInv, ThrottleTypeOK, RecordsInTime
  <1>10. EntriesInTime'
    <2>1. ASSUME NEW j \in tracked', j # i
          PROVE  /\ entries'[j].lockedUntil <= now' + Lockout
                 /\ \A k \in DOMAIN entries'[j].failures :
                       /\ entries'[j].failures[k] <= now'
                       /\ entries'[j].failures[k] <= entries'[j].lastSeenMs + RecordDelay
      BY <1>1, <1>7, <2>1 DEF ThrottleInv, EntriesInTime
    <2>2. e.lockedUntil <= now + Lockout
      BY <1>1, <1>3, <1>4, ThrottlingAssumption
    <2>3. \A k \in DOMAIN e.failures : e.failures[k] <= now
      BY <1>1, <1>3, <1>4
    <2>4. \A k \in DOMAIN e.failures : e.failures[k] \in Nat
      BY <1>1, <1>3 DEF Entry
    <2>5. \A k \in DOMAIN e.failures : e.failures[k] <= e.lastSeenMs + RecordDelay
      BY <1>1, <1>3, <2>3, <2>4, ThrottlingAssumption
    <2>6. entries'[i] = e /\ now' = now
      BY <1>1, <1>5
    <2> QED
      BY <2>1, <2>2, <2>3, <2>5, <2>6 DEF EntriesInTime
  <1>11. tick' <= now'
    BY <1>1 DEF ThrottleInv
  <1> QED
    BY <1>6, <1>8, <1>9, <1>10, <1>11 DEF ThrottleInv

\* Every step of the specification.
LEMMA ThrottleStep == ThrottleInv /\ [ThrottleNext]_throttleVars => ThrottleInv'
  <1> SUFFICES ASSUME ThrottleInv, [ThrottleNext]_throttleVars PROVE ThrottleInv'
    OBVIOUS
  <1>1. CASE UNCHANGED throttleVars
    BY <1>1 DEF throttleVars, tracked, ThrottleInv, ThrottleTypeOK, RecordsInTime, EntriesInTime
  <1> QED
    BY <1>1, LookStep, RecordStep, TimeStep DEF ThrottleNext

-----------------------------------------------------------------------------
(* The theorems *)

\* The inductive invariant of the throttling.
THEOREM ThrottleInvariant == ThrottleSpec => []ThrottleInv
  BY ThrottleStart, ThrottleStep, PTL DEF ThrottleSpec

\* However many addresses fail at once, the map stays within throttlingMaxEntries
\* and every entry below throttlingMaxFails.
THEOREM MapBounded == ThrottleSpec => []ThrottleTypeOK
  <1>1. ThrottleInv => ThrottleTypeOK
    BY DEF ThrottleInv
  <1> QED
    BY <1>1, ThrottleInvariant, PTL

\* A step changes the end of a lockout only by recording a failure in time.
LEMMA LockoutKept ==
    ASSUME ThrottleInv, [ThrottleNext]_throttleVars, NEW i \in tracked \cap DOMAIN entries'
    PROVE  entries'[i].lockedUntil >= entries[i].lockedUntil - RecordDelay
  <1>1. entries[i] \in Entry /\ entries[i].lockedUntil \in Nat /\ entries[i].lockedUntil <= now + Lockout
    BY DEF ThrottleInv, ThrottleTypeOK, EntriesInTime, Entry
  <1>2. CASE entries'[i] = entries[i]
    BY <1>1, <1>2, ThrottlingAssumption
  <1>3. ASSUME NEW r \in Attempts, RecordFailure(r)
        PROVE  entries'[i] = entries[i]
               \/ entries'[i].lockedUntil \in {entries[i].lockedUntil, at[r] + Lockout}
    <2>1. at[r] \in 0..MaxTime
      BY DEF ThrottleInv, ThrottleTypeOK
    <2>2. CASE i = ip[r]
      <3>1. entries'[i] = failed(entries[i], at[r])
        BY <1>3, <2>2, RecordShape DEF found
      <3> QED
        BY <1>1, <2>1, <3>1, FailedEntry
    <2>3. CASE i # ip[r]
      BY <1>3, <2>3, RecordShape
    <2> QED
      BY <2>2, <2>3
  <1>4. ASSUME NEW r \in Attempts, RecordFailure(r)
        PROVE  entries'[i].lockedUntil >= entries[i].lockedUntil - RecordDelay
    <2>1. at[r] \in Nat /\ now \in Nat /\ now <= at[r] + RecordDelay
      BY <1>4 DEF RecordFailure, ThrottleInv, ThrottleTypeOK, RecordsInTime
    <2> QED
      BY <1>1, <1>2, <1>3, <1>4, <2>1, ThrottlingAssumption
  <1>5. CASE sweep
    <2>1. entries'[i] = entries[i]
      BY <1>5 DEF sweep, tracked
    <2> QED
      BY <1>2, <2>1
  <1>6. CASE entries' = entries
    BY <1>2, <1>6
  <1> QED
    BY <1>4, <1>5, <1>6 DEF ThrottleNext, throttleVars, IsLocked, Pass, FailReadClock, SweeperTick, Clock

\* A failure that waited for the mutex pulls the end of a lockout back by no more
\* than it waited.
THEOREM LockoutsLast == ThrottleSpec => LockoutHolds
  <1>1. ThrottleInv /\ [ThrottleNext]_throttleVars =>
           [\A i \in tracked \cap DOMAIN entries' :
               entries'[i].lockedUntil >= entries[i].lockedUntil - RecordDelay]_throttleVars
    BY LockoutKept
  <1> QED
    BY <1>1, ThrottleInvariant, PTL DEF ThrottleSpec, LockoutHolds

\* An entry that a step drops was evicted at the cap, or the sweep found nothing
\* in it that still counts.
LEMMA DroppedInNeed ==
    ASSUME ThrottleInv, [ThrottleNext]_throttleVars, NEW i \in tracked \ DOMAIN entries',
           locked(i) \/ pruned(entries[i].failures, now) # <<>>
    PROVE  /\ Cardinality(tracked) = MaxEntries
           /\ locked(i) => \A j \in tracked : locked(j)
  <1>1. ASSUME NEW r \in Attempts, RecordFailure(r)
        PROVE  /\ Cardinality(tracked) = MaxEntries
               /\ locked(i) => \A j \in tracked : locked(j)
    <2>1. i \in evictOldestEntryLocked /\ Cardinality(tracked) >= MaxEntries
      BY <1>1, RecordShape
    <2>2. Cardinality(tracked) \in Nat /\ MaxEntries \in Nat /\ Cardinality(tracked) <= MaxEntries
      BY FS_CardinalityType, ThrottlingAssumption DEF ThrottleInv, ThrottleTypeOK
    <2>3. locked(i) => \A j \in tracked : locked(j)
      BY <2>1 DEF evictOldestEntryLocked
    <2> QED
      BY <2>1, <2>2, <2>3
  <1>2. ~ sweep
    <2>1. SUFFICES ASSUME sweep PROVE FALSE
      OBVIOUS
    <2> DEFINE e == entries[i]
    <2>2. /\ e \in Entry /\ e.lockedUntil \in Nat /\ e.lastSeenMs \in Nat
          /\ e.failures \in Seq(0..MaxTime)
          /\ now \in Nat /\ tick \in Int /\ tick <= now /\ MaxTime \in Nat
      BY ThrottlingAssumption DEF ThrottleInv, ThrottleTypeOK, Entry
    <2>3. ~ (e.lastSeenMs >= tick - Stale) /\ ~ (tick < e.lockedUntil)
      BY <2>1 DEF sweep, tracked
    <2>4. ~ locked(i)
      BY <2>2, <2>3 DEF locked
    <2>5. \A k \in DOMAIN e.failures : e.failures[k] \in Nat /\ e.failures[k] <= e.lastSeenMs + RecordDelay
      BY <2>2 DEF ThrottleInv, EntriesInTime
    <2> HIDE DEF e
    <2>6. \A k \in DOMAIN e.failures : ~ (e.failures[k] > now - Window)
      BY <2>2, <2>3, <2>5, ThrottlingAssumption
    <2>7. pruned(e.failures, now) = <<>>
      BY <2>2, <2>6, PrunedEmpty
    <2> QED
      BY <2>4, <2>7 DEF e
  <1>3. entries' # entries
    BY DEF tracked
  <1> QED
    BY <1>1, <1>2, <1>3 DEF ThrottleNext, throttleVars, IsLocked, Pass, FailReadClock, SweeperTick, Clock

\* What still counts is forgotten only at the cap, and a lockout only when there
\* is nothing but lockouts.
THEOREM LockoutsRemembered == ThrottleSpec => ForgetsOnlyAtTheCap
  <1>1. ThrottleInv /\ [ThrottleNext]_throttleVars =>
           [\A i \in tracked \ DOMAIN entries' :
               locked(i) \/ pruned(entries[i].failures, now) # <<>> =>
                   /\ Cardinality(tracked) = MaxEntries
                   /\ locked(i) => \A j \in tracked : locked(j)]_throttleVars
    BY DroppedInNeed
  <1> QED
    BY <1>1, ThrottleInvariant, PTL DEF ThrottleSpec, ForgetsOnlyAtTheCap
=============================================================================
