------------------------------- MODULE ApiKeys -------------------------------
(***************************************************************************)
(* API keys: the api_keys table of meta.db, the in-memory cache of keys    *)
(* that have passed argon2, and the concurrent Create, Revoke and Verify   *)
(* calls of services/apikeys.go.                                           *)
(*                                                                         *)
(* A key pooml_{id}_{secret} is the pair <<id, secret>>; the cache maps    *)
(* its digest to that id, so it is modelled by the set of cached keys.     *)
(* The row id is SQLite's: INTEGER PRIMARY KEY without AUTOINCREMENT is    *)
(* one more than the largest id in the table NOW, so the id of a deleted   *)
(* last row is handed out again.                                           *)
(***************************************************************************)
EXTENDS Integers, Sequences, FiniteSetsExt

CONSTANTS
    Secrets,     \* random 32-byte secrets Create can draw
    Requests,    \* concurrent Verify calls
    Admins,      \* concurrent Revoke calls of the settings page
    ArgonSlots,  \* capacity of argonSem
    MaxId,       \* bound on row ids
    NoSecret,    \* no row under this id
    Free         \* nobody holds mu for writing

ASSUME ArgonAssumption == ArgonSlots \in Nat \ {0}
ASSUME MaxIdAssumption == MaxId \in Nat
ASSUME NoSecretAssumption == NoSecret \notin Secrets
ASSUME FreeAssumption == Free \notin Requests

Ids  == 1..MaxId
Keys == Ids \X Secrets

VARIABLES
    table,    \* table[id]: the secret whose hash row id stores, or NoSecret
    minted,   \* history: the keys Create returned, oldest first
    verified, \* the cache
    mu,       \* the request that holds mu for writing, or Free
    step,     \* step[r]: where request r is in Verify
    key,      \* key[r]: the key r presented
    hash,     \* hash[r]: the secret whose hash r read from its row
    admin     \* admin[a]: the id a has deleted and not yet purged, or 0

vars == <<table, minted, verified, mu, step, key, hash, admin>>

\* A string Verify refuses to parse, and everything a client can present.
Malformed == <<0, NoSecret>>
Presented == Keys \cup {Malformed}

Steps == {"idle", "cache", "lookup", "queue", "argon", "lock", "insert",
          "valid", "invalid"}

Init ==
    /\ table = [i \in Ids |-> NoSecret]
    /\ minted = <<>>
    /\ verified = {}
    /\ mu = Free
    /\ step = [r \in Requests |-> "idle"]
    /\ key = [r \in Requests |-> Malformed]
    /\ hash = [r \in Requests |-> NoSecret]
    /\ admin = [a \in Admins |-> 0]

Live(i) == table[i] # NoSecret

\* SQLite's choice of the next rowid.
nextRowId == 1 + Max({0} \cup {i \in Ids : Live(i)})

-----------------------------------------------------------------------------
\* Create: a fresh random secret, one INSERT, and the key shown once.
Create(s) ==
    /\ \A i \in DOMAIN minted : minted[i][2] # s
    /\ nextRowId \in Ids
    /\ table' = [table EXCEPT ![nextRowId] = s]
    /\ minted' = Append(minted, <<nextRowId, s>>)
    /\ UNCHANGED <<verified, mu, step, key, hash, admin>>

\* Revoke, first half: DELETE.  The id comes from the page, so the row may be
\* gone already; a failing DELETE returns before anything changes.
RevokeDelete(a, i) ==
    /\ admin[a] = 0
    /\ table' = [table EXCEPT ![i] = NoSecret]
    /\ admin' = [admin EXCEPT ![a] = i]
    /\ UNCHANGED <<minted, verified, mu, step, key, hash>>

\* Revoke, second half: the purge of the cache under mu.
RevokePurge(a) ==
    /\ admin[a] # 0
    /\ mu = Free
    /\ verified' = {k \in verified : k[1] # admin[a]}
    /\ admin' = [admin EXCEPT ![a] = 0]
    /\ UNCHANGED <<table, minted, mu, step, key, hash>>

-----------------------------------------------------------------------------
(* Verify *)

goto(r, s) == step' = [step EXCEPT ![r] = s]

\* A request arrives with a key: minted, guessed, revoked or malformed.
VerifyCall(r, k) ==
    /\ step[r] \in {"idle", "valid", "invalid"}
    /\ key' = [key EXCEPT ![r] = k]
    /\ goto(r, "cache")
    /\ UNCHANGED <<table, minted, verified, mu, hash, admin>>

\* The cache lookup under RLock, then the parse: a malformed key is refused
\* before any database or KDF work.
VerifyCache(r) ==
    /\ step[r] = "cache"
    /\ mu = Free
    /\ goto(r, IF key[r] \in verified THEN "valid"
               ELSE IF key[r] = Malformed THEN "invalid" ELSE "lookup")
    /\ UNCHANGED <<table, minted, verified, mu, key, hash, admin>>

\* SELECT key_hash: no row, or a failing query (fails), refuses the key.
VerifyLookup(r, fails) ==
    /\ step[r] = "lookup"
    /\ IF Live(key[r][1]) /\ ~fails
       THEN /\ hash' = [hash EXCEPT ![r] = table[key[r][1]]]
            /\ goto(r, "queue")
       ELSE goto(r, "invalid") /\ UNCHANGED hash
    /\ UNCHANGED <<table, minted, verified, mu, key, admin>>

\* Requests inside verifySecret, past its send to argonSem.
Hashing == {r \in Requests : step[r] = "argon"}

\* verifySecret: wait for one of the argonSem slots ...
VerifyAcquire(r) ==
    /\ step[r] = "queue"
    /\ Cardinality(Hashing) < ArgonSlots
    /\ goto(r, "argon")
    /\ UNCHANGED <<table, minted, verified, mu, key, hash, admin>>

\* ... run argon2 on the secret with the salt of the hash that was read, compare
\* and give the slot back.
VerifySecret(r) ==
    /\ step[r] = "argon"
    /\ goto(r, IF key[r][2] = hash[r] THEN "lock" ELSE "invalid")
    /\ hash' = [hash EXCEPT ![r] = NoSecret]
    /\ UNCHANGED <<table, minted, verified, mu, key, admin>>

\* Variation of VerifyRecheck: the row is looked at before Lock, not under it.
VerifyRecheckUnlocked(r, fails) ==
    /\ step[r] = "lock"
    /\ goto(r, IF Live(key[r][1]) /\ ~fails THEN "insert" ELSE "invalid")
    /\ UNCHANGED <<table, minted, verified, mu, key, hash, admin>>

\* Lock, and the re-check of the row by id; a failing query refuses the key.
VerifyRecheck(r, fails) ==
    /\ step[r] = "lock"
    /\ mu = Free
    /\ IF Live(key[r][1]) /\ ~fails
       THEN mu' = r /\ goto(r, "insert")
       ELSE goto(r, "invalid") /\ UNCHANGED mu
    /\ UNCHANGED <<table, minted, verified, key, hash, admin>>

\* Variation of VerifyInsert: the Unlock is missing.
VerifyInsertKeepsLock(r) ==
    /\ step[r] = "insert"
    /\ verified' = verified \cup {key[r]}
    /\ goto(r, "valid")
    /\ UNCHANGED <<table, minted, mu, key, hash, admin>>

\* The cache insert, then Unlock.
VerifyInsert(r) ==
    /\ step[r] = "insert"
    /\ verified' = verified \cup {key[r]}
    /\ mu' = Free
    /\ goto(r, "valid")
    /\ UNCHANGED <<table, minted, key, hash, admin>>

\* The process ends at any point and starts again: meta.db is all that is left.
Restart ==
    /\ verified' = {}
    /\ mu' = Free
    /\ step' = [r \in Requests |-> "idle"]
    /\ key' = [r \in Requests |-> Malformed]
    /\ hash' = [r \in Requests |-> NoSecret]
    /\ admin' = [a \in Admins |-> 0]
    /\ UNCHANGED <<table, minted>>

-----------------------------------------------------------------------------
Verify(r) ==
    \/ VerifyCache(r)
    \/ \E fails \in BOOLEAN : VerifyLookup(r, fails) \/ VerifyRecheck(r, fails)
    \/ VerifyAcquire(r) \/ VerifySecret(r) \/ VerifyInsert(r)

Next ==
    \/ \E s \in Secrets : Create(s)
    \/ \E a \in Admins : RevokePurge(a) \/ \E i \in Ids : RevokeDelete(a, i)
    \/ \E r \in Requests : Verify(r) \/ \E k \in Presented : VerifyCall(r, k)
    \/ Restart

Spec == Init /\ [][Next]_vars

(***************************************************************************)
(* A Verify call is a goroutine and keeps running; the waiters of argonSem *)
(* and of mu are queued, so one that can get in again and again does (SF). *)
(***************************************************************************)
Fairness ==
    /\ \A r \in Requests : SF_vars(Verify(r))
    /\ \A a \in Admins : SF_vars(RevokePurge(a))

FairSpec == Spec /\ Fairness

-----------------------------------------------------------------------------
(* Properties *)

\* Types; the cache holds well-formed keys only, and no more than ArgonSlots
\* argon2 runs, of 19 MiB each, are going on.
TypeOK ==
    /\ table \in [Ids -> Secrets \cup {NoSecret}]
    /\ minted \in Seq(Keys)
    /\ verified \in SUBSET Keys
    /\ mu \in Requests \cup {Free}
    /\ step \in [Requests -> Steps]
    /\ key \in [Requests -> Presented]
    /\ hash \in [Requests -> Secrets \cup {NoSecret}]
    /\ admin \in [Admins -> Ids \cup {0}]
    /\ Cardinality(Hashing) <= ArgonSlots

\* mu is held exactly by the request between its re-check and its insert.
LockMatchesStep ==
    \A r \in Requests : (mu = r) <=> (step[r] = "insert")

\* A Revoke of id i has deleted the row and is still to purge the cache.
Revoking(i) == \E a \in Admins : admin[a] = i

\* The cache holds keys of existing rows only, but for the moment between the
\* DELETE and the purge of a Revoke that is still running.  It rests on the
\* re-check happening under mu and on Revoke deleting before it purges.
CachedIdsLive == \A k \in verified : Live(k[1]) \/ Revoking(k[1])

\* The same for the request that holds mu: the row may go away between its
\* re-check and its insert, but then the purge is still waiting for mu.
PassedRecheckLive ==
    \A r \in Requests : step[r] = "insert" => Live(key[r][1]) \/ Revoking(key[r][1])

Minted == {minted[i] : i \in DOMAIN minted}

\* Only a key Create once returned is ever let in: a wrong secret is compared
\* with the hash read under its id, and never with nothing.
OnlyMintedKeysPass ==
    /\ verified \subseteq Minted
    /\ \A r \in Requests : step[r] \in {"lock", "insert", "valid"} => key[r] \in Minted

\* Keys whose Revoke has returned.
Revoked == {k \in Minted : table[k[1]] # k[2] /\ ~Revoking(k[1])}

\* A revoked key can still be in the cache only if its row id was handed out
\* again, to a key minted after it, while a Verify of the old key was running.
RevokedCachedOnlyByReuse ==
    \A i \in DOMAIN minted :
        minted[i] \in Revoked \cap verified =>
            \E j \in DOMAIN minted : i < j /\ minted[j][1] = minted[i][1]

\* The cache is consistent with the table and the lock, lets in only keys that
\* were minted, and keeps a revoked one only where its row id was reused.
CacheInv ==
    /\ TypeOK /\ LockMatchesStep /\ PassedRecheckLive /\ CachedIdsLive
    /\ OnlyMintedKeysPass /\ RevokedCachedOnlyByReuse

\* Every Verify call answers: argonSem and mu are never waited for in a circle.
VerifyReturns ==
    \A r \in Requests :
        step[r] = "cache" ~> step[r] \in {"valid", "invalid", "idle"}
=============================================================================
