---------------------------- MODULE TokenRegistry ----------------------------
(***************************************************************************)
(* The registry of deployed tokens and its read-through cache:             *)
(* server/routes/token-routes.js over server/services/cache-service.js.    *)
(*                                                                         *)
(* The cache has a key for the list of an owner and one for the metadata of*)
(* a token.  A read misses, queries MongoDB and then stores what it found; *)
(* a write changes MongoDB and then invalidates, a pattern by KEYS and then*)
(* DEL.  Nothing orders the two, and a cache call that fails is only       *)
(* logged.  dao-service.js and developer-gateway-routes.js change a token  *)
(* too and invalidate nothing.  MongoDB and Redis are external.            *)
(***************************************************************************)
EXTENDS Integers, FiniteSets

CONSTANTS
    RegOwners,      \* owners' public keys
    RegTokens,      \* contract ids
    OwnerOf,        \* the owner each contract is registered for
    RegReads,       \* GET requests
    RegWrites,      \* POST and PUT requests
    MaxVersion      \* bound: how often a token's metadata changes, plus one

ASSUME RegistryAssumption ==
    OwnerOf \in [RegTokens -> RegOwners] /\ MaxVersion \in Nat \ {0}

VARIABLES
    db,             \* the version of each token in MongoDB, 0 while absent
    cache,          \* what Redis holds under each key, at most one value
    connected,      \* isConnected of the cache service
    reader,         \* where each read is, its key and the value it queried
    writer,         \* where each write is, its token and the keys it found
    audits,         \* FAIL records of DeploymentAudit
    raced           \* history: keys with a write between a read's query and
                    \* its store, with one that does not invalidate, or with
                    \* an invalidation that failed

registryVars == <<db, cache, connected, reader, writer, audits, raced>>

Keys == RegOwners \cup RegTokens

\* The tokens the value under a key is made of.
Covered(k) == {t \in RegTokens : k \in {t, OwnerOf[t]}}
KeysOf(t) == {t, OwnerOf[t]}

\* The result of the query behind a key: the owner's tokens, or the token.
Found(k) == [t \in Covered(k) |-> db[t]]

-----------------------------------------------------------------------------
(* Faulty variants: what the checks must notice. *)

ForgetsTheList(w, t) ==
    /\ writer[w].pc = "changed" /\ writer[w].token = {t}
    /\ writer' = [writer EXCEPT ![w].pc = "done"]
    /\ UNCHANGED <<db, cache, connected, reader, audits, raced>>

-----------------------------------------------------------------------------
(* Reads. *)

\* A hit answers; a miss, an error and a lost connection go to MongoDB.
GetCached(r, k) ==
    /\ reader[r].pc = "idle"
    /\ reader' = [reader EXCEPT ![r].key = {k},
                    ![r].pc = IF connected /\ cache[k] # {} THEN "done"
                                                            ELSE "missed"]
    /\ UNCHANGED <<db, cache, connected, writer, audits, raced>>

\* An absent token is a 404 and is not cached; a list may be empty.
QueryTokens(r, k) ==
    /\ reader[r].pc = "missed" /\ reader[r].key = {k}
    /\ reader' = IF k \in RegTokens /\ db[k] = 0
                 THEN [reader EXCEPT ![r].pc = "done"]
                 ELSE [reader EXCEPT ![r].pc = "queried",
                                     ![r].value = {Found(k)}]
    /\ UNCHANGED <<db, cache, connected, writer, audits, raced>>

SetCached(r, k) ==
    /\ reader[r].pc = "queried" /\ reader[r].key = {k}
    /\ cache' = IF connected THEN [cache EXCEPT ![k] = reader[r].value]
                             ELSE cache
    /\ reader' = [reader EXCEPT ![r] = [@ EXCEPT !.pc = "done", !.value = {}]]
    /\ UNCHANGED <<db, connected, writer, audits, raced>>

-----------------------------------------------------------------------------
(* Writes. *)

\* The keys of t with a read that has queried and not yet stored.
OpenReads(t) ==
    {k \in KeysOf(t) : \E r \in RegReads : reader[r].pc = "queried"
                                           /\ reader[r].key = {k}}

Change(t) ==
    /\ db' = [db EXCEPT ![t] = @ + 1]
    /\ raced' = raced \cup OpenReads(t)

\* POST /tokens: the contract id is unique; a save that fails is audited.
CreateToken(w, t) ==
    /\ writer[w].pc = "idle"
    /\ \/ /\ db[t] = 0
          /\ Change(t)
          /\ writer' = [writer EXCEPT ![w].pc = "changed", ![w].token = {t}]
          /\ UNCHANGED audits
       \/ /\ writer' = [writer EXCEPT ![w].pc = "done"]
          /\ audits' = audits + 1
          /\ UNCHANGED <<db, raced>>
    /\ UNCHANGED <<cache, connected, reader>>

\* PUT /tokens/metadata/:id, up to the first invalidation.
UpdateToken(w, t) ==
    /\ writer[w].pc = "idle"
    /\ IF db[t] \in 1 .. MaxVersion - 1
       THEN Change(t) /\ writer' = [writer EXCEPT ![w].pc = "updated",
                                                  ![w].token = {t}]
       ELSE /\ db[t] = 0
            /\ writer' = [writer EXCEPT ![w].pc = "done"]
            /\ UNCHANGED <<db, raced>>
    /\ UNCHANGED <<cache, connected, reader, audits>>

DeleteMetadata(w, t) ==
    /\ writer[w].pc = "updated" /\ writer[w].token = {t}
    /\ IF connected THEN cache' = [cache EXCEPT ![t] = {}] /\ UNCHANGED raced
                    ELSE raced' = raced \cup {t} /\ UNCHANGED cache
    /\ writer' = [writer EXCEPT ![w].pc = "changed"]
    /\ UNCHANGED <<db, connected, reader, audits>>

\* deleteByPattern: if the owner's list is cached now, it is deleted a round
\* trip later, be it the same list or another one.
ListKeys(w, t) ==
    /\ writer[w].pc = "changed" /\ writer[w].token = {t}
    /\ connected
    /\ writer' = [writer EXCEPT ![w].pc = IF cache[OwnerOf[t]] = {} THEN "done"
                                                                  ELSE "listed"]
    /\ UNCHANGED <<db, cache, connected, reader, audits, raced>>

DeleteKeys(w, t) ==
    /\ writer[w].pc = "listed" /\ writer[w].token = {t}
    /\ IF connected
       THEN cache' = [cache EXCEPT ![OwnerOf[t]] = {}] /\ UNCHANGED raced
       ELSE raced' = raced \cup {OwnerOf[t]} /\ UNCHANGED cache
    /\ writer' = [writer EXCEPT ![w].pc = "done"]
    /\ UNCHANGED <<db, connected, reader, audits>>

SkipInvalidation(w, t) ==
    /\ writer[w].pc = "changed" /\ writer[w].token = {t}
    /\ ~connected
    /\ raced' = raced \cup {OwnerOf[t]}
    /\ writer' = [writer EXCEPT ![w].pc = "done"]
    /\ UNCHANGED <<db, cache, connected, reader, audits>>

\* A writer that invalidates nothing: the cache keeps what it has.
ChangeSilently(t) ==
    /\ db' = [db EXCEPT ![t] = @ + 1]
    /\ raced' = raced \cup OpenReads(t) \cup {k \in KeysOf(t) : cache[k] # {}}
    /\ UNCHANGED <<cache, connected, reader, writer, audits>>

\* A proposal that passed gives its token a new name.
ExecuteProposal(t) == db[t] \in 1 .. MaxVersion - 1 /\ ChangeSilently(t)

\* POST /tokens of the developer gateway.
RegisterByKey(t) == db[t] = 0 /\ ChangeSilently(t)

-----------------------------------------------------------------------------
(* Redis. *)

Expire(k) ==
    /\ cache[k] # {}
    /\ cache' = [cache EXCEPT ![k] = {}]
    /\ raced' = {j \in raced : j # k \/ \E r \in RegReads :
                    reader[r].pc = "queried" /\ reader[r].key = {k}}
    /\ UNCHANGED <<db, connected, reader, writer, audits>>

\* The error and connect handlers; what the cache holds survives.
Disconnect ==
    /\ connected
    /\ connected' = FALSE
    /\ UNCHANGED <<db, cache, reader, writer, audits, raced>>

Reconnect ==
    /\ ~connected
    /\ connected' = TRUE
    /\ UNCHANGED <<db, cache, reader, writer, audits, raced>>

-----------------------------------------------------------------------------
RegistryInit ==
    /\ db = [t \in RegTokens |-> 0]
    /\ cache = [k \in Keys |-> {}]
    /\ connected = TRUE
    /\ reader = [r \in RegReads |-> [pc |-> "idle", key |-> {}, value |-> {}]]
    /\ writer = [w \in RegWrites |-> [pc |-> "idle", token |-> {}]]
    /\ audits = 0
    /\ raced = {}

RegistryNext ==
    \/ \E r \in RegReads, k \in Keys :
        GetCached(r, k) \/ QueryTokens(r, k) \/ SetCached(r, k)
    \/ \E w \in RegWrites, t \in RegTokens :
        \/ CreateToken(w, t) \/ UpdateToken(w, t) \/ DeleteMetadata(w, t)
        \/ ListKeys(w, t) \/ DeleteKeys(w, t) \/ SkipInvalidation(w, t)
    \/ \E t \in RegTokens : ExecuteProposal(t) \/ RegisterByKey(t)
    \/ \E k \in Keys : Expire(k)
    \/ Disconnect \/ Reconnect

RegistryTypeOK ==
    /\ db \in [RegTokens -> 0 .. MaxVersion]
    /\ \A k \in Keys : Cardinality(cache[k]) <= 1
                       /\ cache[k] \subseteq [Covered(k) -> 0 .. MaxVersion]
    /\ connected \in BOOLEAN /\ raced \subseteq Keys
    /\ \A r \in RegReads :
        /\ reader[r].pc \in {"idle", "missed", "queried", "done"}
        /\ reader[r].key \subseteq Keys
    /\ \A w \in RegWrites :
        /\ writer[w].pc \in {"idle", "updated", "changed", "listed", "done"}
        /\ writer[w].token \subseteq RegTokens
    /\ audits \in 0 .. Cardinality(RegWrites)

\* A write whose invalidation of the key is still to come: a token's key is
\* deleted before the list of its owner.
Invalidating(k) ==
    \E w \in RegWrites :
        /\ writer[w].token \subseteq Covered(k)
        /\ \/ writer[w].pc = "updated"
           \/ k \in RegOwners /\ writer[w].pc \in {"changed", "listed"}

\* What the cache serves is what MongoDB holds, except while a write is still
\* to invalidate it, or after a write came between a read's query and its
\* store, met a lost connection or was one that invalidates nothing
\* (token-routes.js:147-183, 259-267, 361-366, dao-service.js:147-149,
\* developer-gateway-routes.js:151): then it stays wrong until its time to
\* live is over.
StaleOnlyByRace ==
    \A k \in Keys : \A v \in cache[k] :
        v # Found(k) => Invalidating(k) \/ k \in raced

=============================================================================
