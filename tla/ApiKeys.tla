------------------------------- MODULE ApiKeys -------------------------------
(***************************************************************************)
(* A developer's API key: server/routes/api-key-routes.js and              *)
(* server/middleware/api-key-auth.js over server/models/ApiKey.js, for one *)
(* key document.                                                           *)
(*                                                                         *)
(* Each request looks the key up by the hash of its plaintext and is then  *)
(* counted, without an await, in a fixed window kept in memory.  The owner's*)
(* requests load the document and save the paths whose value they changed; *)
(* an await lies between.  MongoDB is external.                            *)
(***************************************************************************)
EXTENDS Integers, FiniteSets

CONSTANTS
    KeyUses,        \* requests that present the key
    KeyEdits,       \* requests of the owner about it
    Limits,         \* values of rateLimit.max, the tier's default among them
    Rotations       \* bound: plaintexts the document has had

ASSUME ApiKeysAssumption ==
    Limits # {} /\ Limits \subseteq Nat \ {0} /\ Rotations \in Nat

VARIABLES
    keyDoc,         \* the document: hash, status, expiry, limit, archived
    bucket,         \* the window of the key in the process's memory
    keyUse,         \* where each use is, the plaintext it has and its copy
    keyEdit,        \* where each edit is, and its copy
    uses,           \* the usage records, and the usageCount of the document
    window          \* history: admitted in this window, and the largest limit
                    \* a request saw in it

apiKeysVars == <<keyDoc, bucket, keyUse, keyEdit, uses, window>>

KeyStatus == {"active", "revoked"}
Doc == [hash : 0 .. Rotations, status : KeyStatus, expired : BOOLEAN,
        max : Limits, archived : BOOLEAN]
EditKinds == {"limit", "expiry", "rotate", "revoke", "delete"}

-----------------------------------------------------------------------------
(* Faulty variants: what the checks must notice. *)

AdmitsOneMore(b) == b.count <= b.max + 1
AlwaysActive(kind, seen, d) ==
    IF kind = "rotate" THEN [d EXCEPT !.hash = seen.hash + 1, !.status = "active"]
    ELSE IF kind = "revoke" THEN [d EXCEPT !.status = "revoked"] ELSE d

-----------------------------------------------------------------------------
(* apiKeyAuth. *)

IsUsable(d) == d.status = "active" /\ ~d.expired

\* Each request presents a plaintext the developer was once given.
PresentKey(u, h) ==
    /\ keyUse[u].pc = "idle" /\ h <= keyDoc.hash
    /\ keyUse' = [keyUse EXCEPT ![u].pc = "presented", ![u].hash = h]
    /\ UNCHANGED <<keyDoc, bucket, keyEdit, uses, window>>

\* findByPlaintext: the document with the hash of the plaintext.
FindByPlaintext(h) == {d \in {keyDoc} : d.hash = h /\ ~d.archived}

\* findByPlaintext, isUsable and the scopes.
LookUpKey(u) ==
    LET usable == {d \in FindByPlaintext(keyUse[u].hash) : IsUsable(d)}
    IN  /\ keyUse[u].pc = "presented"
        /\ keyUse' = [keyUse EXCEPT ![u].seen = keyDoc,
                ![u].pc = IF usable = {} THEN "done" ELSE "found"]
        /\ UNCHANGED <<keyDoc, bucket, keyEdit, uses, window>>

Admits(b) == b.count <= b.max

\* consumeRateLimit: one more in the window, under the limit of this copy.
ConsumeRateLimit(u) ==
    LET max == keyUse[u].seen.max
        now == [count |-> bucket.count + 1, max |-> max]
        ok == Admits(now)
    IN  /\ keyUse[u].pc = "found"
        /\ bucket' = now
        /\ keyUse' = [keyUse EXCEPT ![u].pc = IF ok THEN "admitted" ELSE "done"]
        /\ window' = [admitted |-> window.admitted + (IF ok THEN 1 ELSE 0),
                      max |-> IF max > window.max THEN max ELSE window.max]
        /\ UNCHANGED <<keyDoc, keyEdit, uses>>

\* The window is over: the next request opens another.
NewWindow ==
    /\ bucket.count > 0
    /\ bucket' = [bucket EXCEPT !.count = 0]
    /\ window' = [admitted |-> 0, max |-> 0]
    /\ UNCHANGED <<keyDoc, keyUse, keyEdit, uses>>

\* The counters of the document, and the usage record when the response is
\* finished: two writes nobody waits for, each of which may fail.
RecordUsage(u) ==
    /\ keyUse[u].pc = "admitted"
    /\ \E logged, counted \in 0 .. 1 :
        /\ uses' = [logged |-> uses.logged + logged,
                    count |-> uses.count + (IF keyDoc.archived THEN 0 ELSE counted)]
    /\ keyUse' = [keyUse EXCEPT ![u].pc = "done"]
    /\ UNCHANGED <<keyDoc, bucket, keyEdit, window>>

-----------------------------------------------------------------------------
(* The owner's routes. *)

\* findOwnedKey.
FindOwnedKey(e, kind, max) ==
    /\ keyEdit[e].pc = "idle"
    /\ kind # "limit" => max = keyDoc.max
    /\ keyEdit' = [keyEdit EXCEPT ![e] = [pc |-> IF keyDoc.archived THEN "done"
                                                 ELSE "loaded",
                            kind |-> kind, max |-> max, seen |-> keyDoc]]
    /\ UNCHANGED <<keyDoc, bucket, keyUse, uses, window>>

\* PATCH, rotate, revoke and DELETE.  A path that already had the new value is
\* not written: a rotation reactivates only what its copy shows revoked.
Written(kind, seen, d) ==
    CASE kind = "rotate" ->
            [d EXCEPT !.hash = seen.hash + 1,
                      !.status = IF seen.status = "revoked" THEN "active" ELSE @]
      [] kind = "revoke" ->
            [d EXCEPT !.status = IF seen.status = "active" THEN "revoked" ELSE @]
      [] kind = "expiry" -> [d EXCEPT !.expired = ~seen.expired]
      [] kind = "delete" -> [d EXCEPT !.archived = TRUE]
      [] OTHER -> d

SaveKey(e) ==
    LET k == keyEdit[e].kind
        new == Written(k, keyEdit[e].seen, keyDoc)
    IN  /\ keyEdit[e].pc = "loaded"
        /\ new.hash <= Rotations
        /\ keyDoc' = IF k = "limit" THEN [new EXCEPT !.max = keyEdit[e].max] ELSE new
        /\ keyEdit' = [keyEdit EXCEPT ![e].pc = "done"]
        /\ UNCHANGED <<bucket, keyUse, uses, window>>

-----------------------------------------------------------------------------
\* POST /: an active key with a fresh plaintext and some limit.
ApiKeysInit ==
    /\ \E m \in Limits : keyDoc = [hash |-> 0, status |-> "active",
                            expired |-> FALSE, max |-> m, archived |-> FALSE]
    /\ bucket = [count |-> 0, max |-> keyDoc.max]
    /\ keyUse = [u \in KeyUses |-> [pc |-> "idle", hash |-> 0, seen |-> keyDoc]]
    /\ keyEdit = [e \in KeyEdits |-> [pc |-> "idle", kind |-> "limit",
                                      max |-> keyDoc.max, seen |-> keyDoc]]
    /\ uses = [logged |-> 0, count |-> 0]
    /\ window = [admitted |-> 0, max |-> 0]

ApiKeysNext ==
    \/ \E u \in KeyUses :
        \/ \E h \in 0 .. Rotations : PresentKey(u, h)
        \/ LookUpKey(u) \/ ConsumeRateLimit(u) \/ RecordUsage(u)
    \/ \E e \in KeyEdits :
        \/ \E kind \in EditKinds, max \in Limits : FindOwnedKey(e, kind, max)
        \/ SaveKey(e)
    \/ NewWindow

ApiKeysTypeOK ==
    /\ keyDoc \in Doc
    /\ bucket \in [count : 0 .. Cardinality(KeyUses), max : Limits]
    /\ keyUse \in [KeyUses -> [hash : 0 .. Rotations, seen : Doc,
                    pc : {"idle", "presented", "found", "admitted", "done"}]]
    /\ keyEdit \in [KeyEdits -> [pc : {"idle", "loaded", "done"},
                    kind : EditKinds, max : Limits, seen : Doc]]
    /\ uses \in [logged : Nat, count : Nat]

\* In one window no more requests are admitted than the largest limit any of
\* them was counted under, while the owner changes the limit and old copies of
\* it are still in flight (api-key-auth.js:56-79).
WindowLimited == window.admitted <= window.max

\* A revoked key comes back only by a rotation that found it revoked, never by
\* an edit loaded before the revocation (api-key-routes.js:195-262).
RevocationStands ==
    [][(keyDoc.status = "revoked" /\ keyDoc'.status = "active") =>
        \E e \in KeyEdits :
            /\ keyEdit[e].pc = "loaded" /\ keyEdit'[e].pc = "done"
            /\ keyEdit[e].kind = "rotate"
            /\ keyEdit[e].seen.status = "revoked"]_apiKeysVars

\* Limits and revocations hold together.
KeyRulesHold == []WindowLimited /\ RevocationStands

=============================================================================
