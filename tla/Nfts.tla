-------------------------------- MODULE Nfts ---------------------------------
(***************************************************************************)
(* Minting a collection of NFTs from a ZIP file:                           *)
(* server/routes/nft-routes.js with server/services/nft-service.js and the *)
(* NftCollection and NftItem models.  A request reads the collection's     *)
(* document at its start and saves it at its end, with the submission to   *)
(* the network between, and takes no lock.  One contract is modelled.      *)
(*                                                                         *)
(* External: MongoDB with its unique indexes on the contract and on the    *)
(* token of a contract; the network, which answers a submission without    *)
(* having executed it, or does not answer.                                 *)
(***************************************************************************)
EXTENDS Integers, FiniteSets, Functions

CONSTANTS
    NftRequests,    \* POST /nfts/collection/batch-mint for the one contract
    NftOwners,      \* source public keys
    NftIds          \* ids of the items of a ZIP file

ASSUME NftsAssumption == IsFiniteSet(NftIds) /\ IsFiniteSet(NftRequests)

VARIABLES
    collection,     \* the NftCollection of the contract, if any
    items,          \* the NftItems: each id with its owner
    mint,           \* where each request is, its owner, ids and document
    taken,          \* history: the requests whose submission the network took
    overlapped      \* history: a total was saved between another's read and save

nftVars == <<collection, items, mint, taken, overlapped>>

-----------------------------------------------------------------------------
(* Faulty variants: what the checks must notice. *)

AnyOwner(c, o) == TRUE

-----------------------------------------------------------------------------
Becomes(r, pc) == mint' = [mint EXCEPT ![r].pc = pc]

\* Another's collection is refused with 403.
Owned(c, o) == c.owner = o

\* findOne; an authenticated request may name any source account.
FindCollection(r, o, ids) ==
    /\ mint[r].pc = "idle"
    /\ mint' = [mint EXCEPT ![r] =
           [owner |-> {o}, ids |-> ids,
            doc |-> {c \in collection : Owned(c, o)},
            pc |-> CASE collection = {} -> "creating"
                     [] \E c \in collection : Owned(c, o) -> "unpacking"
                     [] OTHER -> "failed"]]
    /\ UNCHANGED <<collection, items, taken, overlapped>>

\* The new collection is saved, unless another request was faster; that it was
\* may not be heard.
SaveCollection(r) ==
    LET new == {[owner |-> CHOOSE o \in mint[r].owner : TRUE, total |-> 0]} IN
    /\ mint[r].pc = "creating"
    /\ \/ /\ collection = {}
          /\ collection' = new
          /\ mint' = [mint EXCEPT ![r].pc = "unpacking", ![r].doc = new]
       \/ /\ collection = {} /\ collection' = new
          /\ Becomes(r, "failed")
       \/ Becomes(r, "failed") /\ UNCHANGED collection
    /\ UNCHANGED <<items, taken, overlapped>>

\* processNftZip, without an await: a file without collection.json, or with an
\* item without its image, is refused whole.
ProcessZip(r) ==
    /\ mint[r].pc = "unpacking"
    /\ \E pc \in {"submitting", "failed"} : Becomes(r, pc)
    /\ UNCHANGED <<collection, items, taken, overlapped>>

\* submitNftBatchOperations: the network took the transaction.
Submit(r) == mint[r].pc = "submitting" /\ Becomes(r, "inserting")
             /\ taken' = taken \cup {r}
             /\ UNCHANGED <<collection, items, overlapped>>

\* The simulation or the network refused it, or the call failed; the failure
\* is audited.
SubmitFails(r) == mint[r].pc = "submitting" /\ Becomes(r, "failed")
                  /\ UNCHANGED <<collection, items, taken, overlapped>>

\* insertMany, unordered: the ids that are there already stay as they are, and
\* what else fails is only logged.
InsertItems(r) ==
    /\ mint[r].pc = "inserting"
    /\ \E stored \in SUBSET {i \in mint[r].ids : \A j \in items : j.id # i} :
           items' = items \cup [id : stored, owner : mint[r].owner]
    /\ Becomes(r, "counting")
    /\ UNCHANGED <<collection, taken, overlapped>>

\* totalMinted of the document read at the start, and the items submitted.
MintedBy(r) == Cardinality(mint[r].ids)

\* The requests that have read the document and may still save it.
Pending ==
    {r \in NftRequests : mint[r].pc \in {"unpacking", "submitting", "inserting", "counting"}}

\* The save of the total takes effect or not, and is answered or not.
SaveCollectionTotal(r, c, d) ==
    /\ mint[r].pc = "counting" /\ collection = {c} /\ mint[r].doc = {d}
    /\ \/ /\ collection' = IF MintedBy(r) = 0 THEN collection
                            ELSE {[c EXCEPT !.total = d.total + MintedBy(r)]}
          /\ overlapped' = (overlapped \/ Pending # {r})
          /\ \E pc \in {"auditing", "failed"} : Becomes(r, pc)
       \/ Becomes(r, "failed") /\ UNCHANGED <<collection, overlapped>>
    /\ UNCHANGED <<items, taken>>

\* DeploymentAudit.create, which may throw, stands before the answer with 200.
AuditSuccess(r) ==
    /\ mint[r].pc = "auditing"
    /\ \E pc \in {"answered", "failed"} : Becomes(r, pc)
    /\ UNCHANGED <<collection, items, taken, overlapped>>

NftsInit ==
    /\ collection = {} /\ items = {} /\ taken = {} /\ overlapped = FALSE
    /\ mint = [r \in NftRequests |-> [pc |-> "idle", owner |-> {}, ids |-> {}, doc |-> {}]]

NftsNext ==
    \E r \in NftRequests :
        \/ \E o \in NftOwners, ids \in SUBSET NftIds : FindCollection(r, o, ids)
        \/ SaveCollection(r) \/ ProcessZip(r) \/ Submit(r) \/ SubmitFails(r) \/ InsertItems(r)
        \/ AuditSuccess(r)
        \/ \E c \in collection, d \in mint[r].doc : SaveCollectionTotal(r, c, d)

-----------------------------------------------------------------------------
(* Properties. *)

NftsTypeOK ==
    /\ collection \subseteq [owner : NftOwners, total : Nat] /\ Cardinality(collection) <= 1
    /\ items \subseteq [id : NftIds, owner : NftOwners]
    /\ \A r \in NftRequests :
        /\ mint[r].pc \in {"idle", "creating", "unpacking", "submitting", "inserting",
                           "counting", "auditing", "answered", "failed"}
        /\ mint[r].owner \subseteq NftOwners /\ mint[r].ids \subseteq NftIds
    /\ taken \subseteq NftRequests /\ overlapped \in BOOLEAN

\* The number of items that the requests of a set mint.
ItemsOf(requests) == SumFunctionOnSet([r \in NftRequests |-> MintedBy(r)], requests)

\* A collection is minted for one account alone, that of the request that
\* registered it, also when the first requests of two accounts find it absent
\* together; its total never exceeds the items that the network took, whichever
\* requests overlap or fail behind the submission; and it counts the items of
\* every request answered with 200, except where one saved it between another's
\* read and its save (nft-routes.js:75-92, 125-154).
CollectionIsItsOwners ==
    /\ \A c \in collection, i \in items : i.owner = c.owner
    /\ \A c \in collection : c.total <= ItemsOf(taken)
    /\ \A c \in collection : ~overlapped =>
          ItemsOf({r \in NftRequests : mint[r].pc = "answered"}) <= c.total
=============================================================================
