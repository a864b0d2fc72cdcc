------------------------------ MODULE Sidecar ------------------------------
(***************************************************************************)
(* IntentSidecar (bins/solfrontier-mcp/src/sidecar.rs): the SQLite file    *)
(* next to the main database that remembers which drafts were finalized    *)
(* and which canonical hash belongs to which intent.                       *)
(*                                                                         *)
(* The file is shared by every server process; whether a process has it    *)
(* open is that process's own SidecarState.  Opening is lazy.  Finding no  *)
(* file, creating it and committing its schema are three steps, and the    *)
(* process may die between them or find that another one got there first.  *)
(***************************************************************************)
EXTENDS Identifiers

CONSTANTS
    Servers,    \* server processes that use the same database
    Drafts,     \* draft ids
    Hashes      \* draft hashes

ASSUME HashNullAssumption == NULL \notin Hashes

VARIABLES
    file,       \* "absent", "empty" (created, no schema yet) or "valid"
    conn,       \* server -> its SidecarState; "creating" while it holds the
                \* mutex between finding no file and having its schema
    consumed,   \* consumed_drafts: draft id -> draft hash, or NULL
    hashIndex   \* canonical_hash_index: intent -> hash it is bound to, or NULL

sidecarVars == <<file, conn, consumed, hashIndex>>
sidecarRows == <<consumed, hashIndex>>

SidecarInit ==
    /\ file = "absent"
    /\ conn = [v \in Servers |-> "unopened"]
    /\ consumed = [d \in Drafts |-> NULL]
    /\ hashIndex = [i \in Intents |-> NULL]

-----------------------------------------------------------------------------
(* Opening *)

SetConn(v, state) == conn' = [conn EXCEPT ![v] = state]

mark_unavailable(v) == SetConn(v, "unavailable") /\ UNCHANGED file

\* open_existing: a file without its schema does not validate; any file may
\* fail to open.
open_existing(v) ==
    /\ conn[v] = "unopened"
    /\ file # "absent"
    /\ \/ file = "valid" /\ SetConn(v, "ready")
       \/ SetConn(v, "unavailable")
    /\ UNCHANGED file

\* pool_for_claim finds no file and will create one.
BeginCreate(v) ==
    /\ conn[v] = "unopened"
    /\ file = "absent"
    /\ SetConn(v, "creating")
    /\ UNCHANGED file

\* connect, with create_if_missing.
CreateFile(v) ==
    /\ conn[v] = "creating"
    /\ file = "absent"
    /\ file' = "empty"
    /\ UNCHANGED conn

\* initialize_schema: CREATE TABLE fails if another process committed its own.
FinishCreate(v) ==
    /\ conn[v] = "creating"
    /\ \/ /\ file = "empty"
          /\ file' = "valid"
          /\ SetConn(v, "ready")
       \/ SetConn(v, "unavailable") /\ UNCHANGED file

\* A lookup that cannot ask the filesystem, or whose SELECT fails, closes the
\* sidecar; one that finds no file leaves it as it is.
LookupFails(v) ==
    /\ conn[v] \in {"unopened", "ready"}
    /\ mark_unavailable(v)

\* The process dies and is started again.
SidecarCrash(v) == SetConn(v, "unopened") /\ UNCHANGED file

-----------------------------------------------------------------------------
(* Transactions.  A caller that has a clone of the pool goes on with it, even *)
(* if another request closes the sidecar meanwhile.                          *)

\* consumed_drafts holds the pair, which is what the index's key refers to.
Consumed(d, hash) == consumed[d] = hash

\* Mutant: the row count of INSERT OR IGNORE is not looked at.
ClaimOutcome_unchecked(d, hash) ==
    IF consumed[d] \in {NULL, hash} THEN "claimed" ELSE "conflict"

\* Mutant: INSERT OR REPLACE, so that a draft id with another hash is taken over.
ClaimOutcome_replacing(d, hash) ==
    IF consumed[d] = hash THEN "already_consumed" ELSE "claimed"

\* claim_draft_in_pool: the outcome of INSERT OR IGNORE and its read back.
ClaimOutcome(d, hash) ==
    IF consumed[d] = NULL THEN "claimed"
    ELSE IF Consumed(d, hash) THEN "already_consumed" ELSE "conflict"

claim_draft(d, hash) ==
    /\ consumed' = IF ClaimOutcome(d, hash) = "claimed"
                   THEN [consumed EXCEPT ![d] = hash] ELSE consumed
    /\ UNCHANGED <<file, conn, hashIndex>>

\* A storage error closes the sidecar to this process.  The transaction is
\* rolled back, unless it is the commit whose answer was lost.
ClaimError(v, d, hash) ==
    /\ mark_unavailable(v)
    /\ \/ UNCHANGED consumed
       \/ consumed[d] = NULL /\ consumed' = [consumed EXCEPT ![d] = hash]
    /\ UNCHANGED hashIndex

\* index_hash_in_pool.  A new pair needs a draft claimed with this hash (the
\* foreign key), the same pair again is idempotent, and an intent bound to
\* another canonical hash is a conflict.  Both failures close the sidecar.
CanIndex(d, hash, i, created) ==
    \/ hashIndex[i] = created
    \/ hashIndex[i] = NULL /\ Consumed(d, hash)

index_hash(v, d, hash, i, created) ==
    /\ IF CanIndex(d, hash, i, created)
       THEN /\ hashIndex' = [hashIndex EXCEPT ![i] = created]
            /\ UNCHANGED <<file, conn>>
       ELSE /\ mark_unavailable(v)
            /\ UNCHANGED hashIndex
    /\ UNCHANGED consumed

IndexError(v, d, hash, i, created) ==
    /\ mark_unavailable(v)
    /\ \/ UNCHANGED hashIndex
       \/ CanIndex(d, hash, i, created) /\ hashIndex' = [hashIndex EXCEPT ![i] = created]
    /\ UNCHANGED consumed

\* Opening, which the first request of a process to need the file does.
SidecarOpening(v) ==
    \/ open_existing(v)
    \/ BeginCreate(v)
    \/ CreateFile(v)
    \/ FinishCreate(v)

-----------------------------------------------------------------------------
SidecarTypeOK ==
    /\ file \in {"absent", "empty", "valid"}
    /\ conn \in [Servers -> {"unopened", "creating", "ready", "unavailable"}]
    /\ consumed \in [Drafts -> Hashes \cup {NULL}]
    /\ hashIndex \in [Intents -> Slots \cup {NULL}]

\* "Permanent consume-once tombstone" and "immutable canonical-hash mapping":
\* no step of any process removes or rebinds either.
SidecarIsAppendOnly ==
    [][/\ \A d \in Drafts : consumed[d] # NULL => consumed'[d] = consumed[d]
       /\ \A i \in Intents : hashIndex[i] # NULL => hashIndex'[i] = hashIndex[i]
      ]_sidecarVars

=============================================================================
