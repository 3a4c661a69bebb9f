------------------------------ MODULE VectorIndex ------------------------------
(* The embeddings of the search observations and their vec0 sidecar, which the  *)
(* connections of several processes share.  A vector is known by the text it    *)
(* encodes.  rebuild-vector-index encodes into a staging table of its own and   *)
(* publishes it in one transaction, then rebuilds vec0 in the same manner; a    *)
(* nearest-neighbour query first adds to vec0 the rows that it lacks.           *)
EXTENDS Naturals, FiniteSets

CONSTANTS
    Obs,       \* search observations
    MaxText,   \* texts an observation goes through
    Builder,   \* processes that run rebuild-vector-index
    Saver      \* processes that save observations

Text == 1..MaxText
Stored == [Obs -> 0..MaxText]   \* what is stored of each observation; 0 is nothing
Nothing == [o \in Obs |-> 0]

ASSUME VectorAssumption == MaxText \in Nat \ {0} /\ IsFiniteSet(Obs)

VARIABLES
    vec,     \* vec_embeddings: the text that the persisted vector encodes
    vec0,    \* vec_embeddings_vec0: the same, for the rows of the sidecar
    made,    \* whether the sidecar has an active generation in index_generations
    held,    \* who holds the write lock of the index database between two steps
    build    \* each rebuild-vector-index

tables == <<vec, vec0, made>>
vectorVars == <<tables, held, build>>

NoBuild == [at |-> "idle", items |-> Nothing, seen |-> Nothing, staged |-> Nothing,
            newer |-> {}]

VectorTypeOK ==
    /\ vec \in Stored /\ vec0 \in Stored /\ made \in BOOLEAN
    /\ held \in {"nobody", "rebuild", "reader"} \cup Saver
    /\ build \in [Builder -> [at : {"idle", "listed", "encoding", "vec0", "staged"},
                              items : Stored, seen : Stored, staged : Stored,
                              newer : SUBSET Obs]]

VectorInit ==
    /\ vec = Nothing /\ vec0 = Nothing /\ made = FALSE /\ held = "nobody"
    /\ build = [b \in Builder |-> NoBuild]

(* A write waits for the transaction that another connection has open, and a    *)
(* commit ends the one that its own connection has open.                        *)
IndexIsFree == held = "nobody"
Writes(p) == held \in {"nobody", p} /\ held' = "nobody"
Over(f, g) == [o \in Obs |-> IF g[o] # 0 THEN g[o] ELSE f[o]]
Ids(f) == {o \in Obs : f[o] # 0}
------------------------------------------------------------------------------
(* vec0 refuses some INSERT OR REPLACE of a row it has: the error is logged and *)
(* the old row stays, but nothing ends the transaction of the failed statement. *)
Upsert(p, o, t) ==
    /\ held \in {"nobody", p}
    /\ \/ vec0' = [vec0 EXCEPT ![o] = t] /\ held' = "nobody"
       \/ vec0[o] # 0 /\ vec0' = vec0 /\ held' = p

(* persist_embedding.  newer keeps which vectors are younger than a listing.    *)
PersistVector(o, t) ==
    /\ vec' = [vec EXCEPT ![o] = t]
    /\ build' = [b \in Builder |-> [build[b] EXCEPT !.newer =
                    IF build[b].at \in {"listed", "encoding"} THEN @ \cup {o} ELSE @]]

(* Mutant of DropVectors: the row of the sidecar stays.                        *)
DropVector(o) == vec' = [vec EXCEPT ![o] = 0] /\ vec0' = vec0
(* Deleting a row of the index deletes its vectors in the same transaction.     *)
DropVectors(o) == vec' = [vec EXCEPT ![o] = 0] /\ vec0' = [vec0 EXCEPT ![o] = 0]
------------------------------------------------------------------------------
(* rebuild-vector-index, after it has listed the observations: the entries of   *)
(* the other store come first, and then the rows that are there are remembered. *)
TakeFingerprint(b) ==
    /\ build[b].at = "listed"
    /\ build' = [build EXCEPT ![b].at = "encoding", ![b].seen = vec]
    /\ UNCHANGED <<tables, held>>

(* Embeddings are switched off: the batch is skipped, vec0 is rebuilt.          *)
SkipBatch(b) ==
    /\ build[b].at = "listed"
    /\ build' = [build EXCEPT ![b] = [NoBuild EXCEPT !.at = "vec0"]]
    /\ UNCHANGED <<tables, held>>

TargetsUnchanged(b) == \A o \in Ids(build[b].items) : vec[o] = build[b].seen[o]

PublishBatch(b) ==
    /\ build[b].at = "encoding" /\ IndexIsFree
    /\ TargetsUnchanged(b)
    /\ vec' = Over(vec, build[b].items)
    /\ build' = [build EXCEPT ![b] = [NoBuild EXCEPT !.at = "vec0"]]
    /\ UNCHANGED <<vec0, made, held>>

(* Encoding fails, or a target has changed: the staging table is dropped and    *)
(* the command ends with an error.                                              *)
FailBatch(b) ==
    /\ build[b].at = "encoding"
    /\ build' = [build EXCEPT ![b] = NoBuild]
    /\ UNCHANGED <<tables, held>>

StageVec0(b) ==
    /\ build[b].at = "vec0" /\ IndexIsFree /\ Ids(vec) # {}
    /\ build' = [build EXCEPT ![b] = [NoBuild EXCEPT !.at = "staged", !.staged = vec]]
    /\ UNCHANGED <<tables, held>>

SourceUnchanged(b) == vec = build[b].staged

PublishVec0(b) ==
    /\ build[b].at = "staged" /\ IndexIsFree
    /\ SourceUnchanged(b)
    /\ vec0' = build[b].staged /\ made' = TRUE
    /\ build' = [build EXCEPT ![b] = NoBuild]
    /\ UNCHANGED <<vec, held>>

(* Nothing to index, an error, or a source that has changed: the active table   *)
(* stays, and the rebuild reports no rows.                                      *)
LeaveVec0(b) ==
    /\ build[b].at \in {"vec0", "staged"}
    /\ build' = [build EXCEPT ![b] = NoBuild]
    /\ UNCHANGED <<tables, held>>

VectorNext == \E b \in Builder :
    \/ TakeFingerprint(b) \/ SkipBatch(b) \/ PublishBatch(b) \/ FailBatch(b)
    \/ StageVec0(b) \/ PublishVec0(b) \/ LeaveVec0(b)
------------------------------------------------------------------------------
(* _check_vector_index_health: a sidecar that has rows needs a generation, and  *)
(* its content is compared with what is persisted.                              *)
Vec0Verdict ==
    CASE Ids(vec0) # {} /\ ~made -> "generation is missing"
      [] Ids(vec0) # {} /\ vec0 # vec -> "generation mismatch"
      [] Ids(vec) = {} -> "empty"
      [] Ids(vec) \ Ids(vec0) # {} -> "behind"
      [] OTHER -> "healthy"
==============================================================================
