---------------------------- MODULE Idempotency ----------------------------
(***************************************************************************)
(* The idempotency guard of the SparkPilot API (idempotency.py,            *)
(* with_idempotency) around the create handlers it wraps in api.py:        *)
(* create_tenant, create_environment, create_job and create_run           *)
(* (services.py).                                                          *)
(*                                                                         *)
(* A request looks up (scope, key); on a miss it runs the handler, which   *)
(* commits its own effect (db.commit inside the handler), and only then    *)
(* inserts and commits the IdempotencyRecord.  The handler's read and its  *)
(* commit are separate steps, so API workers interleave between them, and *)
(* a worker may die, or a commit fail, between any two steps.  A client    *)
(* that gets no answer retries: a retry is just another request.          *)
(*                                                                         *)
(* Abstractions: one ready environment and one job; a request payload is  *)
(* a model value (a tenant's name is its payload), and its SHA-256        *)
(* fingerprint over canonical JSON tells payloads apart exactly as the    *)
(* model values do; response bodies are the id of the entity they show;   *)
(* audit rows are left out.  entities[s][i].key and .fp are history       *)
(* fields: the key and payload of the request that inserted the row.      *)
(***************************************************************************)
EXTENDS Integers, Sequences, FiniteSets

CONSTANTS
    Workers,            \* the API's request workers (model values)
    Scopes,             \* the wrapped endpoints: "tenant", "environment", "job", "run"
    Keys,               \* Idempotency-Key values clients send
    Payloads,           \* request bodies clients send
    MaxRequests,        \* bound: requests in one behaviour
    MaxCrashes,         \* bound: requests lost in the middle
    MaxConcurrentRuns,  \* environment quota max_concurrent_runs
    None                \* the SQL NULL

ASSUME /\ Scopes \subseteq {"tenant", "environment", "job", "run"}
       /\ MaxRequests \in Nat /\ MaxCrashes \in Nat /\ MaxConcurrentRuns \in Nat

VARIABLES
    records,   \* idempotency_records: scope -> key -> [fp, status, body] or None
    entities,  \* tenants, jobs, runs: scope -> sequence of inserted rows
    api,       \* per worker: the request it is handling and where it is
    replies,   \* every answer a client has received
    requests,  \* requests started so far
    crashes    \* requests lost so far

vars == <<records, entities, api, replies, requests, crashes>>

Codes == {200, 201, 409, 429, 500}
Ids == 1..MaxRequests

Idle == [pc |-> "idle", scope |-> None, key |-> None, fp |-> None, body |-> None]

Reply(req, code, body) ==
    replies' = replies \cup {[scope |-> req.scope, key |-> req.key, fp |-> req.fp,
                              code |-> code, body |-> body]}

(* The handler raises: its HTTPException, or an IntegrityError at commit, *)
(* passes through with_idempotency and no record is written.             *)
Fail(w, code) ==
    /\ Reply(api[w], code, None)
    /\ api' = [api EXCEPT ![w] = Idle]

Goto(w, pc, body) ==
    /\ api' = [api EXCEPT ![w].pc = pc, ![w].body = body]
    /\ UNCHANGED replies

RowsWith(s, f, v) == {i \in DOMAIN entities[s] : entities[s][i][f] = v}

(* Mutant: the response is built before the flush that assigns the id.   *)
Insert_no_flush(w) ==
    /\ entities' = [entities EXCEPT ![api[w].scope] =
                        Append(@, [key |-> api[w].key, fp |-> api[w].fp])]
    /\ Goto(w, "record", None)

(* db.add and db.flush of the new row, which assigns its id.              *)
Insert(w) ==
    /\ entities' = [entities EXCEPT ![api[w].scope] =
                        Append(@, [key |-> api[w].key, fp |-> api[w].fp])]
    /\ Goto(w, "record", Len(entities[api[w].scope]) + 1)

-----------------------------------------------------------------------------
(* with_idempotency: the lookup, and the replay or conflict it may answer *)
(* with at once.                                                          *)

(* Mutant: the replay does not compare fingerprints.                      *)
with_idempotency_lookup_no_fp(w) ==
    /\ api[w].pc = "idle"
    /\ requests < MaxRequests
    /\ requests' = requests + 1
    /\ \E s \in Scopes, k \in Keys, p \in Payloads :
          LET req == [Idle EXCEPT !.scope = s, !.key = k, !.fp = p]
              rec == records[s][k]
          IN \/ /\ rec # None
                /\ Reply(req, rec.status, rec.body) /\ UNCHANGED api
             \/ /\ rec = None
                /\ api' = [api EXCEPT ![w] = [req EXCEPT !.pc = "execute"]]
                /\ UNCHANGED replies
    /\ UNCHANGED <<records, entities, crashes>>

with_idempotency_lookup(w) ==
    /\ api[w].pc = "idle"
    /\ requests < MaxRequests
    /\ requests' = requests + 1
    /\ \E s \in Scopes, k \in Keys, p \in Payloads :
          LET req == [Idle EXCEPT !.scope = s, !.key = k, !.fp = p]
              rec == records[s][k]
          IN \/ /\ rec # None /\ rec.fp # p
                /\ Reply(req, 409, None) /\ UNCHANGED api
             \/ /\ rec # None /\ rec.fp = p
                /\ Reply(req, rec.status, rec.body) /\ UNCHANGED api
             \/ /\ rec = None
                /\ api' = [api EXCEPT ![w] = [req EXCEPT !.pc = "execute"]]
                /\ UNCHANGED replies
    /\ UNCHANGED <<records, entities, crashes>>

-----------------------------------------------------------------------------
(* The handlers: what each reads before its INSERT, and the INSERT with   *)
(* its commit.                                                            *)

(* create_tenant: 409 if a tenant already has the name.                   *)
create_tenant_read(w) ==
    IF RowsWith("tenant", "fp", api[w].fp) # {} THEN Fail(w, 409) ELSE Goto(w, "insert", None)

(* The unique name constraint fails the commit of a concurrent duplicate. *)
create_tenant_insert(w) ==
    IF RowsWith("tenant", "fp", api[w].fp) # {}
    THEN Fail(w, 500) /\ UNCHANGED entities
    ELSE Insert(w)

(* create_run: the quota check counts the active runs (every run of this  *)
(* module is still queued) before the lookup of a run with this key.      *)
create_run_read(w) ==
    LET existing == RowsWith("run", "key", api[w].key) IN
    IF Len(entities["run"]) >= MaxConcurrentRuns THEN Fail(w, 429)
    ELSE IF existing # {} THEN Goto(w, "record", CHOOSE i \in existing : TRUE)
    ELSE Goto(w, "insert", None)

(* uq_runs_job_idempotency fails the commit of a concurrent duplicate.    *)
create_run_insert(w) ==
    IF RowsWith("run", "key", api[w].key) # {}
    THEN Fail(w, 500) /\ UNCHANGED entities
    ELSE Insert(w)

(* create_environment: nothing to check once the tenant exists (the      *)
(* byoc_lite 422 is a request clients of this model do not send).  Its    *)
(* insert is the environment with its queued provisioning operation.      *)
create_environment_read(w) == Goto(w, "insert", None)

create_environment_insert(w) == Insert(w)

(* create_job: nothing to check once the environment exists.              *)
create_job_read(w) == Goto(w, "insert", None)

create_job_insert(w) == Insert(w)

execute(w) ==
    /\ api[w].pc = "execute"
    /\ \/ api[w].scope = "tenant" /\ create_tenant_read(w)
       \/ api[w].scope = "job" /\ create_job_read(w)
       \/ api[w].scope = "run" /\ create_run_read(w)
       \/ api[w].scope = "environment" /\ create_environment_read(w)
    /\ UNCHANGED <<records, entities, requests, crashes>>

handler_commit(w) ==
    /\ api[w].pc = "insert"
    /\ \/ api[w].scope = "tenant" /\ create_tenant_insert(w)
       \/ api[w].scope = "job" /\ create_job_insert(w)
       \/ api[w].scope = "run" /\ create_run_insert(w)
       \/ api[w].scope = "environment" /\ create_environment_insert(w)
    /\ UNCHANGED <<records, requests, crashes>>

-----------------------------------------------------------------------------

(* Mutant: the record is written without the unique (scope, key).         *)
record_commit_no_unique(w) ==
    LET req == api[w] IN
    /\ req.pc = "record"
    /\ records' = [records EXCEPT ![req.scope][req.key] = [fp |-> req.fp, status |-> 201, body |-> req.body]]
    /\ Reply(req, 201, req.body)
    /\ api' = [api EXCEPT ![w] = Idle]
    /\ UNCHANGED <<entities, requests, crashes>>

(* with_idempotency stores the response and commits; a concurrent request *)
(* that stored its record first makes this commit fail on the unique      *)
(* (scope, key), after the handler's effect was committed.                *)
record_commit(w) ==
    LET req == api[w] IN
    /\ req.pc = "record"
    /\ IF records[req.scope][req.key] # None
       THEN Fail(w, 500) /\ UNCHANGED records
       ELSE /\ records' = [records EXCEPT ![req.scope][req.key] =
                              [fp |-> req.fp, status |-> 201, body |-> req.body]]
            /\ Reply(req, 201, req.body)
            /\ api' = [api EXCEPT ![w] = Idle]
    /\ UNCHANGED <<entities, requests, crashes>>

(* The worker dies, or a commit fails with no answer the client reads,    *)
(* in the middle of a request; what it committed stays.                   *)
crash(w) ==
    /\ api[w].pc # "idle"
    /\ crashes < MaxCrashes
    /\ crashes' = crashes + 1
    /\ api' = [api EXCEPT ![w] = Idle]
    /\ UNCHANGED <<records, entities, replies, requests>>

-----------------------------------------------------------------------------

Init ==
    /\ records = [s \in Scopes |-> [k \in Keys |-> None]]
    /\ entities = [s \in Scopes |-> <<>>]
    /\ api = [w \in Workers |-> Idle]
    /\ replies = {}
    /\ requests = 0
    /\ crashes = 0

(* Every request has been answered or lost and no more are sent.          *)
Done ==
    /\ \A w \in Workers : api[w].pc = "idle"
    /\ requests = MaxRequests
    /\ UNCHANGED vars

Next ==
    \/ \E w \in Workers :
          \/ with_idempotency_lookup(w) \/ execute(w) \/ handler_commit(w)
          \/ record_commit(w) \/ crash(w)
    \/ Done

Spec == Init /\ [][Next]_vars

-----------------------------------------------------------------------------
(* Properties                                                             *)

TypeOK ==
    /\ \A s \in Scopes : \A k \in Keys :
          records[s][k] = None \/ records[s][k] \in [fp: Payloads, status: Codes, body: Ids]
    /\ \A s \in Scopes : \A i \in DOMAIN entities[s] : entities[s][i] \in [key: Keys, fp: Payloads]
    /\ \A w \in Workers : api[w].pc \in {"idle", "execute", "insert", "record"}
    /\ \A r \in replies : r.code \in Codes
    /\ requests \in 0..MaxRequests /\ crashes \in 0..MaxCrashes

(* Spec section 4.1: a key is run by its handler at most once, so at most *)
(* one row is ever inserted under one Idempotency-Key of one scope.       *)
OneEffectPerKey ==
    \A s \in Scopes : \A k \in Keys : Cardinality(RowsWith(s, "key", k)) <= 1

(* Two successful answers for one scope and key are for the same payload  *)
(* and name the same entity: a replay carries the stored body, a key      *)
(* reused with another body gets 409, and only one record per key is      *)
(* ever committed.                                                        *)
SuccessfulRepliesAgree ==
    \A r1, r2 \in replies :
        (r1.scope = r2.scope /\ r1.key = r2.key /\ r1.code = 201 /\ r2.code = 201)
            => r1.fp = r2.fp /\ r1.body = r2.body

(* Spec section 8: identical POSTs with one key return the identical body. *)
(* Once a request has inserted its row, every answer to the same scope,   *)
(* key and payload that is not an internal error is a success naming that *)
(* row.                                                                   *)
RetriesGetTheEffect ==
    \A r \in replies : \A i \in RowsWith(r.scope, "key", r.key) :
        (entities[r.scope][i].fp = r.fp /\ r.code # 500) => r.code = 201 /\ r.body = i

=============================================================================
