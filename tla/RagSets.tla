------------------------------ MODULE RagSets -------------------------------
(***************************************************************************)
(* The sets of an owner (app/api/rags.py): how many there may be, what     *)
(* they are called and what a PATCH changes.  Every handler reads the row, *)
(* then writes it in a later transaction; only the unique index on owner   *)
(* and lower(name) of the visible sets stands between two handlers.        *)
(***************************************************************************)
EXTENDS Naturals, FiniteSets

CONSTANTS
  Rags,      \* identifiers of rag sets
  Owners,    \* users
  OwnerOf,   \* rag_sets.owner_id
  Requests,  \* requests in flight at the same time
  Names,     \* names up to lower()
  Prompts,   \* values of the other fields, in one
  Null,      \* a JSON null
  Absent,    \* a field a PATCH does not mention
  MaxSets    \* rag_max_sets_per_owner

ASSUME RagSetsAssumption ==
  /\ IsFiniteSet(Rags) /\ IsFiniteSet(Requests)
  /\ OwnerOf \in [Rags -> Owners]
  /\ MaxSets \in Nat \ {0}
  /\ Null \notin Names /\ Absent \notin Names \cup Prompts \cup {Null}

VARIABLES
  row,     \* rag_sets: no row, visible, soft-deleted, removed
  name,    \* rag_sets.name
  prompt,  \* rag_sets.prompt
  pc,      \* next step of a request
  target,  \* the set it is about to make, edit or delete
  seen,    \* the fields as _owned loaded them
  patch,   \* the fields of its body
  answer   \* its last response

vars == <<row, name, prompt, pc, target, seen, patch, answer>>

Bodies == [name : Names \cup {Null, Absent}, prompt : Prompts \cup {Null, Absent}]

\* Every row, request and response has its type.
TypeOK ==
  /\ row \in [Rags -> {"none", "alive", "hidden", "gone"}]
  /\ name \in [Rags -> Names \cup {Null}]
  /\ prompt \in [Rags -> Prompts \cup {Null}]
  /\ pc \in [Requests -> {"idle", "insert", "commit", "refresh", "delete"}]
  /\ target \in [Requests -> Rags \cup {Null}]
  /\ seen \in [Requests -> Bodies]
  /\ patch \in [Requests -> Bodies]
  /\ answer \in [Requests -> {"none", "ok", "limit", "taken", "error"}]

NoBody == [name |-> Absent, prompt |-> Absent]

Init ==
  /\ row = [g \in Rags |-> "none"]
  /\ name = [g \in Rags |-> Null]
  /\ prompt = [g \in Rags |-> Null]
  /\ pc = [r \in Requests |-> "idle"]
  /\ target = [r \in Requests |-> Null]
  /\ seen = [r \in Requests |-> NoBody]
  /\ patch = [r \in Requests |-> NoBody]
  /\ answer = [r \in Requests |-> "none"]

-----------------------------------------------------------------------------
(* Reading and constraining the table.                                     *)

SetsOf(o) == {g \in Rags : OwnerOf[g] = o /\ row[g] = "alive"}

\* uq_rag_sets_owner_name would be violated by the name n on set g.
Taken(g, n) == \E h \in SetsOf(OwnerOf[g]) \ {g} : name[h] = n

Begin(r, step, g, fields, body) ==
  /\ pc[r] = "idle"
  /\ pc' = [pc EXCEPT ![r] = step]
  /\ target' = [target EXCEPT ![r] = g]
  /\ seen' = [seen EXCEPT ![r] = fields]
  /\ patch' = [patch EXCEPT ![r] = body]
  /\ answer' = [answer EXCEPT ![r] = "none"]

Respond(r, code) ==
  /\ pc' = [pc EXCEPT ![r] = "idle"]
  /\ target' = [target EXCEPT ![r] = Null]
  /\ seen' = [seen EXCEPT ![r] = NoBody]
  /\ patch' = [patch EXCEPT ![r] = NoBody]
  /\ answer' = [answer EXCEPT ![r] = code]

-----------------------------------------------------------------------------
(* POST /rags and POST /rags/from-bucket: count, then insert.              *)

\* Mutant: one too many is let through.
CheckLimitLate(r, g, body) ==
  /\ row[g] = "none" /\ \A q \in Requests : target[q] # g
  /\ body.name \in Names /\ body.prompt # Absent
  /\ Cardinality(SetsOf(OwnerOf[g])) <= MaxSets
  /\ Begin(r, "insert", g, NoBody, body)
  /\ UNCHANGED <<row, name, prompt>>

\* Mutant: a field the body leaves out is stored as it is.
CheckLimitPartial(r, g, body) ==
  /\ row[g] = "none" /\ \A q \in Requests : target[q] # g
  /\ body.name \in Names
  /\ Cardinality(SetsOf(OwnerOf[g])) < MaxSets
  /\ Begin(r, "insert", g, NoBody, body)
  /\ UNCHANGED <<row, name, prompt>>

\* The identifier g is drawn by the database when the row is inserted; it is
\* fixed here, and g is nobody else's.
CheckLimit(r, g, body) ==
  /\ row[g] = "none" /\ \A q \in Requests : target[q] # g
  /\ body.name \in Names /\ body.prompt # Absent
  /\ \/ /\ Cardinality(SetsOf(OwnerOf[g])) < MaxSets
        /\ Begin(r, "insert", g, NoBody, body)
     \/ /\ Cardinality(SetsOf(OwnerOf[g])) >= MaxSets
        /\ pc[r] = "idle"
        /\ Respond(r, "limit")
  /\ UNCHANGED <<row, name, prompt>>

\* Mutant: a name is not looked at again when the row is written.
InsertUnchecked(r) ==
  LET g == target[r] IN
  /\ pc[r] = "insert"
  /\ row' = [row EXCEPT ![g] = "alive"]
  /\ name' = [name EXCEPT ![g] = patch[r].name]
  /\ prompt' = [prompt EXCEPT ![g] = patch[r].prompt]
  /\ pc' = [pc EXCEPT ![r] = "refresh"]
  /\ UNCHANGED <<target, seen, patch, answer>>

Insert(r) ==
  LET g == target[r] IN
  /\ pc[r] = "insert"
  /\ \/ /\ ~Taken(g, patch[r].name)
        /\ row' = [row EXCEPT ![g] = "alive"]
        /\ name' = [name EXCEPT ![g] = patch[r].name]
        /\ prompt' = [prompt EXCEPT ![g] = patch[r].prompt]
        /\ pc' = [pc EXCEPT ![r] = "refresh"]
        /\ UNCHANGED <<target, seen, patch, answer>>
     \/ /\ Taken(g, patch[r].name)
        /\ Respond(r, "taken")
        /\ UNCHANGED <<row, name, prompt>>

-----------------------------------------------------------------------------
(* PATCH /rags/{g}: load, commit, load again.                              *)

LoadSet(r, g, body) ==
  /\ row[g] = "alive"
  /\ Begin(r, "commit", g, [name |-> name[g], prompt |-> prompt[g]], body)
  /\ UNCHANGED <<row, name, prompt>>

\* Mutant: every field is written back as it was loaded.
NewerAll(new, old, field) == IF new = Absent THEN old ELSE new

\* SQLAlchemy writes the attributes that differ from what was loaded.
Newer(new, old, current) == IF new \in {Absent, old} THEN current ELSE new

\* IntegrityError: a null where none is allowed, or a name that is taken; the
\* index does not see a hidden set.  A row that is gone is an error of its own.
Commit(r) ==
  LET g       == target[r]
      body    == patch[r]
      renamed == body.name \notin {Absent, seen[r].name}
      changed == renamed \/ body.prompt \notin {Absent, seen[r].prompt}
      refused == renamed /\ (body.name = Null \/ (row[g] = "alive" /\ Taken(g, body.name)))
  IN
  /\ pc[r] = "commit"
  /\ \/ /\ row[g] = "gone" /\ changed
        /\ Respond(r, "error")
        /\ UNCHANGED <<name, prompt>>
     \/ /\ row[g] # "gone" /\ refused
        /\ Respond(r, "taken")
        /\ UNCHANGED <<name, prompt>>
     \/ /\ ~refused /\ (row[g] = "gone" => ~changed)
        /\ name' = [name EXCEPT ![g] = Newer(body.name, seen[r].name, @)]
        /\ prompt' = [prompt EXCEPT ![g] = Newer(body.prompt, seen[r].prompt, @)]
        /\ pc' = [pc EXCEPT ![r] = "refresh"]
        /\ UNCHANGED <<target, seen, patch, answer>>
  /\ UNCHANGED row

\* session.refresh, in a transaction of its own.
Refresh(r) ==
  /\ pc[r] = "refresh"
  /\ Respond(r, IF row[target[r]] = "gone" THEN "error" ELSE "ok")
  /\ UNCHANGED <<row, name, prompt>>

-----------------------------------------------------------------------------
(* DELETE /rags/{g}, and its purge.                                        *)

StartDelete(r, g) ==
  /\ row[g] = "alive"
  /\ Begin(r, "delete", g, NoBody, NoBody)
  /\ UNCHANGED <<row, name, prompt>>

SoftDelete(r) ==
  /\ pc[r] = "delete"
  /\ row' = [row EXCEPT ![target[r]] = IF @ = "gone" THEN @ ELSE "hidden"]
  /\ Respond(r, "ok")
  /\ UNCHANGED <<name, prompt>>

Purge(g) ==
  /\ row[g] = "hidden"
  /\ row' = [row EXCEPT ![g] = "gone"]
  /\ UNCHANGED <<name, prompt, pc, target, seen, patch, answer>>

Next ==
  \/ \E r \in Requests :
       \/ \E g \in Rags, body \in Bodies :
            CheckLimit(r, g, body) \/ LoadSet(r, g, body)
       \/ \E g \in Rags : StartDelete(r, g)
       \/ Insert(r) \/ Commit(r) \/ Refresh(r) \/ SoftDelete(r)
  \/ \E g \in Rags : Purge(g)

Spec == Init /\ [][Next]_vars

-----------------------------------------------------------------------------
(* Properties.                                                             *)

\* Between count_rags and the insert other requests may insert too.  The limit
\* can be passed, but by no more than the requests that race: each of them saw
\* room for its set (rags.py:153, 207).
LimitOvershootBounded ==
  \A o \in Owners : Cardinality(SetsOf(o)) <= MaxSets + Cardinality(Requests) - 1

\* The visible sets of an owner have different names, whatever creations and
\* renamings race: a name is checked where the row is written, and a PATCH that
\* repeats the name it loaded does not bring back one given away since
\* (rags.py:271, models.py:67).
NamesAreUnique ==
  \A g \in Rags : row[g] = "alive" => ~Taken(g, name[g])

\* Two edits of different fields both survive, in any order of their steps: a
\* field changes only under a PATCH that names it.
PatchMerges ==
  [][\A g \in Rags :
       /\ row[g] # "none" /\ name'[g] # name[g] =>
            \E r \in Requests : pc[r] = "commit" /\ target[r] = g /\ patch[r].name = name'[g]
       /\ row[g] # "none" /\ prompt'[g] # prompt[g] =>
            \E r \in Requests : pc[r] = "commit" /\ target[r] = g /\ patch[r].prompt = prompt'[g]]_vars

-----------------------------------------------------------------------------
(* The inductive invariant.                                                *)

\* A request under way has a set, and a creation has a complete body.
RequestsInv ==
  \A r \in Requests :
    /\ pc[r] # "idle" => target[r] \in Rags
    /\ pc[r] = "insert" => patch[r].name \in Names /\ patch[r].prompt # Absent

\* Whoever has passed the count and not yet inserted counts already.
Inserting(o) == {r \in Requests : pc[r] = "insert" /\ OwnerOf[target[r]] = o}

RoomInv ==
  \A o \in Owners :
    Cardinality(SetsOf(o)) + Cardinality(Inserting(o)) <= MaxSets + Cardinality(Requests) - 1

IInv == TypeOK /\ RequestsInv /\ RoomInv /\ NamesAreUnique
=============================================================================
