--------------------------- MODULE RagSetsProofs ----------------------------
(***************************************************************************)
(* The limit on an owner's sets and the uniqueness of their names, under   *)
(* any number of concurrent requests.                                      *)
(***************************************************************************)
EXTENDS RagSets, FiniteSetTheorems, TLAPS

-----------------------------------------------------------------------------
(* What a step does to the two counts of an owner.                         *)

\* The sets of an owner and the creations under way can be counted.
LEMMA CountsAreNumbers ==
  ASSUME NEW o \in Owners
  PROVE  /\ IsFiniteSet(SetsOf(o)) /\ Cardinality(SetsOf(o)) \in Nat
         /\ IsFiniteSet(Inserting(o)) /\ Cardinality(Inserting(o)) \in Nat
         /\ Cardinality(Inserting(o)) <= Cardinality(Requests)
         /\ Cardinality(Requests) \in Nat
<1> USE RagSetsAssumption
<1>1. SetsOf(o) \in SUBSET Rags /\ Inserting(o) \in SUBSET Requests
  BY DEF SetsOf, Inserting
<1> QED
  BY <1>1, FS_Subset, FS_CardinalityType

\* The same after a step.
LEMMA CountsAreNumbersNext ==
  ASSUME NEW o \in Owners
  PROVE  /\ IsFiniteSet(SetsOf(o)') /\ Cardinality(SetsOf(o)') \in Nat
         /\ IsFiniteSet(Inserting(o)') /\ Cardinality(Inserting(o)') \in Nat
         /\ Cardinality(Inserting(o)') <= Cardinality(Requests)
<1> USE RagSetsAssumption
<1>1. SetsOf(o)' \in SUBSET Rags /\ Inserting(o)' \in SUBSET Requests
  BY DEF SetsOf, Inserting
<1> QED
  BY <1>1, FS_Subset, FS_CardinalityType

\* Nobody makes a set visible, nobody passes the count: the room stays.
LEMMA RoomKept ==
  ASSUME RoomInv,
         \A o \in Owners : SetsOf(o)' \subseteq SetsOf(o) /\ Inserting(o)' \subseteq Inserting(o)
  PROVE  RoomInv'
<1> USE RagSetsAssumption
<1> SUFFICES ASSUME NEW o \in Owners
             PROVE  Cardinality(SetsOf(o)') + Cardinality(Inserting(o)')
                      <= MaxSets + Cardinality(Requests) - 1
  BY DEF RoomInv
<1>1. /\ Cardinality(SetsOf(o)') <= Cardinality(SetsOf(o))
      /\ Cardinality(Inserting(o)') <= Cardinality(Inserting(o))
  BY CountsAreNumbers, FS_Subset
<1>2. Cardinality(SetsOf(o)) + Cardinality(Inserting(o)) <= MaxSets + Cardinality(Requests) - 1
  BY DEF RoomInv
<1> QED
  BY <1>1, <1>2, CountsAreNumbers, CountsAreNumbersNext

-----------------------------------------------------------------------------
(* The steps.                                                              *)

\* Before the first request there is no set.
LEMMA InitHolds ==
  ASSUME Init
  PROVE  IInv
<1> USE RagSetsAssumption DEF Init
<1>1. TypeOK
  BY DEF TypeOK, NoBody, Bodies
<1>2. RequestsInv /\ NamesAreUnique
  BY DEF RequestsInv, NamesAreUnique
<1>3. RoomInv
  <2> SUFFICES ASSUME NEW o \in Owners
               PROVE  Cardinality(SetsOf(o)) + Cardinality(Inserting(o))
                        <= MaxSets + Cardinality(Requests) - 1
    BY DEF RoomInv
  <2>1. SetsOf(o) = {} /\ Inserting(o) = {}
    BY DEF SetsOf, Inserting
  <2>2. Cardinality(SetsOf(o)) = 0 /\ Cardinality(Inserting(o)) = 0
    BY <2>1, FS_EmptySet
  <2> QED
    BY <2>2, CountsAreNumbers
<1> QED
  BY <1>1, <1>2, <1>3 DEF IInv

\* A creation counts: there is room for its set, and for those of everybody
\* else who is about to insert.
LEMMA CheckLimitKeeps ==
  ASSUME IInv, NEW r \in Requests, NEW g \in Rags, NEW body \in Bodies, CheckLimit(r, g, body)
  PROVE  IInv'
<1> USE RagSetsAssumption DEF IInv, Begin, Respond
<1>1. TypeOK'
  <2>1. NoBody \in Bodies
    BY DEF NoBody, Bodies
  <2>2. CASE Begin(r, "insert", g, NoBody, body) /\ UNCHANGED <<row, name, prompt>>
    BY <2>1, <2>2 DEF TypeOK
  <2>3. CASE Respond(r, "limit") /\ UNCHANGED <<row, name, prompt>>
    BY <2>1, <2>3 DEF TypeOK
  <2> QED
    BY <2>2, <2>3 DEF CheckLimit
<1>2. RequestsInv'
  BY DEF RequestsInv, CheckLimit, TypeOK
<1>3. NamesAreUnique'
  BY DEF NamesAreUnique, CheckLimit, Taken, SetsOf
<1>4. RoomInv'
  <2>1. \A o \in Owners : SetsOf(o)' = SetsOf(o)
    BY DEF SetsOf, CheckLimit
  <2>2. CASE Cardinality(SetsOf(OwnerOf[g])) < MaxSets /\ Begin(r, "insert", g, NoBody, body)
    <3> SUFFICES ASSUME NEW o \in Owners
                 PROVE  Cardinality(SetsOf(o)') + Cardinality(Inserting(o)')
                          <= MaxSets + Cardinality(Requests) - 1
      BY DEF RoomInv
    <3>1. CASE o = OwnerOf[g]
      BY <2>1, <2>2, <3>1, CountsAreNumbers, CountsAreNumbersNext
    <3>2. CASE o # OwnerOf[g]
      <4>1. Inserting(o)' = Inserting(o)
        BY <2>2, <3>2 DEF Inserting, TypeOK
      <4> QED
        BY <2>1, <4>1 DEF RoomInv
    <3> QED
      BY <3>1, <3>2
  <2>3. CASE pc[r] = "idle" /\ Respond(r, "limit")
    <3>1. \A o \in Owners : Inserting(o)' \subseteq Inserting(o)
      BY <2>3 DEF Inserting, TypeOK
    <3> QED
      BY <2>1, <3>1, RoomKept
  <2> QED
    BY <2>2, <2>3 DEF CheckLimit
<1> QED
  BY <1>1, <1>2, <1>3, <1>4

\* The set that becomes visible was counted while its request was inserting.
LEMMA InsertKeeps ==
  ASSUME IInv, NEW r \in Requests, Insert(r)
  PROVE  IInv'
<1> USE RagSetsAssumption DEF IInv, Respond
<1> DEFINE g == target[r]
<1>0. /\ pc[r] = "insert" /\ g \in Rags
      /\ patch[r].name \in Names /\ patch[r].prompt \in Prompts \cup {Null}
  BY DEF Insert, RequestsInv, TypeOK, Bodies
<1>1. TypeOK'
  <2>1. NoBody \in Bodies
    BY DEF NoBody, Bodies
  <2>2. CASE /\ row' = [row EXCEPT ![g] = "alive"]
             /\ name' = [name EXCEPT ![g] = patch[r].name]
             /\ prompt' = [prompt EXCEPT ![g] = patch[r].prompt]
             /\ pc' = [pc EXCEPT ![r] = "refresh"]
             /\ UNCHANGED <<target, seen, patch, answer>>
    BY <1>0, <2>2 DEF TypeOK
  <2>3. CASE Respond(r, "taken") /\ UNCHANGED <<row, name, prompt>>
    BY <2>1, <2>3 DEF TypeOK
  <2> QED
    BY <2>2, <2>3 DEF Insert
<1>2. RequestsInv'
  BY <1>0 DEF RequestsInv, Insert, TypeOK
<1>3. CASE ~Taken(g, patch[r].name) /\ row' = [row EXCEPT ![g] = "alive"]
           /\ name' = [name EXCEPT ![g] = patch[r].name]
           /\ pc' = [pc EXCEPT ![r] = "refresh"] /\ UNCHANGED target
  <2>1. NamesAreUnique'
    <3> SUFFICES ASSUME NEW h \in Rags, row'[h] = "alive",
                        NEW k \in Rags \ {h}, OwnerOf[k] = OwnerOf[h],
                        row'[k] = "alive", name'[k] = name'[h]
                 PROVE  FALSE
      BY DEF NamesAreUnique, Taken, SetsOf
    <3>1. CASE h = g
      BY <1>0, <1>3, <3>1 DEF Taken, SetsOf, TypeOK
    <3>2. CASE k = g
      BY <1>0, <1>3, <3>2 DEF Taken, SetsOf, TypeOK
    <3>3. CASE h # g /\ k # g
      BY <1>0, <1>3, <3>3 DEF NamesAreUnique, Taken, SetsOf, TypeOK
    <3> QED
      BY <3>1, <3>2, <3>3
  <2>2. RoomInv'
    <3> SUFFICES ASSUME NEW o \in Owners
                 PROVE  Cardinality(SetsOf(o)') + Cardinality(Inserting(o)')
                          <= MaxSets + Cardinality(Requests) - 1
      BY DEF RoomInv
    <3>1. CASE o = OwnerOf[g]
      <4>1. SetsOf(o)' \in SUBSET (SetsOf(o) \cup {g})
        BY <1>3 DEF SetsOf, TypeOK
      <4>2. r \in Inserting(o) /\ Inserting(o)' = Inserting(o) \ {r}
        <5>1. r \in Inserting(o)
          BY <1>0, <3>1 DEF Inserting
        <5>2. pc' = [pc EXCEPT ![r] = "refresh"] /\ target' = target /\ DOMAIN pc = Requests
          BY <1>3 DEF TypeOK
        <5>3. Inserting(o)' = Inserting(o) \ {r}
          <6>1. pc'[r] # "insert" /\ \A q \in Requests \ {r} : pc'[q] = pc[q]
            BY <5>2
          <6> QED
            BY <5>2, <6>1 DEF Inserting
        <5> QED
          BY <5>1, <5>3
      <4>3. Cardinality(SetsOf(o)') <= Cardinality(SetsOf(o)) + 1
        <5>1. /\ IsFiniteSet(SetsOf(o) \cup {g})
              /\ Cardinality(SetsOf(o) \cup {g}) <= Cardinality(SetsOf(o)) + 1
          <6>1. IsFiniteSet(SetsOf(o)) /\ Cardinality(SetsOf(o)) \in Nat
            BY CountsAreNumbers
          <6>2. /\ IsFiniteSet(SetsOf(o) \cup {g})
                /\ \/ Cardinality(SetsOf(o) \cup {g}) = Cardinality(SetsOf(o))
                   \/ Cardinality(SetsOf(o) \cup {g}) = Cardinality(SetsOf(o)) + 1
            BY <6>1, FS_AddElement
          <6> QED
            BY <6>1, <6>2
        <5>2. Cardinality(SetsOf(o)') <= Cardinality(SetsOf(o) \cup {g})
          BY <4>1, <5>1, FS_Subset
        <5>3. Cardinality(SetsOf(o) \cup {g}) \in Nat
          BY <5>1, FS_CardinalityType
        <5> QED
          BY <5>1, <5>2, <5>3, CountsAreNumbers, CountsAreNumbersNext
      <4>4. Cardinality(Inserting(o)') = Cardinality(Inserting(o)) - 1
        BY <4>2, CountsAreNumbers, FS_RemoveElement
      <4>5. Cardinality(SetsOf(o)) + Cardinality(Inserting(o)) <= MaxSets + Cardinality(Requests) - 1
        BY DEF RoomInv
      <4> QED
        BY <4>3, <4>4, <4>5, CountsAreNumbers, CountsAreNumbersNext
    <3>2. CASE o # OwnerOf[g]
      <4>1. SetsOf(o)' = SetsOf(o) /\ Inserting(o)' = Inserting(o)
        BY <1>0, <1>3, <3>2 DEF SetsOf, Inserting, TypeOK
      <4> QED
        BY <4>1 DEF RoomInv
    <3> QED
      BY <3>1, <3>2
  <2> QED
    BY <1>1, <1>2, <2>1, <2>2
<1>4. CASE Respond(r, "taken") /\ UNCHANGED <<row, name, prompt>>
  <2>1. NamesAreUnique'
    BY <1>4 DEF NamesAreUnique, Taken, SetsOf
  <2>2. \A o \in Owners : SetsOf(o)' \subseteq SetsOf(o) /\ Inserting(o)' \subseteq Inserting(o)
    BY <1>4 DEF SetsOf, Inserting, TypeOK
  <2> QED
    BY <1>1, <1>2, <2>1, <2>2, RoomKept
<1> QED
  BY <1>3, <1>4 DEF Insert

\* Steps that leave the table as it is and start no insertion.
LEMMA RequestKeeps ==
  ASSUME IInv, NEW r \in Requests, UNCHANGED <<row, name>>, TypeOK', RequestsInv',
         \A q \in Requests : pc'[q] = "insert" => pc[q] = "insert" /\ target'[q] = target[q]
  PROVE  IInv'
<1>1. NamesAreUnique'
  BY DEF IInv, NamesAreUnique, Taken, SetsOf
<1>2. \A o \in Owners : SetsOf(o)' \subseteq SetsOf(o) /\ Inserting(o)' \subseteq Inserting(o)
  BY DEF SetsOf, Inserting
<1> QED
  BY <1>1, <1>2, RoomKept DEF IInv

\* Loading a set for a PATCH changes no row.
LEMMA LoadSetKeeps ==
  ASSUME IInv, NEW r \in Requests, NEW g \in Rags, NEW body \in Bodies, LoadSet(r, g, body)
  PROVE  IInv'
<1> USE DEF IInv, LoadSet, Begin
<1>1. TypeOK'
  BY DEF TypeOK, Bodies
<1>2. RequestsInv'
  BY DEF RequestsInv, TypeOK
<1>3. \A q \in Requests : pc'[q] = "insert" => pc[q] = "insert" /\ target'[q] = target[q]
  BY DEF TypeOK
<1> QED
  BY <1>1, <1>2, <1>3, RequestKeeps

\* Loading a set for a DELETE changes no row.
LEMMA StartDeleteKeeps ==
  ASSUME IInv, NEW r \in Requests, NEW g \in Rags, StartDelete(r, g)
  PROVE  IInv'
<1> USE DEF IInv, StartDelete, Begin
<1>1. TypeOK'
  BY DEF TypeOK, Bodies, NoBody
<1>2. RequestsInv'
  BY DEF RequestsInv, TypeOK
<1>3. \A q \in Requests : pc'[q] = "insert" => pc[q] = "insert" /\ target'[q] = target[q]
  BY DEF TypeOK
<1> QED
  BY <1>1, <1>2, <1>3, RequestKeeps

\* The answer to a PATCH changes no row.
LEMMA RefreshKeeps ==
  ASSUME IInv, NEW r \in Requests, Refresh(r)
  PROVE  IInv'
<1> USE DEF IInv, Refresh, Respond
<1>1. TypeOK'
  BY DEF TypeOK, Bodies, NoBody
<1>2. RequestsInv'
  BY DEF RequestsInv, TypeOK
<1>3. \A q \in Requests : pc'[q] = "insert" => pc[q] = "insert" /\ target'[q] = target[q]
  BY DEF TypeOK
<1> QED
  BY <1>1, <1>2, <1>3, RequestKeeps

\* The new name of a visible set is the one it had, or one that is free.
LEMMA CommitKeeps ==
  ASSUME IInv, NEW r \in Requests, Commit(r)
  PROVE  IInv'
<1> USE RagSetsAssumption DEF IInv
<1> DEFINE g == target[r]
<1>0. /\ pc[r] = "commit" /\ g \in Rags /\ UNCHANGED row
      /\ patch[r].name \in Names \cup {Null, Absent}
      /\ patch[r].prompt \in Prompts \cup {Null, Absent}
  BY DEF Commit, RequestsInv, TypeOK, Bodies
<1>1. CASE UNCHANGED <<name, prompt>> /\ \E code \in {"error", "taken"} : Respond(r, code)
  <2>1. TypeOK'
    BY <1>0, <1>1 DEF TypeOK, Respond, Bodies, NoBody
  <2>2. RequestsInv'
    BY <1>0, <1>1 DEF RequestsInv, Respond, TypeOK
  <2>3. \A q \in Requests : pc'[q] = "insert" => pc[q] = "insert" /\ target'[q] = target[q]
    BY <1>0, <1>1 DEF Respond, TypeOK
  <2> QED
    BY <1>0, <1>1, <2>1, <2>2, <2>3, RequestKeeps
<1>2. CASE /\ name' = [name EXCEPT ![g] = Newer(patch[r].name, seen[r].name, @)]
           /\ prompt' = [prompt EXCEPT ![g] = Newer(patch[r].prompt, seen[r].prompt, @)]
           /\ pc' = [pc EXCEPT ![r] = "refresh"]
           /\ UNCHANGED <<target, seen, patch, answer>>
           /\ patch[r].name \notin {Absent, seen[r].name} /\ row[g] = "alive"
                => ~Taken(g, patch[r].name)
  <2>1. /\ Newer(patch[r].name, seen[r].name, name[g]) \in Names \cup {Null}
        /\ Newer(patch[r].prompt, seen[r].prompt, prompt[g]) \in Prompts \cup {Null}
    BY <1>0 DEF Newer, TypeOK
  <2>2. TypeOK'
    BY <1>0, <1>2, <2>1 DEF TypeOK
  <2>3. RequestsInv'
    BY <1>0, <1>2 DEF RequestsInv, TypeOK
  <2>4. row[g] = "alive" => name'[g] = name[g] \/ ~Taken(g, name'[g])
    BY <1>0, <1>2 DEF Newer, TypeOK
  <2>5. \A h \in Rags \ {g} : name'[h] = name[h]
    BY <1>2 DEF TypeOK
  <2>6. NamesAreUnique'
    <3> SUFFICES ASSUME NEW h \in Rags, row[h] = "alive",
                        NEW k \in Rags \ {h}, OwnerOf[k] = OwnerOf[h],
                        row[k] = "alive", name'[k] = name'[h]
                 PROVE  FALSE
      BY <1>0 DEF NamesAreUnique, Taken, SetsOf
    <3>1. name[k] # name[h]
      BY DEF NamesAreUnique, Taken, SetsOf
    <3>2. CASE h = g
      BY <2>4, <2>5, <3>1, <3>2 DEF Taken, SetsOf
    <3>3. CASE k = g
      BY <2>4, <2>5, <3>1, <3>3 DEF Taken, SetsOf
    <3>4. CASE h # g /\ k # g
      BY <2>5, <3>1, <3>4
    <3> QED
      BY <3>2, <3>3, <3>4
  <2>7. \A o \in Owners : SetsOf(o)' \subseteq SetsOf(o) /\ Inserting(o)' \subseteq Inserting(o)
    BY <1>0, <1>2 DEF SetsOf, Inserting, TypeOK
  <2> QED
    BY <2>2, <2>3, <2>6, <2>7, RoomKept
<1> QED
  BY <1>0, <1>1, <1>2 DEF Commit

\* A deletion only hides.
LEMMA SoftDeleteKeeps ==
  ASSUME IInv, NEW r \in Requests, SoftDelete(r)
  PROVE  IInv'
<1> USE DEF IInv, SoftDelete, Respond
<1>0. pc[r] = "delete" /\ target[r] \in Rags
  BY DEF RequestsInv
<1>1. TypeOK'
  BY <1>0 DEF TypeOK, NoBody, Bodies
<1>2. RequestsInv'
  BY <1>0 DEF RequestsInv, TypeOK
<1>3. \A h \in Rags : row'[h] = "alive" => row[h] = "alive"
  BY <1>0 DEF TypeOK
<1>4. NamesAreUnique'
  BY <1>3 DEF NamesAreUnique, Taken, SetsOf
<1>5. \A o \in Owners : SetsOf(o)' \subseteq SetsOf(o) /\ Inserting(o)' \subseteq Inserting(o)
  BY <1>0, <1>3 DEF SetsOf, Inserting, TypeOK
<1> QED
  BY <1>1, <1>2, <1>4, <1>5, RoomKept

\* A purge only takes a set away.
LEMMA PurgeKeeps ==
  ASSUME IInv, NEW g \in Rags, Purge(g)
  PROVE  IInv'
<1> USE DEF IInv, Purge
<1>1. TypeOK'
  BY DEF TypeOK
<1>2. RequestsInv'
  BY DEF RequestsInv
<1>3. \A h \in Rags : row'[h] = "alive" => row[h] = "alive"
  BY DEF TypeOK
<1>4. NamesAreUnique'
  BY <1>3 DEF NamesAreUnique, Taken, SetsOf
<1>5. \A o \in Owners : SetsOf(o)' \subseteq SetsOf(o) /\ Inserting(o)' \subseteq Inserting(o)
  BY <1>3 DEF SetsOf, Inserting
<1> QED
  BY <1>1, <1>2, <1>4, <1>5, RoomKept

\* Every step keeps the invariant.
LEMMA StepKeeps ==
  ASSUME IInv, [Next]_vars
  PROVE  IInv'
<1>1. CASE Next
  BY <1>1, CheckLimitKeeps, LoadSetKeeps, StartDeleteKeeps, InsertKeeps, CommitKeeps,
     RefreshKeeps, SoftDeleteKeeps, PurgeKeeps DEF Next
<1>2. CASE UNCHANGED vars
  BY <1>2 DEF IInv, vars, TypeOK, RequestsInv, RoomInv, NamesAreUnique, Taken, SetsOf, Inserting
<1> QED
  BY <1>1, <1>2

\* The inductive invariant of the limit and of the names.
THEOREM InvariantHolds == Spec => []IInv
<1>1. Init => IInv
  BY InitHolds
<1>2. IInv /\ [Next]_vars => IInv'
  BY StepKeeps
<1> QED
  BY <1>1, <1>2, PTL DEF Spec

-----------------------------------------------------------------------------
(* The results.                                                            *)

\* Rows, requests and bodies keep their types: no field is stored that a
\* request left out.
THEOREM RagSetsTypeCorrect == Spec => []TypeOK
<1>1. IInv => TypeOK
  BY DEF IInv
<1> QED
  BY <1>1, InvariantHolds, PTL

\* The limit on an owner's sets is passed by fewer sets than there are requests
\* in flight, for any limit and any number of requests (rags.py:153, 207).
THEOREM OvershootIsBounded == Spec => []LimitOvershootBounded
<1>1. IInv => LimitOvershootBounded
  <2> SUFFICES ASSUME IInv, NEW o \in Owners
               PROVE  Cardinality(SetsOf(o)) <= MaxSets + Cardinality(Requests) - 1
    BY DEF LimitOvershootBounded
  <2>1. Cardinality(SetsOf(o)) + Cardinality(Inserting(o)) <= MaxSets + Cardinality(Requests) - 1
    BY DEF IInv, RoomInv
  <2> QED
    BY <2>1, CountsAreNumbers, RagSetsAssumption
<1> QED
  BY <1>1, InvariantHolds, PTL

\* No two visible sets of an owner share a name, however creations, renamings
\* and deletions interleave (models.py:67).
THEOREM NamesStayUnique == Spec => []NamesAreUnique
<1>1. IInv => NamesAreUnique
  BY DEF IInv
<1> QED
  BY <1>1, InvariantHolds, PTL

-----------------------------------------------------------------------------
(* A PATCH and the fields it leaves alone.                                 *)

\* The set of a creation has no row yet, and nobody else has a hand on it.
FreshInv ==
  \A r \in Requests : pc[r] = "insert" =>
    /\ row[target[r]] = "none"
    /\ \A q \in Requests \ {r} : pc[q] # "idle" => target[q] # target[r]

\* Every step leaves the set of a creation to that creation.
LEMMA FreshStep ==
  ASSUME IInv, FreshInv, [Next]_vars
  PROVE  FreshInv'
<1> USE DEF IInv, FreshInv
<1>1. ASSUME NEW r \in Requests, NEW g \in Rags, NEW body \in Bodies, CheckLimit(r, g, body)
      PROVE  FreshInv'
  BY <1>1 DEF CheckLimit, Begin, Respond, TypeOK, RequestsInv
<1>2. ASSUME NEW r \in Requests, NEW g \in Rags, NEW body \in Bodies, LoadSet(r, g, body)
      PROVE  FreshInv'
  BY <1>2 DEF LoadSet, Begin, TypeOK, RequestsInv
<1>3. ASSUME NEW r \in Requests, NEW g \in Rags, StartDelete(r, g)
      PROVE  FreshInv'
  BY <1>3 DEF StartDelete, Begin, TypeOK, RequestsInv
<1>4. ASSUME NEW r \in Requests, Insert(r)
      PROVE  FreshInv'
  BY <1>4 DEF Insert, Respond, TypeOK, RequestsInv
<1>5. ASSUME NEW r \in Requests, Commit(r)
      PROVE  FreshInv'
  <2>1. /\ pc[r] = "commit" /\ UNCHANGED row
        /\ \A q \in Requests : pc'[q] # "idle" => pc[q] # "idle" /\ target'[q] = target[q]
        /\ \A q \in Requests : pc'[q] = "insert" => pc[q] = "insert"
    BY <1>5 DEF Commit, Respond, TypeOK
  <2> QED
    BY <2>1 DEF TypeOK, RequestsInv
<1>6. ASSUME NEW r \in Requests, Refresh(r) \/ SoftDelete(r)
      PROVE  FreshInv'
  BY <1>6 DEF Refresh, SoftDelete, Respond, TypeOK, RequestsInv
<1>7. ASSUME NEW g \in Rags, Purge(g)
      PROVE  FreshInv'
  BY <1>7 DEF Purge, TypeOK, RequestsInv
<1>8. CASE UNCHANGED vars
  BY <1>8 DEF vars
<1> QED
  BY <1>1, <1>2, <1>3, <1>4, <1>5, <1>6, <1>7, <1>8 DEF Next

\* A commit writes to its own set, and there what its body says.
LEMMA CommitWritesItsBody ==
  ASSUME IInv, NEW r \in Requests, Commit(r), NEW g \in Rags
  PROVE  /\ name'[g] # name[g] => target[r] = g /\ patch[r].name = name'[g]
         /\ prompt'[g] # prompt[g] => target[r] = g /\ patch[r].prompt = prompt'[g]
<1>1. target[r] \in Rags
  BY DEF IInv, RequestsInv, Commit
<1>2. CASE UNCHANGED <<name, prompt>>
  BY <1>2
<1>3. CASE /\ name' = [name EXCEPT ![target[r]] = Newer(patch[r].name, seen[r].name, @)]
           /\ prompt' = [prompt EXCEPT ![target[r]] = Newer(patch[r].prompt, seen[r].prompt, @)]
  <2>1. CASE g = target[r]
    BY <1>1, <1>3, <2>1 DEF Newer, IInv, TypeOK
  <2>2. CASE g # target[r]
    BY <1>1, <1>3, <2>2 DEF IInv, TypeOK
  <2> QED
    BY <2>1, <2>2
<1> QED
  BY <1>2, <1>3 DEF Commit

\* Two edits of different fields both survive, however their steps interleave
\* with each other and with creations: a field changes only under a PATCH that
\* names it (rags.py:271).  A creation writes both fields, but of a set that
\* had no row: FreshInv.
THEOREM EditsMerge == Spec => PatchMerges
<1>1. Init => FreshInv
  BY DEF Init, FreshInv
<1>2. IInv /\ FreshInv /\ [Next]_vars =>
        [\A g \in Rags :
           /\ row[g] # "none" /\ name'[g] # name[g] =>
                \E r \in Requests : pc[r] = "commit" /\ target[r] = g /\ patch[r].name = name'[g]
           /\ row[g] # "none" /\ prompt'[g] # prompt[g] =>
                \E r \in Requests : pc[r] = "commit" /\ target[r] = g /\ patch[r].prompt = prompt'[g]]_vars
  <2> SUFFICES ASSUME IInv, FreshInv, Next, NEW g \in Rags, row[g] # "none"
               PROVE  /\ name'[g] # name[g] =>
                           \E r \in Requests :
                             pc[r] = "commit" /\ target[r] = g /\ patch[r].name = name'[g]
                      /\ prompt'[g] # prompt[g] =>
                           \E r \in Requests :
                             pc[r] = "commit" /\ target[r] = g /\ patch[r].prompt = prompt'[g]
    BY DEF vars
  <2>1. CASE UNCHANGED <<name, prompt>>
    BY <2>1
  <2>2. ASSUME NEW r \in Requests, Insert(r)
        PROVE  name'[g] = name[g] /\ prompt'[g] = prompt[g]
    BY <2>2 DEF Insert, IInv, TypeOK, FreshInv
  <2>3. ASSUME NEW r \in Requests, Commit(r)
        PROVE  /\ pc[r] = "commit"
               /\ name'[g] # name[g] => target[r] = g /\ patch[r].name = name'[g]
               /\ prompt'[g] # prompt[g] => target[r] = g /\ patch[r].prompt = prompt'[g]
    BY <2>3, CommitWritesItsBody DEF Commit
  <2>4. \/ UNCHANGED <<name, prompt>>
        \/ \E r \in Requests : Insert(r) \/ Commit(r)
    BY DEF Next, CheckLimit, LoadSet, StartDelete, Refresh, SoftDelete, Purge
  <2> QED
    BY <2>1, <2>2, <2>3, <2>4
<1> QED
  BY <1>1, <1>2, FreshStep, InvariantHolds, PTL DEF Spec, PatchMerges
=============================================================================
