--------------------------- MODULE PipelineProofs ---------------------------
(***************************************************************************)
(* The inductive invariant of the pipeline, one component at a time: the   *)
(* semaphores, the client of docling-serve, the start of the process, the  *)
(* jobs that join them.                                                    *)
(***************************************************************************)
EXTENDS Pipeline, FiniteSetTheorems, TLAPS

-----------------------------------------------------------------------------
(* The semaphores of /embed.                                               *)

\* The pools start with every slot free.
LEMMA PoolStarts ==
  ASSUME PoolInit
  PROVE  PoolInv
<1> USE EmbedPoolAssumption DEF PoolInit
<1>1. PoolTypeOK
  BY DEF PoolTypeOK, CallStates, Pools
<1>2. \A p \in Pools : Running(p) = {}
  BY DEF Running
<1>3. SlotsAccounted
  <2>1. ASSUME NEW p \in Pools
        PROVE  free[p] + Cardinality(Running(p)) = Slots[p]
    <3>1. Cardinality(Running(p)) = 0
      BY <1>2, FS_EmptySet
    <3>2. free[p] = Slots[p] /\ Slots[p] \in Nat
      OBVIOUS
    <3> QED
      BY <3>1, <3>2
  <2> QED
    BY <2>1 DEF SlotsAccounted
<1>4. \A p \in Pools : LineIsSound(p)
  BY DEF LineIsSound, Pools
<1> QED
  BY <1>1, <1>3, <1>4 DEF PoolInv

\* A line stays sound while its calls go on waiting, nobody else starts to, and
\* no slot is freed.
LEMMA LineKept ==
  ASSUME NEW q \in Pools, LineIsSound(q), line[q] \in Seq(Calls), line'[q] = line[q],
         \A i \in 1..Len(line[q]) : call'[line[q][i]] = "waiting",
         \A d \in Calls : PoolOf[d] = q /\ call'[d] = "waiting" => call[d] = "waiting",
         line[q] # <<>> => free'[q] = 0
  PROVE  LineIsSound(q)'
<1>1. \A i \in 1..Len(line'[q]) : call'[line'[q][i]] = "waiting" /\ PoolOf[line'[q][i]] = q
  BY DEF LineIsSound
<1>2. \A i, k \in 1..Len(line'[q]) : line'[q][i] = line'[q][k] => i = k
  BY DEF LineIsSound
<1>3. \A d \in Calls : PoolOf[d] = q /\ call'[d] = "waiting" =>
                         \E i \in 1..Len(line'[q]) : line'[q][i] = d
  BY DEF LineIsSound
<1> QED
  BY <1>1, <1>2, <1>3 DEF LineIsSound

\* A call enters: it takes a slot, or the last place of its line.
LEMMA ArriveKeepsPool ==
  ASSUME PoolInv, NEW c \in Calls, Arrive(c)
  PROVE  PoolInv'
<1> USE EmbedPoolAssumption
<1> DEFINE p == PoolOf[c]
<1>0. p \in Pools /\ call[c] = "unsent" /\ PoolTypeOK
  BY DEF Arrive, PoolInv
<1>1. CASE free[p] > 0
  <2>1. /\ call' = [call EXCEPT ![c] = "running"]
        /\ free' = [free EXCEPT ![p] = @ - 1]
        /\ line' = line
        /\ line[p] = <<>>
    BY <1>0, <1>1 DEF Arrive, PoolInv, PoolTypeOK, LineIsSound
  <2>2. PoolTypeOK'
    BY <1>0, <1>1, <2>1 DEF PoolTypeOK, CallStates
  <2>3. ASSUME NEW q \in Pools
        PROVE  LineIsSound(q)'
    <3>1. \A i \in 1..Len(line[q]) : line[q][i] \in Calls /\ line[q][i] # c
      BY <1>0 DEF PoolInv, LineIsSound, PoolTypeOK
    <3>2. \A d \in Calls : d # c => call'[d] = call[d]
      BY <1>0, <2>1 DEF PoolTypeOK
    <3>3. call'[c] = "running"
      BY <1>0, <2>1 DEF PoolTypeOK
    <3>4. line[q] # <<>> => free'[q] = 0
      BY <1>0, <2>1, q # p \/ q = p DEF PoolTypeOK, PoolInv, LineIsSound
    <3>5. line[q] \in Seq(Calls) /\ LineIsSound(q)
      BY <1>0 DEF PoolTypeOK, PoolInv
    <3>6. \A i \in 1..Len(line[q]) : call'[line[q][i]] = "waiting"
      BY <3>1, <3>2, <3>5 DEF LineIsSound
    <3>7. \A d \in Calls : PoolOf[d] = q /\ call'[d] = "waiting" => call[d] = "waiting"
      BY <3>2, <3>3
    <3> QED
      BY <2>1, <3>4, <3>5, <3>6, <3>7, LineKept
  <2>4. ASSUME NEW q \in Pools
        PROVE  free'[q] + Cardinality(Running(q)') = Slots[q]
    <3>1. IsFiniteSet(Running(q)) /\ c \notin Running(q)
      BY <1>0, FS_Subset DEF Running
    <3>2. Running(q)' = IF q = p THEN Running(q) \cup {c} ELSE Running(q)
      BY <1>0, <2>1 DEF Running, PoolTypeOK
    <3>3. Cardinality(Running(q) \cup {c}) = Cardinality(Running(q)) + 1
      BY <3>1, FS_AddElement
    <3>4. free'[q] = IF q = p THEN free[q] - 1 ELSE free[q]
      BY <1>0, <2>1 DEF PoolTypeOK
    <3>5. free[q] \in Nat /\ Cardinality(Running(q)) \in Nat
      BY <1>0, <3>1, FS_CardinalityType DEF PoolTypeOK
    <3>6. free[q] + Cardinality(Running(q)) = Slots[q]
      BY DEF PoolInv, SlotsAccounted
    <3> QED
      BY <3>2, <3>3, <3>4, <3>5, <3>6
  <2> QED
    BY <2>2, <2>3, <2>4 DEF PoolInv, SlotsAccounted
<1>2. CASE free[p] = 0
  <2>1. /\ call' = [call EXCEPT ![c] = "waiting"]
        /\ line' = [line EXCEPT ![p] = Append(@, c)]
        /\ free' = free
    BY <1>0, <1>2 DEF Arrive
  <2>2. PoolTypeOK'
    BY <1>0, <2>1 DEF PoolTypeOK, CallStates
  <2>3. ASSUME NEW q \in Pools
        PROVE  LineIsSound(q)'
    <3>1. line[q] \in Seq(Calls) /\ \A i \in 1..Len(line[q]) : line[q][i] \in Calls \ {c}
      BY <1>0 DEF PoolInv, LineIsSound, PoolTypeOK
    <3>2. /\ \A d \in Calls : d # c => call'[d] = call[d]
          /\ call'[c] = "waiting"
      BY <1>0, <2>1 DEF PoolTypeOK
    <3>3. CASE q # p
      <4>1. line'[q] = line[q]
        BY <1>0, <2>1, <3>3 DEF PoolTypeOK
      <4>2. LineIsSound(q)
        BY DEF PoolInv
      <4>3. \A i \in 1..Len(line[q]) : call'[line[q][i]] = "waiting"
        BY <3>1, <3>2, <4>2 DEF LineIsSound
      <4>4. \A d \in Calls : PoolOf[d] = q /\ call'[d] = "waiting" => call[d] = "waiting"
        BY <3>2, <3>3
      <4> QED
        BY <2>1, <3>1, <4>1, <4>2, <4>3, <4>4, LineKept DEF LineIsSound
    <3>4. CASE q = p
      <4>1. /\ line'[q] = Append(line[q], c)
            /\ Len(line'[q]) = Len(line[q]) + 1
            /\ line'[q][Len(line[q]) + 1] = c
            /\ \A i \in 1..Len(line[q]) : line'[q][i] = line[q][i]
            /\ Len(line[q]) \in Nat
        BY <1>0, <2>1, <3>1, <3>4 DEF PoolTypeOK
      <4>2. \A i \in 1..Len(line'[q]) : i \in 1..Len(line[q]) \/ i = Len(line[q]) + 1
        BY <4>1
      <4>3. 1..Len(line[q]) \subseteq 1..Len(line'[q]) /\ Len(line[q]) + 1 \in 1..Len(line'[q])
        BY <4>1
      <4>4. \A i \in 1..Len(line'[q]) : call'[line'[q][i]] = "waiting" /\ PoolOf[line'[q][i]] = q
        BY <3>1, <3>2, <3>4, <4>1, <4>2 DEF PoolInv, LineIsSound
      <4>5. \A i, k \in 1..Len(line'[q]) : line'[q][i] = line'[q][k] => i = k
        <5>1. \A i, k \in 1..Len(line[q]) : line[q][i] = line[q][k] => i = k
          BY DEF PoolInv, LineIsSound
        <5>2. ASSUME NEW i \in 1..Len(line'[q]), NEW k \in 1..Len(line'[q]),
                     line'[q][i] = line'[q][k]
              PROVE  i = k
          <6>1. CASE i \in 1..Len(line[q]) /\ k \in 1..Len(line[q])
            BY <4>1, <5>1, <5>2, <6>1
          <6>2. CASE i = Len(line[q]) + 1 /\ k \in 1..Len(line[q])
            BY <3>1, <4>1, <5>2, <6>2
          <6>3. CASE i \in 1..Len(line[q]) /\ k = Len(line[q]) + 1
            BY <3>1, <4>1, <5>2, <6>3
          <6> QED
            BY <4>2, <6>1, <6>2, <6>3
        <5> QED
          BY <5>2
      <4>6. \A d \in Calls : PoolOf[d] = q /\ call'[d] = "waiting" =>
                               \E i \in 1..Len(line'[q]) : line'[q][i] = d
        BY <3>2, <4>1, <4>3 DEF PoolInv, LineIsSound
      <4> QED
        BY <1>2, <2>1, <3>4, <4>4, <4>5, <4>6 DEF LineIsSound
    <3> QED
      BY <3>3, <3>4
  <2>4. \A q \in Pools : Running(q)' = Running(q)
    BY <1>0, <2>1 DEF Running, PoolTypeOK
  <2>5. SlotsAccounted'
    BY <2>1, <2>4 DEF PoolInv, SlotsAccounted
  <2> QED
    BY <2>2, <2>3, <2>5 DEF PoolInv
<1> QED
  BY <1>0, <1>1, <1>2 DEF PoolTypeOK

\* A call ends: its slot goes back, or to the first of the line.
LEMMA FinishKeepsPool ==
  ASSUME PoolInv, NEW c \in Calls, Finish(c)
  PROVE  PoolInv'
<1> USE EmbedPoolAssumption
<1> DEFINE p == PoolOf[c]
<1>0. p \in Pools /\ call[c] = "running" /\ PoolTypeOK /\ line[p] \in Seq(Calls)
  BY DEF Finish, PoolInv, PoolTypeOK
<1>1. PICK result \in {"answered", "failed"} :
        \/ /\ line[p] = <<>>
           /\ call' = [call EXCEPT ![c] = result]
           /\ free' = [free EXCEPT ![p] = @ + 1]
           /\ line' = line
        \/ /\ line[p] # <<>>
           /\ call' = [call EXCEPT ![c] = result, ![Head(line[p])] = "running"]
           /\ line' = [line EXCEPT ![p] = Tail(@)]
           /\ free' = free
  BY DEF Finish
<1>2. CASE line[p] = <<>>
  <2>1. PoolTypeOK'
    <3>1. call' \in [Calls -> CallStates]
      BY <1>0, <1>1, <1>2 DEF PoolTypeOK, CallStates
    <3>0. free' = [free EXCEPT ![p] = @ + 1] /\ line' = line
      BY <1>1, <1>2
    <3>2. free' \in [Pools -> Nat]
      BY <1>0, <3>0 DEF PoolTypeOK
    <3> QED
      BY <1>0, <3>0, <3>1, <3>2 DEF PoolTypeOK
  <2>2. /\ \A d \in Calls : d # c => call'[d] = call[d]
        /\ call'[c] \in {"answered", "failed"}
    BY <1>0, <1>1, <1>2 DEF PoolTypeOK
  <2>3. ASSUME NEW q \in Pools
        PROVE  LineIsSound(q)'
    <3>1. line[q] \in Seq(Calls) /\ LineIsSound(q) /\ line'[q] = line[q]
      BY <1>0, <1>1, <1>2 DEF PoolTypeOK, PoolInv
    <3>2. \A i \in 1..Len(line[q]) : line[q][i] \in Calls \ {c} /\ call[line[q][i]] = "waiting"
      BY <1>0, <3>1 DEF LineIsSound
    <3>3. line[q] # <<>> => free'[q] = 0
      BY <1>0, <1>1, <1>2, <3>1 DEF PoolTypeOK, LineIsSound
    <3> QED
      BY <2>2, <3>1, <3>2, <3>3, LineKept
  <2>4. ASSUME NEW q \in Pools
        PROVE  free'[q] + Cardinality(Running(q)') = Slots[q]
    <3>1. IsFiniteSet(Running(q)) /\ (q = p => c \in Running(q))
      BY <1>0, FS_Subset DEF Running
    <3>2. Running(q)' = IF q = p THEN Running(q) \ {c} ELSE Running(q)
      BY <1>0, <1>1, <1>2 DEF Running, PoolTypeOK
    <3>3. q = p => Cardinality(Running(q) \ {c}) = Cardinality(Running(q)) - 1
      BY <3>1, FS_RemoveElement
    <3>4. free'[q] = IF q = p THEN free[q] + 1 ELSE free[q]
      BY <1>0, <1>1, <1>2 DEF PoolTypeOK
    <3>5. free[q] \in Nat /\ Cardinality(Running(q)) \in Nat
      BY <1>0, <3>1, FS_CardinalityType DEF PoolTypeOK
    <3>6. free[q] + Cardinality(Running(q)) = Slots[q]
      BY DEF PoolInv, SlotsAccounted
    <3> QED
      BY <3>2, <3>3, <3>4, <3>5, <3>6
  <2> QED
    BY <2>1, <2>3, <2>4 DEF PoolInv, SlotsAccounted
<1>3. CASE line[p] # <<>>
  <2> DEFINE h == Head(line[p])
  <2>1. /\ h = line[p][1] /\ 1 \in 1..Len(line[p]) /\ h \in Calls
        /\ call[h] = "waiting" /\ PoolOf[h] = p /\ h # c
    BY <1>0, <1>3 DEF PoolInv, LineIsSound
  <2>2. /\ call'[h] = "running" /\ call'[c] \in {"answered", "failed"}
        /\ \A d \in Calls : d \notin {c, h} => call'[d] = call[d]
        /\ free' = free
        /\ line' = [line EXCEPT ![p] = Tail(@)]
    BY <1>0, <1>1, <1>3, <2>1 DEF PoolTypeOK
  <2>3. PoolTypeOK'
    <3>1. call' \in [Calls -> CallStates]
      BY <1>0, <1>1, <1>3, <2>1 DEF PoolTypeOK, CallStates
    <3>2. Tail(line[p]) \in Seq(Calls)
      BY <1>0, <1>3
    <3>3. line' \in [Pools -> Seq(Calls)]
      BY <1>0, <2>2, <3>2 DEF PoolTypeOK
    <3> QED
      BY <1>0, <2>2, <3>1, <3>3 DEF PoolTypeOK
  <2>4. ASSUME NEW q \in Pools
        PROVE  LineIsSound(q)'
    <3>1. line[q] \in Seq(Calls) /\ LineIsSound(q)
      BY <1>0 DEF PoolTypeOK, PoolInv
    <3>2. CASE q # p
      <4>1. line'[q] = line[q]
        BY <1>0, <2>2, <3>2 DEF PoolTypeOK
      <4>2. \A i \in 1..Len(line[q]) : line[q][i] \in Calls \ {c, h} /\ call[line[q][i]] = "waiting"
        BY <1>0, <2>1, <3>1, <3>2 DEF LineIsSound
      <4>3. line[q] # <<>> => free'[q] = 0
        BY <2>2, <3>1 DEF LineIsSound
      <4>4. \A i \in 1..Len(line[q]) : call'[line[q][i]] = "waiting"
        BY <2>2, <4>2
      <4>5. \A d \in Calls : PoolOf[d] = q /\ call'[d] = "waiting" => call[d] = "waiting"
        BY <2>2
      <4> QED
        BY <3>1, <4>1, <4>3, <4>4, <4>5, LineKept
    <3>3. CASE q = p
      <4> DEFINE n == Len(line[q])
      <4>1. /\ n \in Nat \ {0}
            /\ Len(line'[q]) = n - 1
            /\ \A i \in 1..(n - 1) : line'[q][i] = line[q][i + 1] /\ i + 1 \in 1..n
        BY <1>0, <1>3, <2>2, <3>1, <3>3 DEF PoolTypeOK
      <4>2. \A i \in 1..n : line[q][i] \in Calls /\ line[q][i] # c /\ (line[q][i] = h => i = 1)
        BY <1>0, <2>1, <3>1, <3>3 DEF LineIsSound
      <4>3. ASSUME NEW i \in 1..(n - 1)
            PROVE  call'[line'[q][i]] = "waiting" /\ PoolOf[line'[q][i]] = q
        <5>1. i + 1 \in 1..n /\ i + 1 # 1 /\ line'[q][i] = line[q][i + 1]
          BY <4>1
        <5>2. line[q][i + 1] \in Calls \ {c, h}
          BY <4>2, <5>1
        <5> QED
          BY <2>2, <3>1, <5>1, <5>2 DEF LineIsSound
      <4>4. \A i, k \in 1..(n - 1) : line'[q][i] = line'[q][k] => i = k
        <5>1. \A i, k \in 1..n : line[q][i] = line[q][k] => i = k
          BY <3>1 DEF LineIsSound
        <5>2. ASSUME NEW i \in 1..(n - 1), NEW k \in 1..(n - 1), line'[q][i] = line'[q][k]
              PROVE  i = k
          <6>1. i + 1 = k + 1
            BY <4>1, <5>1, <5>2
          <6> QED
            BY <6>1
        <5> QED
          BY <5>2
      <4>5. ASSUME NEW d \in Calls, PoolOf[d] = q, call'[d] = "waiting"
            PROVE  \E i \in 1..(n - 1) : line'[q][i] = d
        <5>1. d \notin {c, h} /\ call[d] = "waiting"
          BY <2>2, <4>5
        <5>2. PICK i \in 1..n : line[q][i] = d
          BY <3>1, <4>5, <5>1 DEF LineIsSound
        <5>3. i # 1
          BY <2>1, <3>3, <5>1, <5>2
        <5>4. i - 1 \in 1..(n - 1) /\ (i - 1) + 1 = i
          BY <4>1, <5>3
        <5> QED
          BY <4>1, <5>2, <5>4
      <4>6. line'[q] # <<>> => free'[q] = 0
        BY <1>3, <2>2, <3>1, <3>3 DEF LineIsSound
      <4> QED
        BY <4>1, <4>3, <4>4, <4>5, <4>6 DEF LineIsSound
    <3> QED
      BY <3>2, <3>3
  <2>5. ASSUME NEW q \in Pools
        PROVE  free'[q] + Cardinality(Running(q)') = Slots[q]
    <3>1. IsFiniteSet(Running(q)) /\ (q = p => c \in Running(q) /\ h \notin Running(q) \ {c})
      BY <1>0, <2>1, FS_Subset DEF Running
    <3>2. Running(q)' = IF q = p THEN (Running(q) \ {c}) \cup {h} ELSE Running(q)
      BY <1>0, <2>1, <2>2 DEF Running, PoolTypeOK
    <3>3. /\ IsFiniteSet(Running(q) \ {c})
          /\ q = p => Cardinality(Running(q) \ {c}) = Cardinality(Running(q)) - 1
      BY <3>1, FS_RemoveElement
    <3>4. q = p => Cardinality((Running(q) \ {c}) \cup {h}) = Cardinality(Running(q) \ {c}) + 1
      BY <3>1, <3>3, FS_AddElement
    <3>5. Cardinality(Running(q)) \in Nat
      BY <3>1, FS_CardinalityType
    <3>6. free[q] + Cardinality(Running(q)) = Slots[q]
      BY DEF PoolInv, SlotsAccounted
    <3>7. Cardinality(Running(q)') = Cardinality(Running(q))
      BY <3>2, <3>3, <3>4, <3>5
    <3> QED
      BY <2>2, <3>6, <3>7
  <2> QED
    BY <2>3, <2>4, <2>5 DEF PoolInv, SlotsAccounted
<1> QED
  BY <1>2, <1>3

\* A restart leaves nobody in line and nobody in a slot.
LEMMA DropKeepsPool ==
  ASSUME PoolInv, DropCalls
  PROVE  PoolInv'
<1> USE EmbedPoolAssumption DEF DropCalls
<1>1. PoolTypeOK'
  BY DEF PoolInv, PoolTypeOK, CallStates, InFlight, Pools
<1>2. \A c \in Calls : call'[c] \notin {"waiting", "running"}
  BY DEF PoolInv, PoolTypeOK, CallStates, InFlight
<1>3. \A p \in Pools : Running(p)' = {}
  BY <1>2 DEF Running
<1>4. SlotsAccounted'
  <2>1. ASSUME NEW p \in Pools
        PROVE  free'[p] + Cardinality(Running(p)') = Slots[p]
    <3>1. Cardinality(Running(p)') = 0
      BY <1>3, FS_EmptySet
    <3>2. free'[p] = Slots[p] /\ Slots[p] \in Nat
      OBVIOUS
    <3> QED
      BY <3>1, <3>2
  <2> QED
    BY <2>1 DEF SlotsAccounted
<1>5. \A p \in Pools : LineIsSound(p)'
  BY <1>2 DEF LineIsSound, Pools
<1> QED
  BY <1>1, <1>4, <1>5 DEF PoolInv

\* Pools that nobody touches stay sound.
LEMMA PoolStutters ==
  ASSUME PoolInv, UNCHANGED poolVars
  PROVE  PoolInv'
BY DEF PoolInv, PoolTypeOK, SlotsAccounted, LineIsSound, Running, poolVars

-----------------------------------------------------------------------------
(* The client of docling-serve and the start of the process.               *)

\* Within one round the time grows by one answer, between two by one pause.
LEMMA ClientKeepsPatience ==
  ASSUME DoclingTypeOK, PatienceInv, NEW j \in Jobs, ClientStep(j)
  PROVE  DoclingTypeOK' /\ PatienceInv'
<1> USE DoclingAssumption
        DEF DoclingTypeOK, PatienceInv, PatienceBounded, Outcomes, Statuses
<1>1. CASE Submit(j)
  BY <1>1 DEF Submit, End
<1>2. CASE AskStatus(j)
  BY <1>2 DEF AskStatus
<1>3. CASE ReadStatus(j)
  <2>1. DoclingTypeOK'
    BY <1>3 DEF ReadStatus, End
  <2>2. \/ jpc'[j] \in {"fetch", "done"} /\ waited'[j] = 0
        \/ jpc'[j] = "poll" /\ waited'[j] = waited[j] + PollInterval /\ waited[j] < MaxWait
    BY <1>3 DEF ReadStatus, End
  <2>3. \A i \in Jobs \ {j} : jpc'[i] = jpc[i] /\ waited'[i] = waited[i]
    BY <1>3 DEF ReadStatus, End
  <2> QED
    BY <2>1, <2>2, <2>3
<1>4. CASE Fetch(j)
  BY <1>4 DEF Fetch, End
<1> QED
  BY <1>1, <1>2, <1>3, <1>4 DEF ClientStep

\* Whatever else moves a job has no deadline before and after, or ends it.
LEMMA OthersKeepPatience ==
  ASSUME DoclingTypeOK, PatienceInv, DoclingTypeOK',
         \A j \in Jobs : \/ jpc'[j] = jpc[j] /\ waited'[j] = waited[j]
                         \/ /\ {jpc[j], jpc'[j]} \cap {"poll", "reply"} = {}
                            /\ waited'[j] = waited[j]
                         \/ jpc'[j] = "done" /\ waited'[j] = 0
  PROVE  PatienceInv'
<1> USE DoclingAssumption DEF DoclingTypeOK, PatienceInv, PatienceBounded
<1> SUFFICES ASSUME NEW j \in Jobs
             PROVE  /\ waited'[j] < MaxWait + PollInterval + MaxDelay
                    /\ jpc'[j] \notin {"poll", "reply"} => waited'[j] = 0
                    /\ jpc'[j] = "poll" => waited'[j] < MaxWait + PollInterval
  OBVIOUS
<1>1. CASE jpc'[j] = jpc[j] /\ waited'[j] = waited[j]
  BY <1>1
<1>2. CASE {jpc[j], jpc'[j]} \cap {"poll", "reply"} = {} /\ waited'[j] = waited[j]
  <2>1. jpc[j] \notin {"poll", "reply"} /\ jpc'[j] \notin {"poll", "reply"}
    BY <1>2
  <2> QED
    BY <1>2, <2>1
<1>3. CASE jpc'[j] = "done" /\ waited'[j] = 0
  BY <1>3
<1> QED
  BY <1>1, <1>2, <1>3

\* Every step of the start of the two servers keeps its order.
LEMMA StartKeepsStart ==
  ASSUME StartInv, StartContinues \/ StartFails \/ Kill
  PROVE  StartInv'
<1> USE StartupAssumption
        DEF StartInv, StartTypeOK, StartSteps, Advance, Again, FirstOf
<1>1. CASE LoadModels \/ EnsureIndex \/ Calibrate \/ EnsureBuckets
  <2>1. public # "serving" /\ public' \in StartSteps \cup {"serving"}
    BY <1>1 DEF LoadModels, EnsureIndex, Calibrate, EnsureBuckets
  <2>2. mode' = mode /\ private' = private /\ (ready' = ready \/ (ready' = TRUE /\ public' = "serving"))
    BY <1>1 DEF LoadModels, EnsureIndex, Calibrate, EnsureBuckets
  <2>3. CASE ready' = ready
    BY <2>1, <2>2, <2>3
  <2>4. CASE ready' = TRUE /\ public' = "serving"
    BY <2>1, <2>2, <2>4
  <2> QED
    BY <2>2, <2>3, <2>4
<1>2. CASE OpenPrivate
  BY <1>2 DEF OpenPrivate
<1>3. CASE StartFails
  <2>1. public \in StartSteps /\ public # "serving"
    BY <1>3 DEF StartFails
  <2>2. public' = "down" /\ mode' = mode /\ private' = private /\ ready' = ready
    BY <1>3 DEF StartFails
  <2> QED
    BY <2>1, <2>2
<1>4. CASE Restart \/ Kill
  <2>1. public' = "load" /\ ready' = FALSE /\ mode' = mode /\ private' \in {"waiting", "absent"}
    BY <1>4 DEF Restart, Kill
  <2> QED
    BY <2>1
<1> QED
  BY <1>1, <1>2, <1>3, <1>4 DEF StartContinues

\* Only Kill ends a server that serves.
LEMMA ServingStays ==
  ASSUME StartInv, StartContinues \/ StartFails, public = "serving"
  PROVE  public' = "serving"
BY StartupAssumption
   DEF StartInv, StartContinues, StartFails, LoadModels, EnsureIndex, Calibrate, EnsureBuckets,
       OpenPrivate, Restart, Advance, StartSteps

-----------------------------------------------------------------------------
(* The jobs.                                                               *)

\* What happens to calls in flight, and to searches, leaves the jobs sound.
LEMMA CallsMove ==
  ASSUME JobInv, EmbeddedMeansAll, UNCHANGED jobVars,
         \A c \in Calls : JobOf[c] \in Jobs =>
           /\ call'[c] = "unsent" <=> call[c] = "unsent"
           /\ call[c] = "answered" => call'[c] = "answered"
  PROVE  JobInv' /\ EmbeddedMeansAll'
<1>1. \A j \in Jobs : Sent(j)' = Sent(j)
  BY DEF Sent, CallsOf
<1>2. \A j \in Jobs : \A c \in Sent(j) : c \in Calls /\ JobOf[c] = j
  BY DEF Sent, CallsOf
<1> QED
  BY <1>1, <1>2 DEF JobInv, EmbeddedMeansAll, jobVars

\* A job that moves without a call leaves the others alone.
LEMMA JobMoves ==
  ASSUME JobInv, EmbeddedMeansAll, call' = call, NEW j \in Jobs,
         \A i \in Jobs \ {j} : jpc'[i] = jpc[i] /\ left'[i] = left[i] /\ outcome'[i] = outcome[i],
         outcome'[j] # "none" => jpc'[j] = "done",
         jpc'[j] \in {"idle", "submit", "poll", "reply", "fetch"} => Sent(j) = {},
         jpc'[j] = "embed" => left'[j] > 0 /\ \A c \in Sent(j) : call[c] = "answered",
         jpc'[j] = "answer" => left'[j] > 0 /\ Sent(j) # {},
         outcome'[j] = "embedded" =>
           left'[j] = 0 /\ Sent(j) # {} /\ \A c \in Sent(j) : call[c] = "answered"
  PROVE  JobInv' /\ EmbeddedMeansAll'
<1>1. \A i \in Jobs : Sent(i)' = Sent(i)
  BY DEF Sent
<1> QED
  BY <1>1 DEF JobInv, EmbeddedMeansAll

\* A job that ends without its vectors leaves the others alone.
LEMMA JobFails ==
  ASSUME JobInv, EmbeddedMeansAll, call' = call, NEW j \in Jobs,
         \A i \in Jobs \ {j} : jpc'[i] = jpc[i] /\ left'[i] = left[i] /\ outcome'[i] = outcome[i],
         jpc'[j] = "done", outcome'[j] # "embedded"
  PROVE  JobInv' /\ EmbeddedMeansAll'
BY JobMoves

\* While a job converts it has sent nothing to /embed.
LEMMA ConvertKeepsJobs ==
  ASSUME DoclingTypeOK, JobInv, EmbeddedMeansAll, NEW j \in Jobs,
         ClientStep(j) \/ StartJob(j) \/ TaskEnds(j), UNCHANGED poolVars
  PROVE  JobInv' /\ EmbeddedMeansAll'
<1> USE DoclingAssumption DEF DoclingTypeOK, Outcomes
<1>1. \A i \in Jobs \ {j} : jpc'[i] = jpc[i] /\ left'[i] = left[i] /\ outcome'[i] = outcome[i]
  BY DEF ClientStep, Submit, AskStatus, ReadStatus, Fetch, StartJob, TaskEnds, End
<1>2. CASE ClientStep(j) \/ StartJob(j)
  <2>1. Sent(j) = {} /\ outcome[j] = "none"
    BY <1>2 DEF JobInv, ClientStep, Submit, AskStatus, ReadStatus, Fetch, StartJob
  <2>2. /\ outcome'[j] # "embedded" /\ (outcome'[j] # "none" => jpc'[j] = "done")
        /\ jpc'[j] # "answer"
        /\ jpc'[j] = "embed" => left'[j] > 0
    BY <1>2, <2>1 DEF ClientStep, Submit, AskStatus, ReadStatus, Fetch, StartJob, End
  <2> QED
    BY <1>1, <2>1, <2>2, JobMoves DEF poolVars
<1>3. CASE TaskEnds(j)
  BY <1>1, <1>3, JobMoves DEF TaskEnds, JobInv, EmbeddedMeansAll, poolVars
<1> QED
  BY <1>2, <1>3

\* The next batch is under way; nothing of another job is.
LEMMA SendKeepsJobs ==
  ASSUME DoclingTypeOK, PoolTypeOK, JobInv, EmbeddedMeansAll,
         NEW j \in Jobs, NEW c \in Calls, SendBatch(j, c)
  PROVE  JobInv' /\ EmbeddedMeansAll'
<1> USE DEF DoclingTypeOK, Outcomes
<1>1. CASE ~EmbedServed
  <2>1. /\ call' = call /\ jpc'[j] = "done" /\ outcome'[j] = "failed"
        /\ \A i \in Jobs \ {j} : jpc'[i] = jpc[i] /\ left'[i] = left[i] /\ outcome'[i] = outcome[i]
    BY <1>1 DEF SendBatch, End, poolVars
  <2> QED
    BY <2>1, JobMoves
<1>2. CASE EmbedServed
  <2>1. /\ jpc[j] = "embed" /\ jpc' = [jpc EXCEPT ![j] = "answer"]
        /\ left' = left /\ outcome' = outcome
        /\ c \in CallsOf(j) /\ Arrive(c)
    BY <1>2 DEF SendBatch
  <2>2. /\ call'[c] \in {"waiting", "running"}
        /\ \A d \in Calls \ {c} : call'[d] = call[d]
    BY <2>1 DEF Arrive, PoolTypeOK
  <2>3. c \in Sent(j)'
    BY <2>1, <2>2 DEF Sent, CallsOf
  <2>4. \A i \in Jobs \ {j} : Sent(i)' = Sent(i) /\ c \notin Sent(i) /\ Sent(i) \subseteq Calls
    BY <2>1, <2>2 DEF Sent, CallsOf
  <2>5. jpc'[j] = "answer" /\ left'[j] > 0 /\ outcome'[j] = "none"
    BY <2>1 DEF JobInv
  <2>6. \A i \in Jobs \ {j} : jpc'[i] = jpc[i]
    BY <2>1
  <2>7. JobInv'
    BY <2>1, <2>2, <2>3, <2>4, <2>5, <2>6 DEF JobInv
  <2>8. EmbeddedMeansAll'
    BY <2>1, <2>2, <2>4, <2>5 DEF EmbeddedMeansAll
  <2> QED
    BY <2>7, <2>8
<1> QED
  BY <1>1, <1>2

\* An answer, a lost batch and the end of a job keep what the job has sent.
LEMMA ReceiveKeepsJobs ==
  ASSUME DoclingTypeOK, JobInv, EmbeddedMeansAll, NEW j \in Jobs,
         Receive(j) \/ BatchAbandoned(j) \/ JobStopped(j)
  PROVE  DoclingTypeOK' /\ JobInv' /\ EmbeddedMeansAll'
<1> USE DEF DoclingTypeOK, Outcomes
<1>0. call' = call
  BY DEF Receive, BatchAbandoned, JobStopped, poolVars
<1>1. \A i \in Jobs \ {j} : jpc'[i] = jpc[i] /\ left'[i] = left[i] /\ outcome'[i] = outcome[i]
  BY DEF Receive, BatchAbandoned, JobStopped, End
<1>2. CASE Receive(j) /\ left' # left
  <2>1. /\ jpc[j] = "answer" /\ left[j] > 0 /\ Sent(j) # {} /\ outcome[j] = "none"
        /\ \A c \in Sent(j) : call[c] = "answered"
        /\ left' = [left EXCEPT ![j] = @ - 1]
        /\ task' = task /\ seen' = seen /\ waited' \in [Jobs -> Nat]
    BY <1>2 DEF Receive, JobInv, End
  <2>2. left' \in [Jobs -> Nat] /\ left'[j] = left[j] - 1
    BY <2>1
  <2>3. CASE left[j] = 1
    <3>1. jpc' = [jpc EXCEPT ![j] = "done"] /\ outcome' = [outcome EXCEPT ![j] = "embedded"]
      BY <1>2, <2>1, <2>3 DEF Receive, End
    <3>2. DoclingTypeOK'
      BY <2>1, <2>2, <3>1
    <3> QED
      BY <1>0, <1>1, <2>1, <2>2, <2>3, <3>1, <3>2, JobMoves
  <2>4. CASE left[j] # 1
    <3>1. jpc' = [jpc EXCEPT ![j] = "embed"] /\ outcome' = outcome
      BY <1>2, <2>1, <2>4 DEF Receive
    <3>2. DoclingTypeOK'
      BY <2>1, <2>2, <3>1
    <3> QED
      BY <1>0, <1>1, <2>1, <2>2, <2>4, <3>1, <3>2, JobMoves
  <2> QED
    BY <2>3, <2>4
<1>3. CASE ~(Receive(j) /\ left' # left)
  <2>1. /\ jpc' = [jpc EXCEPT ![j] = "done"] /\ waited' = [waited EXCEPT ![j] = 0]
        /\ \E how \in {"failed", "stopped"} : outcome' = [outcome EXCEPT ![j] = how]
        /\ task' = task /\ seen' = seen /\ left' = left
    <3>1. CASE Receive(j)
      <4>1. left[j] \in Nat \ {0}
        BY <3>1 DEF Receive, JobInv
      <4> QED
        BY <1>3, <3>1, <4>1 DEF Receive, End
    <3>2. CASE BatchAbandoned(j) \/ JobStopped(j)
      BY <3>2 DEF BatchAbandoned, JobStopped, End
    <3> QED
      BY <3>1, <3>2
  <2>2. DoclingTypeOK' /\ jpc'[j] = "done" /\ outcome'[j] \in {"failed", "stopped"}
    BY <2>1
  <2>3. outcome'[j] # "embedded"
    BY <2>2
  <2> HIDE DEF DoclingTypeOK, Outcomes
  <2> QED
    BY <1>0, <1>1, <2>2, <2>3, JobFails
<1> QED
  BY <1>2, <1>3

-----------------------------------------------------------------------------
(* The pipeline.                                                           *)

\* The servers start with nothing sent.
LEMMA InitIsSound == Init => IInv
<1> SUFFICES ASSUME Init PROVE IInv
  OBVIOUS
<1> USE DEF Init, DoclingInit, PoolInit, StartInit
<1>1. PoolInv
  BY PoolStarts
<1>2. DoclingTypeOK /\ PatienceInv
  BY DoclingAssumption DEF DoclingTypeOK, PatienceInv, PatienceBounded, Outcomes, Statuses
<1>3. StartInv
  BY StartupAssumption DEF StartInv, StartTypeOK, StartSteps, FirstOf
<1>4. JobInv /\ EmbedOnlyWhenReady /\ EmbeddedMeansAll
  BY DEF JobInv, EmbedOnlyWhenReady, EmbeddedMeansAll, InFlight, Sent, CallsOf
<1> QED
  BY <1>1, <1>2, <1>3, <1>4 DEF IInv, TypeOK, PoolInv, StartInv

\* A job moves, and no call with it.
LEMMA JobKeepsSound ==
  ASSUME IInv, NEW j \in Jobs,
         Converts(j) \/ Receive(j) \/ BatchAbandoned(j) \/ JobStopped(j) \/ DoclingWorks(j)
  PROVE  IInv'
<1>1. DoclingTypeOK /\ PatienceInv /\ PoolInv /\ StartInv /\ JobInv /\ EmbeddedMeansAll
  BY DEF IInv, TypeOK
<1>2. UNCHANGED <<poolVars, startVars>>
  BY DEF Converts, Receive, BatchAbandoned, JobStopped, DoclingWorks
<1>3. PoolInv' /\ StartInv' /\ EmbedOnlyWhenReady'
  BY <1>1, <1>2, PoolStutters
     DEF IInv, EmbedOnlyWhenReady, InFlight, StartInv, StartTypeOK, poolVars, startVars
<1>4. DoclingTypeOK' /\ PatienceInv' /\ JobInv' /\ EmbeddedMeansAll'
  <2>1. CASE Converts(j)
    BY <1>1, <1>2, <2>1, ClientKeepsPatience, ConvertKeepsJobs DEF Converts
  <2>2. CASE Receive(j) \/ BatchAbandoned(j) \/ JobStopped(j)
    <3>1. DoclingTypeOK' /\ JobInv' /\ EmbeddedMeansAll'
      BY <1>1, <2>2, ReceiveKeepsJobs
    <3>2. \A i \in Jobs : \/ jpc'[i] = jpc[i] /\ waited'[i] = waited[i]
                          \/ jpc[i] = "answer" /\ jpc'[i] = "embed" /\ waited'[i] = waited[i]
                          \/ jpc'[i] = "done" /\ waited'[i] = 0
      <4>1. CASE Receive(j)
        BY <1>1, <4>1 DEF Receive, End, DoclingTypeOK
      <4>2. CASE BatchAbandoned(j) \/ JobStopped(j)
        BY <1>1, <4>2 DEF BatchAbandoned, JobStopped, End, DoclingTypeOK
      <4> QED
        BY <2>2, <4>1, <4>2
    <3>3. \A i \in Jobs : jpc[i] = "answer" /\ jpc'[i] = "embed" =>
                            {jpc[i], jpc'[i]} \cap {"poll", "reply"} = {}
      OBVIOUS
    <3> QED
      BY <1>1, <3>1, <3>2, <3>3, OthersKeepPatience
  <2>3. CASE DoclingWorks(j)
    <3>1. DoclingTypeOK'
      BY <1>1, <2>3 DEF DoclingWorks, StartJob, TaskEnds, DoclingTypeOK, Statuses
    <3>2. /\ waited' = waited
          /\ \A i \in Jobs : jpc'[i] = jpc[i] \/ (jpc[i] = "idle" /\ jpc'[i] = "submit")
      BY <1>1, <2>3 DEF DoclingWorks, StartJob, TaskEnds, DoclingTypeOK
    <3>3. PatienceInv'
      BY <1>1, <3>1, <3>2, OthersKeepPatience
    <3> QED
      BY <1>1, <1>2, <2>3, <3>1, <3>3, ConvertKeepsJobs DEF DoclingWorks
  <2> QED
    BY <2>1, <2>2, <2>3
<1> QED
  BY <1>3, <1>4 DEF IInv, TypeOK, PoolInv, StartInv

\* A call is sent, by a job or by a search: /embed is open, so the start is over.
LEMMA SendKeepsSound ==
  ASSUME IInv, NEW c \in Calls, Search(c) \/ \E j \in Jobs : SendBatch(j, c)
  PROVE  IInv'
<1>1. DoclingTypeOK /\ PatienceInv /\ PoolInv /\ StartInv /\ JobInv /\ EmbeddedMeansAll
  BY DEF IInv, TypeOK
<1>2. UNCHANGED startVars
  BY DEF Search, SendBatch
<1>3. StartInv'
  BY <1>1, <1>2 DEF StartInv, StartTypeOK, startVars
<1>4. (EmbedServed /\ Arrive(c)) \/ UNCHANGED poolVars
  BY DEF Search, SendBatch
<1>5. PoolInv'
  BY <1>1, <1>4, ArriveKeepsPool, PoolStutters
<1>6. EmbedOnlyWhenReady'
  <2>1. CASE EmbedServed /\ Arrive(c)
    BY <1>1, <1>2, <2>1 DEF EmbedServed, StartInv, EmbedOnlyWhenReady, startVars
  <2>2. CASE UNCHANGED poolVars
    BY <1>2, <2>2 DEF IInv, EmbedOnlyWhenReady, InFlight, poolVars, startVars
  <2> QED
    BY <1>4, <2>1, <2>2
<1>7. DoclingTypeOK' /\ PatienceInv' /\ JobInv' /\ EmbeddedMeansAll'
  <2>1. CASE Search(c)
    <3>1. /\ UNCHANGED jobVars /\ JobOf[c] \notin Jobs
          /\ \A d \in Calls : d # c => call'[d] = call[d]
      BY <1>1, <2>1, PipelineAssumption
         DEF Search, Searches, CallsOf, Arrive, PoolInv, PoolTypeOK
    <3>2. JobInv' /\ EmbeddedMeansAll'
      BY <1>1, <3>1, CallsMove
    <3> QED
      BY <1>1, <3>1, <3>2 DEF DoclingTypeOK, PatienceInv, PatienceBounded, jobVars
  <2>2. ASSUME NEW j \in Jobs, SendBatch(j, c)
        PROVE  DoclingTypeOK' /\ PatienceInv' /\ JobInv' /\ EmbeddedMeansAll'
    <3>1. DoclingTypeOK'
      BY <1>1, <2>2 DEF SendBatch, End, DoclingTypeOK, Outcomes
    <3>2. \A i \in Jobs : \/ jpc'[i] = jpc[i] /\ waited'[i] = waited[i]
                          \/ jpc[i] = "embed" /\ jpc'[i] = "answer" /\ waited'[i] = waited[i]
                          \/ jpc'[i] = "done" /\ waited'[i] = 0
      BY <1>1, <2>2 DEF SendBatch, End, DoclingTypeOK
    <3>3. PatienceInv'
      BY <1>1, <3>1, <3>2, OthersKeepPatience
    <3> QED
      BY <1>1, <2>2, <3>1, <3>3, SendKeepsJobs DEF PoolInv
  <2> QED
    BY <2>1, <2>2
<1> QED
  BY <1>3, <1>5, <1>6, <1>7 DEF IInv, TypeOK, PoolInv, StartInv

\* A call in flight ends, well or not, or the process starts, breaks or dies.
LEMMA ServerKeepsSound ==
  ASSUME IInv, (\E c \in Calls : ModelAnswers(c)) \/ ServerStarts \/ StartBreaks \/ ProcessDies
  PROVE  IInv'
<1>1. DoclingTypeOK /\ PatienceInv /\ PoolInv /\ StartInv /\ JobInv /\ EmbeddedMeansAll
  BY DEF IInv, TypeOK
<1>2. UNCHANGED jobVars
  BY DEF ModelAnswers, ServerStarts, StartBreaks, ProcessDies
<1>3. DoclingTypeOK' /\ PatienceInv'
  BY <1>1, <1>2 DEF DoclingTypeOK, PatienceInv, PatienceBounded, jobVars
<1>4. /\ PoolInv' /\ StartInv' /\ EmbedOnlyWhenReady'
      /\ \A c \in Calls : /\ call'[c] = "unsent" <=> call[c] = "unsent"
                          /\ call[c] = "answered" => call'[c] = "answered"
  <2>1. ASSUME NEW c \in Calls, ModelAnswers(c)
        PROVE  <1>4!:
    <3>1. Finish(c) /\ UNCHANGED startVars
      BY <2>1 DEF ModelAnswers
    <3>2. PoolInv' /\ StartInv'
      BY <1>1, <3>1, FinishKeepsPool DEF StartInv, StartTypeOK, startVars
    <3>3. /\ call[c] = "running" /\ call'[c] \in {"answered", "failed", "running"}
          /\ \A d \in Calls \ {c} : \/ call'[d] = call[d]
                                    \/ call[d] = "waiting" /\ call'[d] = "running"
      <4>1. line[PoolOf[c]] # <<>> => /\ Head(line[PoolOf[c]]) \in Calls
                                      /\ call[Head(line[PoolOf[c]])] = "waiting"
        BY <1>1, EmbedPoolAssumption DEF PoolInv, PoolTypeOK, LineIsSound
      <4> QED
        BY <1>1, <3>1, <4>1 DEF Finish, PoolInv, PoolTypeOK
    <3>4. EmbedOnlyWhenReady'
      BY <3>1, <3>3 DEF IInv, EmbedOnlyWhenReady, InFlight, startVars
    <3> QED
      BY <3>2, <3>3, <3>4
  <2>2. CASE ServerStarts \/ StartBreaks
    <3>1. (StartContinues \/ StartFails) /\ UNCHANGED poolVars
      BY <2>2 DEF ServerStarts, StartBreaks
    <3>2. PoolInv' /\ StartInv'
      BY <1>1, <3>1, PoolStutters, StartKeepsStart
    <3>3. public = "serving" => public' = "serving"
      BY <1>1, <3>1, ServingStays
    <3> QED
      BY <3>1, <3>2, <3>3 DEF IInv, EmbedOnlyWhenReady, InFlight, poolVars
  <2>3. CASE ProcessDies
    <3>1. PoolInv' /\ StartInv'
      BY <1>1, <2>3, DropKeepsPool, StartKeepsStart DEF ProcessDies
    <3>2. \A c \in Calls : ~InFlight(c)' /\ (call'[c] = call[c] \/ (InFlight(c) /\ call'[c] = "failed"))
      BY <2>3 DEF ProcessDies, DropCalls, InFlight
    <3> QED
      BY <3>1, <3>2 DEF EmbedOnlyWhenReady, InFlight
  <2> QED
    BY <2>1, <2>2, <2>3
<1>5. JobInv' /\ EmbeddedMeansAll'
  BY <1>1, <1>2, <1>4, CallsMove
<1> QED
  BY <1>3, <1>4, <1>5 DEF IInv, TypeOK, PoolInv, StartInv

\* Every step of the pipeline keeps the invariant.
LEMMA NextKeepsSound == IInv /\ [Next]_vars => IInv'
<1> SUFFICES ASSUME IInv, [Next]_vars PROVE IInv'
  OBVIOUS
<1>1. CASE Next
  BY <1>1, JobKeepsSound, SendKeepsSound, ServerKeepsSound DEF Next, JobStep
<1>2. CASE UNCHANGED vars
  <2>1. PoolInv'
    BY <1>2, PoolStutters DEF IInv, vars
  <2>2. DoclingTypeOK' /\ PatienceInv' /\ StartInv'
    BY <1>2 DEF IInv, TypeOK, vars, jobVars, startVars, DoclingTypeOK, PatienceInv,
                PatienceBounded, StartInv, StartTypeOK
  <2>3. JobInv' /\ EmbeddedMeansAll' /\ EmbedOnlyWhenReady'
    BY <1>2 DEF IInv, vars, jobVars, poolVars, startVars, JobInv, EmbeddedMeansAll,
                EmbedOnlyWhenReady, InFlight, Sent
  <2> QED
    BY <2>1, <2>2, <2>3 DEF IInv, TypeOK, PoolInv, StartInv
<1> QED
  BY <1>1, <1>2

\* IInv is inductive.
LEMMA Invariance == Spec => []IInv
BY InitIsSound, NextKeepsSound, PTL DEF Spec

\* The type invariant of the pipeline.
THEOREM PipelineTypeCorrect == Spec => []TypeOK
<1>1. IInv => TypeOK
  BY DEF IInv
<1> QED
  BY <1>1, Invariance, PTL

\* No exception of a model, no caller that went away and no restart costs a
\* semaphore a slot, whatever the number of calls and slots.
THEOREM SlotsNeverLeak == Spec => []SlotsAccounted
<1>1. IInv => SlotsAccounted
  BY DEF IInv, PoolInv
<1> QED
  BY <1>1, Invariance, PTL

\* A search waits for searches only, a batch for batches only.
THEOREM PoolsAreSeparate == Spec => []WaitsForOwnPool
<1>1. IInv => WaitsForOwnPool
  <2> SUFFICES ASSUME IInv, NEW c \in Calls, call[c] = "waiting"
               PROVE  Cardinality(Running(PoolOf[c])) = Slots[PoolOf[c]]
    BY DEF WaitsForOwnPool
  <2>1. PoolOf[c] \in Pools /\ line[PoolOf[c]] # <<>>
    BY EmbedPoolAssumption DEF IInv, PoolInv, PoolTypeOK, LineIsSound
  <2>2. free[PoolOf[c]] = 0
    BY <2>1 DEF IInv, PoolInv, LineIsSound
  <2>3. IsFiniteSet(Running(PoolOf[c]))
    BY EmbedPoolAssumption, FS_Subset DEF Running
  <2>4. Cardinality(Running(PoolOf[c])) \in Nat
    BY <2>3, FS_CardinalityType
  <2>5. free[PoolOf[c]] + Cardinality(Running(PoolOf[c])) = Slots[PoolOf[c]]
    BY <2>1 DEF IInv, PoolInv, SlotsAccounted
  <2> QED
    BY <2>2, <2>4, <2>5
<1> QED
  BY <1>1, Invariance, PTL

\* /embed is not served before the models, the index and the buckets are there.
THEOREM ServedAfterStart == Spec => []EmbedOnlyWhenReady
<1>1. IInv => EmbedOnlyWhenReady
  BY DEF IInv
<1> QED
  BY <1>1, Invariance, PTL

\* A task that never ends holds a worker for a bounded time.
THEOREM PatienceIsBounded == Spec => []PatienceBounded
<1>1. IInv => PatienceBounded
  BY DEF IInv, PatienceInv
<1> QED
  BY <1>1, Invariance, PTL

\* A document is embedded only with the vectors of every batch.
THEOREM NoBatchIsLost == Spec => []EmbeddedMeansAll
<1>1. IInv => EmbeddedMeansAll
  BY DEF IInv
<1> QED
  BY <1>1, Invariance, PTL

-----------------------------------------------------------------------------
(* Giving up.                                                              *)

\* A task that is over is not yet told when the client asks, or was not told.
LEMMA EndedWillBeTold ==
  ASSUME IInv, NEW j \in Jobs, Ended(j), jpc[j] = "poll"
  PROVE  WillBeTold(j)
BY DEF IInv, JobInv, WillBeTold

\* The client's own steps: the status is looked at before the clock.
LEMMA ClientTells ==
  ASSUME DoclingTypeOK, JobInv, NEW j \in Jobs, WillBeTold(j), NEW i \in Jobs, ClientStep(i)
  PROVE  WillBeTold(j)'
<1> USE DEF DoclingTypeOK, WillBeTold, Ended
<1>1. CASE i # j
  BY <1>1 DEF ClientStep, Submit, AskStatus, ReadStatus, Fetch, End
<1>2. CASE i = j
  <2>1. CASE AskStatus(j)
    BY <2>1 DEF AskStatus
  <2>2. CASE ReadStatus(j)
    BY <2>2 DEF ReadStatus, End
  <2>3. CASE Fetch(j)
    BY <2>3 DEF Fetch, End
  <2> QED
    BY <1>2, <2>1, <2>2, <2>3 DEF ClientStep, Submit
<1> QED
  BY <1>1, <1>2

\* Nobody else ends a job with a timeout, starts it again or takes back a result.
LEMMA NobodyElseGivesUp ==
  ASSUME DoclingTypeOK, NEW j \in Jobs, WillBeTold(j), Next, \A i \in Jobs : ~Converts(i)
  PROVE  WillBeTold(j)'
<1> USE DEF DoclingTypeOK, WillBeTold, Ended, End
<1>1. ASSUME NEW i \in Jobs, \E c \in Calls : SendBatch(i, c)
      PROVE  WillBeTold(j)'
  BY <1>1 DEF SendBatch
<1>2. ASSUME NEW i \in Jobs, Receive(i)
      PROVE  WillBeTold(j)'
  BY <1>2 DEF Receive
<1>3. ASSUME NEW i \in Jobs, BatchAbandoned(i) \/ JobStopped(i)
      PROVE  WillBeTold(j)'
  BY <1>3 DEF BatchAbandoned, JobStopped
<1>4. ASSUME NEW i \in Jobs, DoclingWorks(i)
      PROVE  WillBeTold(j)'
  BY <1>4 DEF DoclingWorks, StartJob, TaskEnds
<1>5. CASE \/ \E c \in Calls : Search(c) \/ ModelAnswers(c)
           \/ ServerStarts \/ StartBreaks \/ ProcessDies
  BY <1>5 DEF Search, ModelAnswers, ServerStarts, StartBreaks, ProcessDies, jobVars
<1> QED
  BY <1>1, <1>2, <1>3, <1>4, <1>5 DEF Next, JobStep

\* A result that is there when the client asks is never given up, however late it
\* asks and whatever a restart, a stopped job or another worker does: each round
\* looks at the status before the clock (client.py:148-168).
THEOREM ResultsAreKept == Spec => ResultIsKept
<1> SUFFICES ASSUME NEW j \in Jobs
             PROVE  Spec => [](Ended(j) /\ jpc[j] = "poll" => [](outcome[j] # "timeout"))
  BY DEF ResultIsKept
<1>1. IInv /\ Ended(j) /\ jpc[j] = "poll" => WillBeTold(j)
  BY EndedWillBeTold
<1>2. IInv /\ WillBeTold(j) /\ [Next]_vars => WillBeTold(j)'
  <2> SUFFICES ASSUME IInv, WillBeTold(j), [Next]_vars
               PROVE  WillBeTold(j)'
    OBVIOUS
  <2>1. DoclingTypeOK /\ JobInv
    BY DEF IInv, TypeOK
  <2>2. CASE UNCHANGED vars
    BY <2>2 DEF vars, jobVars, WillBeTold, Ended
  <2>3. CASE Next /\ \E i \in Jobs : Converts(i)
    BY <2>1, <2>3, ClientTells DEF Converts
  <2>4. CASE Next /\ \A i \in Jobs : ~Converts(i)
    BY <2>1, <2>4, NobodyElseGivesUp
  <2> QED
    BY <2>2, <2>3, <2>4
<1>3. WillBeTold(j) => outcome[j] # "timeout"
  BY DEF WillBeTold
<1> QED
  BY <1>1, <1>2, <1>3, Invariance, PTL DEF Spec
=============================================================================
