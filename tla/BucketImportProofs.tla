------------------------- MODULE BucketImportProofs -------------------------
(***************************************************************************)
(* What the imports from a foreign bucket accept, for every listing, every *)
(* request and every limit.                                                *)
(*                                                                         *)
(* Each import is a chain of loops, and each loop carries a selection from *)
(* one element of a list to the next.  Iterate says that such a loop has   *)
(* its states; an invariant of a loop follows with Reaches.                *)
(***************************************************************************)
EXTENDS BucketImport, FiniteSetTheorems, SequenceTheorems, WellFoundedInduction, TLAPS

-----------------------------------------------------------------------------
(* Loops.                                                                  *)

\* A set of numbers that is not empty has a least element.
LEMMA LeastExists ==
  ASSUME NEW S \in SUBSET Nat, S # {}
  PROVE  \E m \in S : \A k \in S : m <= k
<1> DEFINE R == OpToRel(<, Nat)
<1>1. \A a, b \in Nat : a < b => <<a, b>> \in R
  BY DEF OpToRel
<1>2. IsWellFoundedOn(R, Nat)
  BY NatLessThanWellFounded
<1> HIDE DEF R
<1>3. \E m \in S : \A k \in S : <<k, m>> \notin R
  BY <1>2, WFMin
<1>4. PICK m \in S : \A k \in S : <<k, m>> \notin R
  BY <1>3
<1>5. ASSUME NEW k \in S
      PROVE  m <= k
  <2>1. k \in Nat /\ m \in Nat /\ ~(k < m)
    BY <1>1, <1>4
  <2> QED
    BY <2>1
<1> QED
  BY <1>5

\* A set of positions that contains the first and the next of each reaches the
\* last.
LEMMA Reaches ==
  ASSUME NEW n \in Nat, NEW S, 0 \in S, \A i \in 1..n : i - 1 \in S => i \in S
  PROVE  \A i \in 0..n : i \in S
<1> DEFINE missed == {i \in 0..n : i \notin S}
<1> SUFFICES ASSUME missed # {}
             PROVE  FALSE
  OBVIOUS
<1>1. PICK m \in missed : \A k \in missed : m <= k
  <2>1. missed \in SUBSET Nat
    OBVIOUS
  <2> QED
    BY <2>1, LeastExists
<1>2. m \in 1..n
  OBVIOUS
<1>3. m - 1 \in 0..n /\ m - 1 \in S
  BY <1>1, <1>2
<1> QED
  BY <1>2, <1>3

\* A set that a step does not leave holds every state of a loop.
LEMMA Remains ==
  ASSUME NEW n \in Nat, NEW St, NEW run, run[0] \in St,
         \A i \in 1..n : run[i - 1] \in St => run[i] \in St
  PROVE  \A i \in 0..n : run[i] \in St
<1> DEFINE Good == {i \in 0..n : run[i] \in St}
<1>1. 0 \in Good /\ \A i \in 1..n : i - 1 \in Good => i \in Good
  OBVIOUS
<1> HIDE DEF Good
<1>2. \A i \in 0..n : i \in Good
  BY <1>1, Reaches
<1> QED
  BY <1>2 DEF Good

\* run lists the states of a loop over 1..n.
IsRun(run, first, n, step) ==
  run[0] = first /\ \A i \in 1..n : run[i] = step[<<run[i - 1], i>>]

\* A loop has its states, whatever its step does.
LEMMA Iterate ==
  ASSUME NEW St, NEW first \in St, NEW n \in Nat, NEW step \in [St \X (1..n) -> St]
  PROVE  \E run \in [0..n -> St] : IsRun(run, first, n, step)
<1> DEFINE Runs(m, run) == /\ run \in [0..m -> St]
                           /\ run[0] = first
                           /\ \A i \in 1..m : run[i] = step[<<run[i - 1], i>>]
           S == {m \in 0..n : \E run : Runs(m, run)}
<1>1. 0 \in S
  <2> DEFINE start == [i \in 0..0 |-> first]
  <2>1. Runs(0, start)
    OBVIOUS
  <2> HIDE DEF Runs, start
  <2> QED
    BY <2>1
<1>2. ASSUME NEW m \in 1..n, m - 1 \in S
      PROVE  m \in S
  <2>1. PICK run : Runs(m - 1, run)
    BY <1>2
  <2> DEFINE next == [i \in 0..m |-> IF i = m THEN step[<<run[m - 1], m>>] ELSE run[i]]
  <2>2. run[m - 1] \in St
    BY <2>1
  <2>3. next \in [0..m -> St] /\ next[0] = first
    BY <2>1, <2>2
  <2>4. next[m] = step[<<run[m - 1], m>>] /\ \A i \in 0..(m - 1) : next[i] = run[i]
    OBVIOUS
  <2> HIDE DEF next
  <2>5. ASSUME NEW i \in 1..m
        PROVE  next[i] = step[<<next[i - 1], i>>]
    <3>1. next[i - 1] = run[i - 1]
      BY <2>4
    <3>2. CASE i = m
      BY <2>4, <3>1, <3>2
    <3>3. CASE i \in 1..(m - 1)
      <4>1. next[i] = run[i] /\ run[i] = step[<<run[i - 1], i>>]
        BY <2>1, <2>4, <3>3
      <4> QED
        BY <3>1, <4>1
    <3> QED
      BY <3>2, <3>3
  <2>6. Runs(m, next)
    BY <2>3, <2>5
  <2> HIDE DEF Runs
  <2> QED
    BY <2>6
<1> HIDE DEF S
<1>3. n \in S
  BY <1>1, <1>2, Reaches
<1> QED
  BY <1>3 DEF S, IsRun

-----------------------------------------------------------------------------
(* Selections: lists of accepted keys and of refusals.                     *)

Refusals == [key : Keys, reason : Reasons]

Selections == [accepted : Seq(Keys), rejected : Seq(Refusals)]

Refused(sel) == {sel.rejected[i].key : i \in DOMAIN sel.rejected}

\* Every key of S has one verdict, and no other key has any.
Judged(sel, S) ==
  /\ sel \in Selections
  /\ IsInjective(sel.accepted)
  /\ \A i, j \in DOMAIN sel.rejected : sel.rejected[i].key = sel.rejected[j].key => i = j
  /\ ToSet(sel.accepted) \cap Refused(sel) = {}
  /\ ToSet(sel.accepted) \cup Refused(sel) = S

\* A list with one element more.
LEMMA AppendedList ==
  ASSUME NEW T, NEW list \in Seq(T), NEW x \in T
  PROVE  /\ Append(list, x) \in Seq(T)
         /\ DOMAIN list = 1..Len(list)
         /\ DOMAIN Append(list, x) = 1..(Len(list) + 1)
         /\ \A i \in 1..Len(list) : Append(list, x)[i] = list[i]
         /\ Append(list, x)[Len(list) + 1] = x
         /\ ToSet(Append(list, x)) = ToSet(list) \cup {x}
<1>1. /\ Append(list, x) \in Seq(T) /\ Len(list) \in Nat
      /\ DOMAIN list = 1..Len(list)
      /\ DOMAIN Append(list, x) = 1..(Len(list) + 1)
      /\ \A i \in 1..Len(list) : Append(list, x)[i] = list[i]
      /\ Append(list, x)[Len(list) + 1] = x
  BY AppendProperties, LenProperties
<1>2. 1..(Len(list) + 1) = 1..Len(list) \cup {Len(list) + 1}
  BY <1>1
<1>3. ToSet(Append(list, x)) = ToSet(list) \cup {x}
  BY <1>1, <1>2 DEF ToSet
<1> QED
  BY <1>1, <1>3

\* The lists after a verdict.
LEMMA AcceptAppends ==
  ASSUME NEW sel \in Selections, NEW k \in Keys
  PROVE  /\ Accept(sel, k) \in Selections
         /\ Accept(sel, k).accepted = Append(sel.accepted, k)
         /\ Accept(sel, k).rejected = sel.rejected
BY AppendedList DEF Selections, Accept

\* The same of a refusal.
LEMMA RejectAppends ==
  ASSUME NEW sel \in Selections, NEW k \in Keys, NEW reason \in Reasons
  PROVE  /\ Reject(sel, k, reason) \in Selections
         /\ Reject(sel, k, reason).accepted = sel.accepted
         /\ Reject(sel, k, reason).rejected
              = Append(sel.rejected, [key |-> k, reason |-> reason])
<1> DEFINE x == [key |-> k, reason |-> reason]
<1>1. Verdict(<<k>>, reason) = <<x>>
  BY DEF Verdict
<1>2. sel.rejected \in Seq(Refusals) /\ x \in Refusals
  BY DEF Selections, Refusals
<1>3. sel.rejected \o <<x>> = Append(sel.rejected, x) /\ Append(sel.rejected, x) \in Seq(Refusals)
  BY <1>2, AppendedList, AppendIsConcat
<1> HIDE DEF x
<1>4. Reject(sel, k, reason) = [sel EXCEPT !.rejected = Append(sel.rejected, x)]
  BY <1>1, <1>3 DEF Reject
<1>5. Reject(sel, k, reason) \in Selections
  BY <1>3, <1>4 DEF Selections
<1>6. /\ Reject(sel, k, reason).accepted = sel.accepted
      /\ Reject(sel, k, reason).rejected = Append(sel.rejected, x)
  BY <1>4 DEF Selections
<1> QED
  BY <1>5, <1>6 DEF x

\* An acceptance refuses nothing.
LEMMA AcceptRefuses ==
  ASSUME NEW sel \in Selections, NEW k \in Keys
  PROVE  Refused(Accept(sel, k)) = Refused(sel)
BY AcceptAppends DEF Refused

\* A refusal is added to those there are.
LEMMA RejectRefuses ==
  ASSUME NEW sel \in Selections, NEW k \in Keys, NEW reason \in Reasons
  PROVE  /\ Reject(sel, k, reason).accepted = sel.accepted
         /\ Refused(Reject(sel, k, reason)) = Refused(sel) \cup {k}
<1> DEFINE new == Reject(sel, k, reason)
           x   == [key |-> k, reason |-> reason]
           n   == Len(sel.rejected)
<1>1. new.rejected = Append(sel.rejected, x)
  BY RejectAppends
<1>2. sel.rejected \in Seq(Refusals) /\ x \in Refusals /\ x.key = k
  BY DEF Selections, Refusals
<1> HIDE DEF new, x
<1>3. /\ DOMAIN sel.rejected = 1..n /\ n \in Nat
      /\ DOMAIN new.rejected = 1..(n + 1)
      /\ \A i \in 1..n : new.rejected[i] = sel.rejected[i]
      /\ new.rejected[n + 1] = x
  BY <1>1, <1>2, AppendedList, LenProperties
<1> HIDE DEF n
<1>4. 1..(n + 1) = 1..n \cup {n + 1}
  BY <1>3
<1>5. Refused(new) = Refused(sel) \cup {k}
  BY <1>2, <1>3, <1>4 DEF Refused
<1> QED
  BY <1>5, RejectAppends DEF new

\* A key that has no verdict gets one.
LEMMA AcceptJudges ==
  ASSUME NEW sel, NEW S, Judged(sel, S), NEW k \in Keys \ S
  PROVE  Judged(Accept(sel, k), S \cup {k})
<1> DEFINE new == Accept(sel, k)
<1>1. /\ sel \in Selections /\ new \in Selections
      /\ new.accepted = Append(sel.accepted, k) /\ new.rejected = sel.rejected
  BY AcceptAppends DEF Judged
<1>2. sel.accepted \in Seq(Keys)
  BY <1>1 DEF Selections
<1> HIDE DEF new
<1>3. /\ DOMAIN sel.accepted = 1..Len(sel.accepted) /\ Len(sel.accepted) \in Nat
      /\ DOMAIN new.accepted = 1..(Len(sel.accepted) + 1)
      /\ \A i \in 1..Len(sel.accepted) : new.accepted[i] = sel.accepted[i]
      /\ new.accepted[Len(sel.accepted) + 1] = k
      /\ ToSet(new.accepted) = ToSet(sel.accepted) \cup {k}
  BY <1>1, <1>2, AppendedList, LenProperties
<1>4. IsInjective(new.accepted)
  <2>1. \A i \in 1..Len(sel.accepted) : sel.accepted[i] # k
    BY <1>3 DEF Judged, ToSet
  <2> QED
    BY <1>3, <2>1 DEF IsInjective, Judged
<1>5. Refused(new) = Refused(sel)
  BY <1>1 DEF Refused
<1>6. /\ ToSet(new.accepted) \cap Refused(new) = {}
      /\ ToSet(new.accepted) \cup Refused(new) = S \cup {k}
  BY <1>3, <1>5 DEF Judged
<1>7. \A i, j \in DOMAIN new.rejected : new.rejected[i].key = new.rejected[j].key => i = j
  BY <1>1 DEF Judged
<1> QED
  BY <1>1, <1>4, <1>6, <1>7 DEF Judged, new

\* The same of a refusal.
LEMMA RejectJudges ==
  ASSUME NEW sel, NEW S, Judged(sel, S), NEW k \in Keys \ S, NEW reason \in Reasons
  PROVE  Judged(Reject(sel, k, reason), S \cup {k})
<1> DEFINE new == Reject(sel, k, reason)
           x   == [key |-> k, reason |-> reason]
           n   == Len(sel.rejected)
<1>1. /\ sel \in Selections /\ new \in Selections
      /\ new.accepted = sel.accepted /\ new.rejected = Append(sel.rejected, x)
  BY RejectAppends DEF Judged
<1>2. sel.rejected \in Seq(Refusals) /\ x \in Refusals /\ x.key = k
  BY <1>1 DEF Selections, Refusals
<1> HIDE DEF new, x
<1>3. /\ DOMAIN sel.rejected = 1..n /\ n \in Nat
      /\ DOMAIN new.rejected = 1..(n + 1)
      /\ \A i \in 1..n : new.rejected[i] = sel.rejected[i]
      /\ new.rejected[n + 1] = x
  BY <1>1, <1>2, AppendedList, LenProperties
<1> HIDE DEF n
<1>4. Refused(new) = Refused(sel) \cup {k}
  BY <1>1, RejectRefuses DEF new
<1>5. \A i, j \in DOMAIN new.rejected : new.rejected[i].key = new.rejected[j].key => i = j
  <2>1. \A i \in 1..n : sel.rejected[i].key # k
    BY <1>3 DEF Judged, Refused
  <2> QED
    BY <1>2, <1>3, <2>1 DEF Judged
<1>6. /\ ToSet(new.accepted) \cap Refused(new) = {}
      /\ ToSet(new.accepted) \cup Refused(new) = S \cup {k}
  BY <1>1, <1>4 DEF Judged
<1>7. IsInjective(new.accepted)
  BY <1>1 DEF Judged
<1> QED
  BY <1>1, <1>5, <1>6, <1>7 DEF Judged, new

\* How a loop treats the key k.
Rules(old, k, new) ==
  \/ new = Accept(old, k)
  \/ \E reason \in Reasons : new = Reject(old, k, reason)

\* Either ruling gives a selection again.
LEMMA RulingIsASelection ==
  ASSUME NEW old \in Selections, NEW k \in Keys, NEW new, Rules(old, k, new)
  PROVE  new \in Selections
BY AcceptAppends, RejectAppends DEF Rules

\* A loop that rules on every key of a list gives each of them one verdict, and
\* takes none back.
LEMMA LoopJudges ==
  ASSUME NEW todo \in Seq(Keys), IsInjective(todo),
         NEW S, ToSet(todo) \cap S = {}, NEW sel, Judged(sel[0], S),
         \A i \in 1..Len(todo) : Rules(sel[i - 1], todo[i], sel[i])
  PROVE  /\ Judged(sel[Len(todo)], S \cup ToSet(todo))
         /\ Refused(sel[0]) \subseteq Refused(sel[Len(todo)])
<1> DEFINE n == Len(todo)
           done(i) == {todo[j] : j \in 1..i}
           Good == {i \in 0..n : /\ Judged(sel[i], S \cup done(i))
                                 /\ Refused(sel[0]) \subseteq Refused(sel[i])}
<1>1. n \in Nat /\ DOMAIN todo = 1..n /\ \A i \in 1..n : todo[i] \in Keys
  BY LenProperties
<1> HIDE DEF n
<1>2. 0 \in Good
  <2>1. S \cup done(0) = S
    OBVIOUS
  <2> HIDE DEF done
  <2>2. Judged(sel[0], S \cup done(0))
    BY <2>1
  <2>3. 0 \in 0..n
    BY <1>1
  <2> QED
    BY <2>2, <2>3
<1>3. ASSUME NEW i \in 1..n, i - 1 \in Good
      PROVE  i \in Good
  <2>1. todo[i] \in Keys \ (S \cup done(i - 1))
    <3>1. todo[i] \in Keys /\ todo[i] \in ToSet(todo)
      BY <1>1 DEF ToSet
    <3>2. \A j \in 1..(i - 1) : todo[j] # todo[i]
      BY <1>1 DEF IsInjective
    <3> QED
      BY <3>1, <3>2
  <2>2. done(i) = done(i - 1) \cup {todo[i]}
    <3>1. 1..i = 1..(i - 1) \cup {i}
      BY <1>1
    <3> QED
      BY <3>1
  <2>3. Judged(sel[i - 1], S \cup done(i - 1)) /\ Refused(sel[0]) \subseteq Refused(sel[i - 1])
    BY <1>3
  <2> HIDE DEF done
  <2>4. Rules(sel[i - 1], todo[i], sel[i])
    BY DEF n
  <2>5. Judged(sel[i], (S \cup done(i - 1)) \cup {todo[i]})
    BY <2>1, <2>3, <2>4, AcceptJudges, RejectJudges DEF Rules
  <2>6. Refused(sel[i - 1]) \subseteq Refused(sel[i])
    <3>1. sel[i - 1] \in Selections /\ todo[i] \in Keys
      BY <2>1, <2>3 DEF Judged
    <3>2. CASE sel[i] = Accept(sel[i - 1], todo[i])
      BY <3>1, <3>2, AcceptRefuses
    <3>3. CASE \E reason \in Reasons : sel[i] = Reject(sel[i - 1], todo[i], reason)
      BY <3>1, <3>3, RejectRefuses
    <3> QED
      BY <2>4, <3>2, <3>3 DEF Rules
  <2>7. i \in 0..n
    BY <1>1
  <2>8. S \cup done(i) = (S \cup done(i - 1)) \cup {todo[i]}
    BY <2>2
  <2> QED
    BY <2>3, <2>5, <2>6, <2>7, <2>8
<1> HIDE DEF Good
<1>4. n \in Good
  <2>1. \A i \in 0..n : i \in Good
    BY <1>1, <1>2, <1>3, Reaches
  <2> QED
    BY <1>1, <2>1
<1>5. ToSet(todo) = done(n)
  BY <1>1 DEF ToSet
<1> QED
  BY <1>4, <1>5 DEF Good, n

-----------------------------------------------------------------------------
(* The three loops.                                                        *)

\* select() accepts or refuses each object.
LEMMA JudgeRules ==
  ASSUME NEW sel, NEW k, NEW asked
  PROVE  Rules(sel, k, Judge(sel, k, asked))
BY DEF Judge, Rules, Reasons

\* Before the loop no key has a verdict.
LEMMA NothingIsASelection == Judged(Nothing, {})
<1>1. Nothing \in Selections
  BY EmptySeq DEF Nothing, Selections
<1>2. DOMAIN Nothing.accepted = {} /\ DOMAIN Nothing.rejected = {}
  BY EmptySeq DEF Nothing
<1> QED
  BY <1>1, <1>2 DEF Judged, Refused, ToSet, IsInjective

\* select() and the states of its loop.
LEMMA SelectRuns ==
  ASSUME NEW keys \in Seq(Keys), NEW asked
  PROVE  \E sel \in [0..Len(keys) -> Selections] :
           /\ sel[0] = Nothing
           /\ \A i \in 1..Len(keys) : sel[i] = Judge(sel[i - 1], keys[i], asked)
           /\ Select(keys, asked) = sel[Len(keys)]
<1> DEFINE n == Len(keys)
           step == [p \in Selections \X (1..n) |-> Judge(p[1], keys[p[2]], asked)]
           Is(f) == f = [i \in 0..n |-> IF i = 0 THEN Nothing ELSE Judge(f[i - 1], keys[i], asked)]
           sel == CHOOSE f : Is(f)
<1>1. n \in Nat /\ \A i \in 1..n : keys[i] \in Keys
  BY LenProperties
<1>2. Nothing \in Selections
  BY NothingIsASelection DEF Judged
<1>3. \A s \in Selections, i \in 1..n : Judge(s, keys[i], asked) \in Selections
  BY <1>1, JudgeRules, RulingIsASelection
<1>4. step \in [Selections \X (1..n) -> Selections]
  BY <1>3
<1>5. \A s \in Selections, i \in 1..n : step[<<s, i>>] = Judge(s, keys[i], asked)
  OBVIOUS
<1> HIDE DEF n, step
<1>6. PICK run \in [0..n -> Selections] : IsRun(run, Nothing, n, step)
  BY <1>1, <1>2, <1>4, Iterate, Zenon
<1>7. Is(run)
  <2>1. ASSUME NEW i \in 1..n
        PROVE  run[i] = Judge(run[i - 1], keys[i], asked)
    <3>1. i - 1 \in 0..n
      BY <1>1
    <3> QED
      BY <1>5, <1>6, <3>1 DEF IsRun
  <2> QED
    BY <1>1, <1>6, <2>1 DEF IsRun
<1>8. Is(sel)
  <2> HIDE DEF Is
  <2> QED
    BY <1>7
<1>9. Select(keys, asked) = sel[n]
  BY DEF Select, n
<1> HIDE DEF sel
<1>10. sel[0] = Nothing /\ \A i \in 1..n : sel[i] = Judge(sel[i - 1], keys[i], asked)
  BY <1>1, <1>8
<1>11. sel \in [0..n -> Selections]
  <2>1. sel[0] \in Selections
    BY <1>2, <1>10
  <2>2. \A i \in 1..n : sel[i - 1] \in Selections => sel[i] \in Selections
    BY <1>3, <1>10
  <2>3. \A i \in 0..n : sel[i] \in Selections
    BY <1>1, <2>1, <2>2, Remains
  <2> QED
    BY <1>8, <2>3
<1> QED
  BY <1>9, <1>10, <1>11 DEF n

\* What drop_known and the loop over the quota begin with.
LEMMA AgainIsASelection ==
  ASSUME NEW sel \in Selections
  PROVE  Again(sel) \in Selections /\ Again(sel).accepted = <<>> /\ Refused(Again(sel)) = Refused(sel)
<1>1. <<>> \in Seq(Keys)
  BY EmptySeq
<1> QED
  BY <1>1 DEF Again, Selections, Refused

\* The ruling of drop_known on a key.
RuleKnown(sel, k, known) == IF Etag[k] \in known THEN Reject(sel, k, "known") ELSE Accept(sel, k)

\* drop_known() and the states of its loop.
LEMMA DropRuns ==
  ASSUME NEW sel \in Selections, NEW known
  PROVE  \E run \in [0..Len(sel.accepted) -> Selections] :
           /\ run[0] = Again(sel)
           /\ \A i \in 1..Len(sel.accepted) : run[i] = RuleKnown(run[i - 1], sel.accepted[i], known)
           /\ DropKnown(sel, known) = run[Len(sel.accepted)]
<1> DEFINE n == Len(sel.accepted)
           step == [p \in Selections \X (1..n) |-> RuleKnown(p[1], sel.accepted[p[2]], known)]
           Is(f) == f = [i \in 0..n |-> IF i = 0 THEN Again(sel) ELSE RuleKnown(f[i - 1], sel.accepted[i], known)]
           run == CHOOSE f : Is(f)
<1>1. n \in Nat /\ \A i \in 1..n : sel.accepted[i] \in Keys
  BY LenProperties DEF Selections
<1>2. Again(sel) \in Selections
  BY AgainIsASelection
<1>3. \A s \in Selections, i \in 1..n : RuleKnown(s, sel.accepted[i], known) \in Selections
  BY <1>1, RulingIsASelection DEF Rules, RuleKnown, Reasons
<1>4. step \in [Selections \X (1..n) -> Selections]
  BY <1>3
<1>5. \A s \in Selections, i \in 1..n : step[<<s, i>>] = RuleKnown(s, sel.accepted[i], known)
  OBVIOUS
<1> HIDE DEF n, step
<1>6. PICK one \in [0..n -> Selections] : IsRun(one, Again(sel), n, step)
  BY <1>1, <1>2, <1>4, Iterate, Zenon
<1>7. Is(one)
  <2>1. ASSUME NEW i \in 1..n
        PROVE  one[i] = RuleKnown(one[i - 1], sel.accepted[i], known)
    <3>1. i - 1 \in 0..n
      BY <1>1
    <3> QED
      BY <1>5, <1>6, <3>1 DEF IsRun
  <2> QED
    BY <1>1, <1>6, <2>1 DEF IsRun
<1>8. Is(run)
  <2> HIDE DEF Is
  <2> QED
    BY <1>7
<1>9. DropKnown(sel, known) = run[n]
  BY DEF DropKnown, RuleKnown, n
<1> HIDE DEF run
<1>10. run[0] = Again(sel) /\ \A i \in 1..n : run[i] = RuleKnown(run[i - 1], sel.accepted[i], known)
  BY <1>1, <1>8
<1>11. run \in [0..n -> Selections]
  <2>1. run[0] \in Selections
    BY <1>2, <1>10
  <2>2. \A i \in 1..n : run[i - 1] \in Selections => run[i] \in Selections
    BY <1>3, <1>10
  <2>3. \A i \in 0..n : run[i] \in Selections
    BY <1>1, <2>1, <2>2, Remains
  <2> QED
    BY <1>8, <2>3
<1> QED
  BY <1>9, <1>10, <1>11 DEF n

\* The loop over the quota carries a selection and a number.
Weighings == [sel : Selections, used : Nat]

\* One object more of the loop over the quota.
LEMMA WeighRules ==
  ASSUME NEW s \in Weighings, NEW k \in Keys
  PROVE  /\ Weigh(s, k) \in Weighings
         /\ Weigh(s, k).used = s.used + Size[k]
         /\ Rules(s.sel, k, Weigh(s, k).sel)
         /\ s.used + Size[k] <= MaxBytes => Weigh(s, k).sel = Accept(s.sel, k)
         /\ s.used + Size[k] > MaxBytes => Weigh(s, k).sel = Reject(s.sel, k, "quota")
<1>1. s.sel \in Selections /\ s.used \in Nat /\ Size[k] \in Nat /\ MaxBytes \in Nat
  BY BucketAssumption DEF Weighings
<1>2. CASE s.used + Size[k] <= MaxBytes
  <2>1. Weigh(s, k) = [sel |-> Accept(s.sel, k), used |-> s.used + Size[k]]
    BY <1>1, <1>2 DEF Weigh
  <2>2. Accept(s.sel, k) \in Selections
    BY <1>1, AcceptAppends
  <2> QED
    BY <1>1, <1>2, <2>1, <2>2 DEF Weighings, Rules
<1>3. CASE s.used + Size[k] > MaxBytes
  <2>1. Weigh(s, k) = [sel |-> Reject(s.sel, k, "quota"), used |-> s.used + Size[k]]
    BY <1>1, <1>3 DEF Weigh
  <2>2. "quota" \in Reasons
    BY DEF Reasons
  <2>3. Reject(s.sel, k, "quota") \in Selections
    BY <1>1, <2>2, RejectAppends
  <2> QED
    BY <1>1, <1>3, <2>1, <2>2, <2>3 DEF Weighings, Rules
<1> QED
  BY <1>1, <1>2, <1>3

\* The loop over the quota and its states.
LEMMA QuotaRuns ==
  ASSUME NEW sel \in Selections, NEW used \in Nat
  PROVE  \E run \in [0..Len(sel.accepted) -> Weighings] :
           /\ run[0] = [sel |-> Again(sel), used |-> used]
           /\ \A i \in 1..Len(sel.accepted) : run[i] = Weigh(run[i - 1], sel.accepted[i])
           /\ FitQuota(sel, used) = run[Len(sel.accepted)].sel
<1> DEFINE n == Len(sel.accepted)
           step == [p \in Weighings \X (1..n) |-> Weigh(p[1], sel.accepted[p[2]])]
           Is(f) == f = [i \in 0..n |-> IF i = 0 THEN [sel |-> Again(sel), used |-> used] ELSE Weigh(f[i - 1], sel.accepted[i])]
           run == CHOOSE f : Is(f)
<1>1. n \in Nat /\ \A i \in 1..n : sel.accepted[i] \in Keys
  BY LenProperties DEF Selections
<1>2. [sel |-> Again(sel), used |-> used] \in Weighings
  BY AgainIsASelection DEF Weighings
<1>3. \A s \in Weighings, i \in 1..n : Weigh(s, sel.accepted[i]) \in Weighings
  BY <1>1, WeighRules
<1>4. step \in [Weighings \X (1..n) -> Weighings]
  BY <1>3
<1>5. \A s \in Weighings, i \in 1..n : step[<<s, i>>] = Weigh(s, sel.accepted[i])
  OBVIOUS
<1> HIDE DEF n, step
<1>6. PICK one \in [0..n -> Weighings] : IsRun(one, [sel |-> Again(sel), used |-> used], n, step)
  BY <1>1, <1>2, <1>4, Iterate, Zenon
<1>7. Is(one)
  <2>1. ASSUME NEW i \in 1..n
        PROVE  one[i] = Weigh(one[i - 1], sel.accepted[i])
    <3>1. i - 1 \in 0..n
      BY <1>1
    <3> QED
      BY <1>5, <1>6, <3>1 DEF IsRun
  <2> QED
    BY <1>1, <1>6, <2>1 DEF IsRun
<1>8. Is(run)
  <2> HIDE DEF Is
  <2> QED
    BY <1>7
<1>9. FitQuota(sel, used) = run[n].sel
  BY DEF FitQuota, n
<1> HIDE DEF run
<1>10. run[0] = [sel |-> Again(sel), used |-> used] /\ \A i \in 1..n : run[i] = Weigh(run[i - 1], sel.accepted[i])
  BY <1>1, <1>8
<1>11. run \in [0..n -> Weighings]
  <2>1. run[0] \in Weighings
    BY <1>2, <1>10
  <2>2. \A i \in 1..n : run[i - 1] \in Weighings => run[i] \in Weighings
    BY <1>3, <1>10
  <2>3. \A i \in 0..n : run[i] \in Weighings
    BY <1>1, <2>1, <2>2, Remains
  <2> QED
    BY <1>8, <2>3
<1> QED
  BY <1>9, <1>10, <1>11 DEF n

\* A list without the elements outside S, one element further.
Extend(part, k, S) == IF k \in S THEN Append(part, k) ELSE part

\* The parts of a list that Within takes.
LEMMA WithinRuns ==
  ASSUME NEW list \in Seq(Keys), NEW S
  PROVE  \E run \in [0..Len(list) -> Seq(Keys)] :
           /\ run[0] = <<>>
           /\ \A i \in 1..Len(list) : run[i] = Extend(run[i - 1], list[i], S)
           /\ Within(list, S) = run[Len(list)]
<1> DEFINE n == Len(list)
           step == [p \in Seq(Keys) \X (1..n) |-> Extend(p[1], list[p[2]], S)]
           Is(f) == f = [i \in 0..n |-> IF i = 0 THEN <<>> ELSE Extend(f[i - 1], list[i], S)]
           run == CHOOSE f : Is(f)
<1>1. n \in Nat /\ \A i \in 1..n : list[i] \in Keys
  BY LenProperties
<1>2. <<>> \in Seq(Keys)
  BY EmptySeq
<1>3. \A s \in Seq(Keys), i \in 1..n : Extend(s, list[i], S) \in Seq(Keys)
  BY <1>1, AppendedList DEF Extend
<1>4. step \in [Seq(Keys) \X (1..n) -> Seq(Keys)]
  BY <1>3
<1>5. \A s \in Seq(Keys), i \in 1..n : step[<<s, i>>] = Extend(s, list[i], S)
  OBVIOUS
<1> HIDE DEF n, step
<1>6. PICK one \in [0..n -> Seq(Keys)] : IsRun(one, <<>>, n, step)
  BY <1>1, <1>2, <1>4, Iterate, Zenon
<1>7. Is(one)
  <2>1. ASSUME NEW i \in 1..n
        PROVE  one[i] = Extend(one[i - 1], list[i], S)
    <3>1. i - 1 \in 0..n
      BY <1>1
    <3> QED
      BY <1>5, <1>6, <3>1 DEF IsRun
  <2> QED
    BY <1>1, <1>6, <2>1 DEF IsRun
<1>8. Is(run)
  <2> HIDE DEF Is
  <2> QED
    BY <1>7
<1>9. Within(list, S) = run[n]
  BY DEF Within, Extend, n
<1> HIDE DEF run
<1>10. run[0] = <<>> /\ \A i \in 1..n : run[i] = Extend(run[i - 1], list[i], S)
  BY <1>1, <1>8
<1>11. run \in [0..n -> Seq(Keys)]
  <2>1. run[0] \in Seq(Keys)
    BY <1>2, <1>10
  <2>2. \A i \in 1..n : run[i - 1] \in Seq(Keys) => run[i] \in Seq(Keys)
    BY <1>3, <1>10
  <2>3. \A i \in 0..n : run[i] \in Seq(Keys)
    BY <1>1, <2>1, <2>2, Remains
  <2> QED
    BY <1>8, <2>3
<1> QED
  BY <1>9, <1>10, <1>11 DEF n

-----------------------------------------------------------------------------
(* What comes out of them.                                                 *)

\* A new element leaves a list without repetition.
LEMMA AppendIsInjective ==
  ASSUME NEW T, NEW list \in Seq(T), IsInjective(list), NEW x \in T \ ToSet(list)
  PROVE  IsInjective(Append(list, x))
<1>1. /\ DOMAIN list = 1..Len(list) /\ Len(list) \in Nat
      /\ DOMAIN Append(list, x) = 1..(Len(list) + 1)
      /\ \A i \in 1..Len(list) : Append(list, x)[i] = list[i]
      /\ Append(list, x)[Len(list) + 1] = x
  BY AppendedList, LenProperties
<1>2. \A i \in 1..Len(list) : list[i] # x
  BY <1>1 DEF ToSet
<1> QED
  BY <1>1, <1>2 DEF IsInjective

\* Within takes the elements in S, each as often as it is there.
LEMMA WithinIsPart ==
  ASSUME NEW list \in Seq(Keys), IsInjective(list), NEW S
  PROVE  /\ Within(list, S) \in Seq(Keys)
         /\ ToSet(Within(list, S)) = ToSet(list) \cap S
         /\ IsInjective(Within(list, S))
<1> DEFINE n == Len(list)
           done(i) == {list[j] : j \in 1..i}
<1>1. PICK part \in [0..n -> Seq(Keys)] :
        /\ part[0] = <<>>
        /\ \A i \in 1..n : part[i] = Extend(part[i - 1], list[i], S)
        /\ Within(list, S) = part[n]
  BY WithinRuns
<1>2. n \in Nat /\ DOMAIN list = 1..n /\ \A i \in 1..n : list[i] \in Keys
  BY LenProperties
<1> HIDE DEF n
<1> DEFINE Good == {i \in 0..n : ToSet(part[i]) = done(i) \cap S /\ IsInjective(part[i])}
<1>3. 0 \in Good
  <2>1. DOMAIN part[0] = {}
    BY <1>1, EmptySeq
  <2>2. ToSet(part[0]) = {} /\ IsInjective(part[0])
    BY <2>1 DEF ToSet, IsInjective
  <2>3. done(0) \cap S = {}
    OBVIOUS
  <2> QED
    BY <1>2, <2>2, <2>3
<1>4. ASSUME NEW i \in 1..n, i - 1 \in Good
      PROVE  i \in Good
  <2>1. done(i) = done(i - 1) \cup {list[i]}
    <3>1. 1..i = 1..(i - 1) \cup {i}
      BY <1>2
    <3> QED
      BY <3>1
  <2>2. list[i] \in Keys \ done(i - 1)
    <3>1. ASSUME NEW j \in 1..(i - 1)
          PROVE  list[j] # list[i]
      <4>1. j \in DOMAIN list /\ i \in DOMAIN list /\ j # i
        BY <1>2
      <4> QED
        BY <4>1 DEF IsInjective
    <3> QED
      BY <1>2, <3>1
  <2>3. part[i - 1] \in Seq(Keys) /\ part[i] = Extend(part[i - 1], list[i], S)
    BY <1>1, <1>2
  <2>4. ToSet(part[i - 1]) = done(i - 1) \cap S /\ IsInjective(part[i - 1])
    BY <1>4
  <2> HIDE DEF done
  <2>5. CASE list[i] \in S
    <3>1. part[i] = Append(part[i - 1], list[i])
      BY <2>3, <2>5 DEF Extend
    <3>2. ToSet(part[i]) = ToSet(part[i - 1]) \cup {list[i]}
      BY <2>2, <2>3, <3>1, AppendedList
    <3>3. IsInjective(part[i])
      BY <2>2, <2>3, <2>4, <3>1, AppendIsInjective
    <3>4. ToSet(part[i]) = done(i) \cap S
      BY <2>1, <2>4, <2>5, <3>2
    <3> QED
      BY <1>2, <3>3, <3>4
  <2>6. CASE list[i] \notin S
    <3>1. part[i] = part[i - 1]
      BY <2>3, <2>6 DEF Extend
    <3>2. done(i) \cap S = done(i - 1) \cap S
      BY <2>1, <2>6
    <3> QED
      BY <1>2, <2>4, <3>1, <3>2
  <2> QED
    BY <2>5, <2>6
<1> HIDE DEF Good
<1>5. \A i \in 0..n : i \in Good
  BY <1>2, <1>3, <1>4, Reaches
<1>6. n \in 0..n /\ ToSet(list) = done(n)
  BY <1>2 DEF ToSet
<1> QED
  BY <1>1, <1>5, <1>6 DEF Good

\* Keys with different contents.
Differ(S) == \A k, l \in S : Etag[k] = Etag[l] => k = l

\* select() gives every key its verdict.  What it accepts fits and differs, and
\* while the limit is not reached an object that fits is accepted, or equals
\* one that is.
LEMMA SelectIsSound ==
  ASSUME NEW keys \in Seq(Keys), IsInjective(keys), NEW asked
  PROVE  /\ Judged(Select(keys, asked), ToSet(keys))
         /\ Differ(ToSet(Select(keys, asked).accepted))
         /\ \A k \in ToSet(Select(keys, asked).accepted) : Fit(k, asked)
         /\ \A k \in ToSet(keys) : Fit(k, asked) =>
              \/ \E a \in ToSet(Select(keys, asked).accepted) : Etag[a] = Etag[k]
              \/ Len(Select(keys, asked).accepted) >= MaxFiles
<1> DEFINE n == Len(keys)
<1>1. PICK sel \in [0..n -> Selections] :
        /\ sel[0] = Nothing
        /\ \A i \in 1..n : sel[i] = Judge(sel[i - 1], keys[i], asked)
        /\ Select(keys, asked) = sel[n]
  BY SelectRuns
<1>2. n \in Nat /\ DOMAIN keys = 1..n /\ \A i \in 1..n : keys[i] \in Keys
  BY LenProperties
<1>3. ToSet(keys) = {keys[j] : j \in 1..n}
  BY <1>2 DEF ToSet
<1>4. Judged(sel[n], ToSet(keys))
  <2>1. Judged(sel[0], {})
    BY <1>1, NothingIsASelection
  <2>2. \A i \in 1..n : Rules(sel[i - 1], keys[i], sel[i])
    BY <1>1, JudgeRules
  <2>3. Judged(sel[n], {} \cup ToSet(keys))
    <3>1. ToSet(keys) \cap {} = {}
      OBVIOUS
    <3> QED
      BY <2>1, <2>2, <3>1, LoopJudges
  <2>4. {} \cup ToSet(keys) = ToSet(keys)
    OBVIOUS
  <2> QED
    BY <2>3, <2>4
<1> HIDE DEF n
<1> DEFINE Covers(s, k) == \/ \E a \in ToSet(s.accepted) : Etag[a] = Etag[k]
                           \/ Len(s.accepted) >= MaxFiles
           Good == {i \in 0..n : /\ Differ(ToSet(sel[i].accepted))
                                 /\ \A k \in ToSet(sel[i].accepted) : Fit(k, asked)
                                 /\ \A j \in 1..i : Fit(keys[j], asked) => Covers(sel[i], keys[j])}
<1>5. 0 \in Good
  <2>1. ToSet(sel[0].accepted) = {}
    BY <1>1, EmptySeq DEF Nothing, ToSet
  <2> QED
    BY <1>2, <2>1 DEF Differ
<1>6. ASSUME NEW i \in 1..n, i - 1 \in Good
      PROVE  i \in Good
  <2> DEFINE old == sel[i - 1]
             new == sel[i]
             k   == keys[i]
  <2>1. old \in Selections /\ k \in Keys /\ new = Judge(old, k, asked) /\ i \in 0..n
    BY <1>1, <1>2
  <2>2. /\ Differ(ToSet(old.accepted)) /\ \A a \in ToSet(old.accepted) : Fit(a, asked)
        /\ \A j \in 1..(i - 1) : Fit(keys[j], asked) => Covers(old, keys[j])
    BY <1>6
  <2>3. MaxFiles \in Nat /\ old.accepted \in Seq(Keys)
    BY <2>1, BucketAssumption DEF Selections
  <2> HIDE DEF old, new, k
  <2>4. CASE new = Accept(old, k) /\ Fit(k, asked) /\ \A a \in ToSet(old.accepted) : Etag[a] # Etag[k]
    <3>0. new.accepted = Append(old.accepted, k)
      BY <2>1, <2>4, AcceptAppends
    <3>1. /\ ToSet(new.accepted) = ToSet(old.accepted) \cup {k}
          /\ Len(new.accepted) = Len(old.accepted) + 1 /\ Len(old.accepted) \in Nat
      BY <2>1, <2>3, <3>0, AppendedList, AppendProperties, LenProperties
    <3>2. Differ(ToSet(new.accepted)) /\ \A a \in ToSet(new.accepted) : Fit(a, asked)
      BY <2>2, <2>4, <3>1 DEF Differ
    <3>3. \A j \in 1..(i - 1) : Fit(keys[j], asked) => Covers(new, keys[j])
      BY <2>2, <2>3, <3>1
    <3>4. Covers(new, keys[i])
      BY <3>1 DEF k
    <3>5. \A j \in 1..i : Fit(keys[j], asked) => Covers(new, keys[j])
      BY <1>2, <3>3, <3>4
    <3> QED
      BY <2>1, <3>2, <3>5 DEF new
  <2>5. ASSUME NEW reason \in Reasons, new = Reject(old, k, reason), Fit(k, asked) => Covers(old, k)
        PROVE  i \in Good
    <3>1. new.accepted = old.accepted
      BY <2>1, <2>5, RejectRefuses
    <3>2. \A j \in 1..i : Fit(keys[j], asked) => Covers(new, keys[j])
      BY <1>2, <2>2, <2>5, <3>1 DEF k
    <3> QED
      BY <2>1, <2>2, <3>1, <3>2 DEF new
  <2>6. {"unfit", "limit", "duplicate"} \subseteq Reasons
    BY DEF Reasons
  <2> QED
    BY <2>1, <2>4, <2>5, <2>6 DEF Judge
<1> HIDE DEF Good
<1>7. n \in Good
  <2>1. \A i \in 0..n : i \in Good
    BY <1>2, <1>5, <1>6, Reaches
  <2> QED
    BY <1>2, <2>1
<1>8. Select(keys, asked) = sel[n] /\ \A k \in ToSet(keys) : \E j \in 1..n : k = keys[j]
  BY <1>1, <1>3
<1> QED
  BY <1>4, <1>7, <1>8 DEF Good

\* A loop that begins with nothing accepted accepts just the keys of P.
LEMMA LoopAccepts ==
  ASSUME NEW todo \in Seq(Keys), NEW P, NEW sel,
         \A i \in 0..Len(todo) : sel[i] \in Selections, sel[0].accepted = <<>>,
         \A i \in 1..Len(todo) :
           \/ todo[i] \in P /\ sel[i] = Accept(sel[i - 1], todo[i])
           \/ todo[i] \notin P /\ \E reason \in Reasons : sel[i] = Reject(sel[i - 1], todo[i], reason)
  PROVE  /\ \A i \in 0..Len(todo) : ToSet(sel[i].accepted) = {todo[j] : j \in 1..i} \cap P
         /\ ToSet(sel[Len(todo)].accepted) = ToSet(todo) \cap P
<1> DEFINE n == Len(todo)
           done(i) == {todo[j] : j \in 1..i}
           Good == {i \in 0..n : ToSet(sel[i].accepted) = done(i) \cap P}
<1>1. n \in Nat /\ DOMAIN todo = 1..n /\ \A i \in 1..n : todo[i] \in Keys
  BY LenProperties
<1> HIDE DEF n
<1>2. 0 \in Good
  <2>1. ToSet(sel[0].accepted) = {}
    BY EmptySeq DEF ToSet
  <2>2. done(0) \cap P = {}
    OBVIOUS
  <2> QED
    BY <1>1, <2>1, <2>2
<1>3. ASSUME NEW i \in 1..n, i - 1 \in Good
      PROVE  i \in Good
  <2>1. done(i) = done(i - 1) \cup {todo[i]}
    <3>1. 1..i = 1..(i - 1) \cup {i}
      BY <1>1
    <3> QED
      BY <3>1
  <2>2. i \in 0..n /\ i - 1 \in 0..n /\ todo[i] \in Keys
    BY <1>1
  <2>3. sel[i - 1] \in Selections /\ ToSet(sel[i - 1].accepted) = done(i - 1) \cap P
    BY <1>3, <2>2 DEF n
  <2> HIDE DEF done
  <2>4. CASE todo[i] \in P /\ sel[i] = Accept(sel[i - 1], todo[i])
    <3>1. ToSet(sel[i].accepted) = ToSet(sel[i - 1].accepted) \cup {todo[i]}
      <4>1. sel[i].accepted = Append(sel[i - 1].accepted, todo[i]) /\ sel[i - 1].accepted \in Seq(Keys)
        BY <2>2, <2>3, <2>4, AcceptAppends DEF Selections
      <4> QED
        BY <2>2, <4>1, AppendedList
    <3>2. ToSet(sel[i].accepted) = done(i) \cap P
      BY <2>1, <2>3, <2>4, <3>1
    <3> QED
      BY <2>2, <3>2
  <2>5. CASE todo[i] \notin P /\ \E reason \in Reasons : sel[i] = Reject(sel[i - 1], todo[i], reason)
    <3>1. sel[i].accepted = sel[i - 1].accepted
      BY <2>2, <2>3, <2>5, RejectRefuses
    <3>2. ToSet(sel[i].accepted) = done(i) \cap P
      BY <2>1, <2>3, <2>5, <3>1
    <3> QED
      BY <2>2, <3>2
  <2> QED
    BY <2>4, <2>5 DEF n
<1> HIDE DEF Good
<1>4. \A i \in 0..n : i \in Good
  BY <1>1, <1>2, <1>3, Reaches
<1>5. n \in Good /\ done(n) = ToSet(todo)
  BY <1>1, <1>4 DEF ToSet
<1> QED
  BY <1>4, <1>5 DEF Good, n

\* A loop over what was accepted leaves every key its one verdict.
LEMMA AgainJudges ==
  ASSUME NEW sel, NEW S, Judged(sel, S), NEW run, run[0] = Again(sel),
         \A i \in 1..Len(sel.accepted) : Rules(run[i - 1], sel.accepted[i], run[i])
  PROVE  Judged(run[Len(sel.accepted)], S)
<1>1. sel \in Selections /\ sel.accepted \in Seq(Keys) /\ IsInjective(sel.accepted)
  BY DEF Judged, Selections
<1>2. Judged(Again(sel), Refused(sel))
  <2>1. /\ Again(sel) \in Selections /\ Again(sel).accepted = <<>>
        /\ Refused(Again(sel)) = Refused(sel) /\ Again(sel).rejected = sel.rejected
    BY <1>1, AgainIsASelection DEF Again, Selections
  <2>2. ToSet(Again(sel).accepted) = {} /\ IsInjective(Again(sel).accepted)
    BY <2>1, EmptySeq DEF ToSet, IsInjective
  <2> QED
    BY <2>1, <2>2 DEF Judged
<1>3. ToSet(sel.accepted) \cap Refused(sel) = {} /\ Refused(sel) \cup ToSet(sel.accepted) = S
  BY DEF Judged
<1>4. Judged(run[Len(sel.accepted)], Refused(sel) \cup ToSet(sel.accepted))
  BY <1>1, <1>2, <1>3, LoopJudges
<1> QED
  BY <1>3, <1>4

\* drop_known() keeps what is not known.
LEMMA DropIsSound ==
  ASSUME NEW sel, NEW S, Judged(sel, S), NEW known
  PROVE  /\ Judged(DropKnown(sel, known), S)
         /\ ToSet(DropKnown(sel, known).accepted) = {k \in ToSet(sel.accepted) : Etag[k] \notin known}
<1> DEFINE todo == sel.accepted
           n == Len(todo)
           P == {k \in Keys : Etag[k] \notin known}
<1>1. sel \in Selections /\ todo \in Seq(Keys)
  BY DEF Judged, Selections
<1>2. n \in Nat /\ DOMAIN todo = 1..n /\ \A i \in 1..n : todo[i] \in Keys
  BY <1>1, LenProperties
<1>3. PICK run \in [0..n -> Selections] :
        /\ run[0] = Again(sel)
        /\ \A i \in 1..n : run[i] = RuleKnown(run[i - 1], todo[i], known)
        /\ DropKnown(sel, known) = run[n]
  BY <1>1, DropRuns
<1>4. \A i \in 1..n : \/ todo[i] \in P /\ run[i] = Accept(run[i - 1], todo[i])
                      \/ todo[i] \notin P /\ run[i] = Reject(run[i - 1], todo[i], "known")
  BY <1>2, <1>3 DEF RuleKnown
<1>5. "known" \in Reasons
  BY DEF Reasons
<1> HIDE DEF P
<1>6. Judged(run[n], S)
  <2>1. \A i \in 1..n : Rules(run[i - 1], todo[i], run[i])
    BY <1>4, <1>5 DEF Rules
  <2> QED
    BY <1>3, <2>1, AgainJudges
<1>7. ToSet(run[n].accepted) = ToSet(todo) \cap P
  <2>1. run[0].accepted = <<>> /\ \A i \in 0..n : run[i] \in Selections
    BY <1>1, <1>3, AgainIsASelection
  <2>2. \A i \in 1..n :
          \/ todo[i] \in P /\ run[i] = Accept(run[i - 1], todo[i])
          \/ todo[i] \notin P /\ \E reason \in Reasons : run[i] = Reject(run[i - 1], todo[i], reason)
    BY <1>4, <1>5
  <2> HIDE DEF todo
  <2> QED
    BY <1>1, <2>1, <2>2, LoopAccepts
<1>8. ToSet(todo) \in SUBSET Keys
  BY <1>2 DEF ToSet
<1> QED
  BY <1>3, <1>6, <1>7, <1>8 DEF P

-----------------------------------------------------------------------------
(* The size of a set of objects: what a fold over it adds up to.           *)

Some(S) == CHOOSE x \in S : TRUE

SomeSize(S, f) == IF S = {} THEN 0 ELSE Size[Some(S)] + f[S \ {Some(S)}]

\* f adds up the sizes of the subsets of S.
IsSum(f, S) == f = [s \in SUBSET S |-> SomeSize(s, f)]

\* The listing is a list, so the keys are finite.
LEMMA KeysAreFinite == IsFiniteSet(Keys)
<1>1. Listing \in Seq(Keys) /\ IsInjective(Listing)
  BY BucketAssumption
<1>2. Len(Listing) \in Nat /\ DOMAIN Listing = 1..Len(Listing)
  BY <1>1, LenProperties
<1>3. Listing \in [1..Len(Listing) -> Keys] /\ \A k \in Keys : \E i \in 1..Len(Listing) : Listing[i] = k
  BY <1>1, <1>2 DEF Keys, Range
<1>4. Listing \in Surjection(1..Len(Listing), Keys)
  BY <1>3 DEF Surjection
<1>5. IsFiniteSet(1..Len(Listing))
  BY <1>2, FS_Interval
<1> QED
  BY <1>4, <1>5, FS_Surjection

\* So is every set of them.
LEMMA SetsOfKeysAreFinite ==
  ASSUME NEW S \in SUBSET Keys
  PROVE  IsFiniteSet(S) /\ Cardinality(S) \in Nat
BY KeysAreFinite, FS_Subset, FS_CardinalityType

\* A set without one of its keys.
LEMMA OneLess ==
  ASSUME NEW S \in SUBSET Keys, NEW k \in S
  PROVE  S \ {k} \in SUBSET Keys /\ Cardinality(S \ {k}) = Cardinality(S) - 1
BY SetsOfKeysAreFinite, FS_RemoveElement

\* A set that is not empty has the key the fold takes.
LEMMA SomeIsThere ==
  ASSUME NEW S \in SUBSET Keys, S # {}
  PROVE  Some(S) \in S /\ Size[Some(S)] \in Nat
<1>1. Some(S) \in S
  BY DEF Some
<1> QED
  BY <1>1, BucketAssumption

\* Of the sets that would break a rule there is a smallest.
LEMMA SmallestExists ==
  ASSUME NEW C \in SUBSET SUBSET Keys, C # {}
  PROVE  \E S \in C : \A T \in C : Cardinality(S) <= Cardinality(T)
<1> DEFINE N == {Cardinality(S) : S \in C}
<1>1. N \in SUBSET Nat /\ N # {}
  BY SetsOfKeysAreFinite
<1>2. PICK m \in N : \A k \in N : m <= k
  BY <1>1, LeastExists
<1> QED
  BY <1>2

\* Sums exist: approximated for one more element at a time.
LEMMA SumExists ==
  ASSUME NEW S \in SUBSET Keys
  PROVE  \E f \in [SUBSET S -> Nat] : IsSum(f, S)
<1> DEFINE N == Cardinality(S)
           St == [SUBSET S -> Nat]
           zero == [s \in SUBSET S |-> 0]
           more(f) == [s \in SUBSET S |-> SomeSize(s, f)]
           step == [p \in St \X (1..N) |-> more(p[1])]
<1>1. N \in Nat /\ zero \in St
  BY SetsOfKeysAreFinite
<1>2. \A f \in St : more(f) \in St
  <2> SUFFICES ASSUME NEW f \in St, NEW s \in SUBSET S
               PROVE  SomeSize(s, f) \in Nat
    OBVIOUS
  <2>1. CASE s = {}
    BY <2>1 DEF SomeSize
  <2>2. CASE s # {}
    <3>1. Size[Some(s)] \in Nat /\ s \ {Some(s)} \in SUBSET S
      BY <2>2, SomeIsThere
    <3> QED
      BY <2>2, <3>1 DEF SomeSize
  <2> QED
    BY <2>1, <2>2
<1>3. step \in [St \X (1..N) -> St] /\ \A f \in St, i \in 1..N : step[<<f, i>>] = more(f)
  BY <1>2
<1> HIDE DEF N, St, zero, more, step
<1>4. PICK run \in [0..N -> St] : IsRun(run, zero, N, step)
  BY <1>1, <1>3, Iterate, Zenon
<1>5. ASSUME NEW i \in 1..N
      PROVE  run[i] = more(run[i - 1])
  <2>1. i - 1 \in 0..N /\ i \in 0..N
    BY <1>1
  <2> QED
    BY <1>3, <1>4, <2>1 DEF IsRun
<1> DEFINE Stable(i) == \A s \in SUBSET S : Cardinality(s) <= i => more(run[i])[s] = run[i][s]
           Good == {i \in 0..N : Stable(i)}
<1>6. 0 \in Good
  <2>1. \A s \in SUBSET S : Cardinality(s) <= 0 => s = {}
    <3>1. \A s \in SUBSET S : IsFiniteSet(s) /\ Cardinality(s) \in Nat
      BY SetsOfKeysAreFinite
    <3> QED
      BY <3>1, FS_EmptySet
  <2>2. run[0][{}] = 0
    BY <1>4 DEF IsRun, zero
  <2>3. more(run[0])[{}] = 0
    BY DEF more, SomeSize
  <2> QED
    BY <1>1, <2>1, <2>2, <2>3
<1>7. ASSUME NEW i \in 1..N, i - 1 \in Good
      PROVE  i \in Good
  <2>0. i \in 0..N /\ i - 1 \in 0..N
    BY <1>1
  <2>1. run[i] = more(run[i - 1]) /\ Stable(i - 1)
    BY <1>5, <1>7
  <2>2. ASSUME NEW s \in SUBSET S, Cardinality(s) <= i
        PROVE  SomeSize(s, run[i]) = run[i][s]
    <3>1. run[i][s] = SomeSize(s, run[i - 1])
      BY <2>1 DEF more
    <3>2. CASE s = {}
      BY <3>1, <3>2 DEF SomeSize
    <3>3. CASE s # {}
      <4> DEFINE t == s \ {Some(s)}
      <4>1. t \in SUBSET S /\ Cardinality(t) <= i - 1
        <5>1. Some(s) \in s /\ s \in SUBSET Keys
          BY <3>3, SomeIsThere
        <5>2. Cardinality(t) = Cardinality(s) - 1 /\ Cardinality(s) \in Nat
          BY <5>1, OneLess, SetsOfKeysAreFinite
        <5> QED
          BY <2>2, <5>2
      <4>2. run[i][t] = run[i - 1][t]
        BY <2>1, <4>1
      <4> QED
        BY <3>1, <3>3, <4>2 DEF SomeSize
    <3> QED
      BY <3>2, <3>3
  <2>3. Stable(i)
    BY <2>2 DEF more
  <2> QED
    BY <2>0, <2>3
<1> HIDE DEF Good, Stable
<1>8. \A i \in 0..N : i \in Good
  BY <1>1, <1>6, <1>7, Reaches
<1>9. Stable(N)
  BY <1>1, <1>8 DEF Good
<1>10. more(run[N]) = run[N]
  <2>1. \A s \in SUBSET S : Cardinality(s) <= N
    BY SetsOfKeysAreFinite, FS_Subset DEF N
  <2>2. \A s \in SUBSET S : more(run[N])[s] = run[N][s]
    BY <1>9, <2>1 DEF Stable
  <2>3. run[N] \in St /\ more(run[N]) \in St
    BY <1>1, <1>2, <1>4
  <2> QED
    BY <2>2, <2>3 DEF St
<1>11. run[N] \in St
  BY <1>1, <1>4
<1>12. IsSum(run[N], S)
  BY <1>10 DEF IsSum, more
<1> QED
  BY <1>11, <1>12 DEF St

\* The sum over a set does not depend on the set it is a subset of.
LEMMA SumsAgree ==
  ASSUME NEW S \in SUBSET Keys, NEW T \in SUBSET S,
         NEW f, IsSum(f, S), NEW g, IsSum(g, T)
  PROVE  \A s \in SUBSET T : f[s] = g[s]
<1> DEFINE Bad == {s \in SUBSET T : f[s] # g[s]}
<1> SUFFICES ASSUME Bad # {}
             PROVE  FALSE
  OBVIOUS
<1>1. PICK s \in Bad : \A t \in Bad : Cardinality(s) <= Cardinality(t)
  <2>1. Bad \in SUBSET SUBSET Keys
    OBVIOUS
  <2> QED
    BY <2>1, SmallestExists
<1>2. s \in SUBSET T /\ s \in SUBSET S /\ s \in SUBSET Keys /\ f[s] # g[s]
  OBVIOUS
<1>3. f[s] = SomeSize(s, f) /\ g[s] = SomeSize(s, g)
  BY <1>2 DEF IsSum
<1>4. s # {}
  BY <1>2, <1>3 DEF SomeSize
<1> DEFINE t == s \ {Some(s)}
<1>5. Cardinality(t) = Cardinality(s) - 1 /\ Cardinality(s) \in Nat /\ t \in SUBSET T
  BY <1>2, <1>4, SomeIsThere, OneLess, SetsOfKeysAreFinite
<1>6. f[t] # g[t]
  BY <1>2, <1>3, <1>4 DEF SomeSize
<1>7. t \in Bad
  BY <1>5, <1>6
<1>8. Cardinality(s) <= Cardinality(t)
  BY <1>1, <1>7
<1> QED
  BY <1>5, <1>8

\* The fold takes one element after the other.
LEMMA TotalSizeIsSum ==
  ASSUME NEW S \in SUBSET Keys
  PROVE  \E f \in [SUBSET S -> Nat] : IsSum(f, S) /\ TotalSize(S) = f[S]
<1> DEFINE fold == CHOOSE f : IsSum(f, S)
<1>1. PICK f \in [SUBSET S -> Nat] : IsSum(f, S)
  BY SumExists
<1>2. IsSum(fold, S)
  BY <1>1
<1>3. TotalSize(S) = fold[S]
  BY DEF TotalSize, FoldFunctionOnSet, MapThenFoldSet, IsSum, SomeSize, Some
<1> HIDE DEF fold
<1>4. \A s \in SUBSET S : fold[s] = f[s]
  BY <1>1, <1>2, SumsAgree
<1> QED
  BY <1>1, <1>3, <1>4

\* The fold is a number: nothing for the empty set, else the size of the key it
\* takes beside the rest.
LEMMA TotalSizeSteps ==
  ASSUME NEW S \in SUBSET Keys
  PROVE  /\ TotalSize(S) \in Nat
         /\ S = {} => TotalSize(S) = 0
         /\ S # {} => TotalSize(S) = Size[Some(S)] + TotalSize(S \ {Some(S)})
<1>1. PICK f \in [SUBSET S -> Nat] : IsSum(f, S) /\ TotalSize(S) = f[S]
  BY TotalSizeIsSum
<1>2. f[S] = SomeSize(S, f)
  BY <1>1 DEF IsSum
<1>3. ASSUME S # {}
      PROVE  f[S \ {Some(S)}] = TotalSize(S \ {Some(S)})
  <2> DEFINE T == S \ {Some(S)}
  <2>1. T \in SUBSET S /\ T \in SUBSET Keys
    OBVIOUS
  <2> HIDE DEF T
  <2>2. PICK g \in [SUBSET T -> Nat] : IsSum(g, T) /\ TotalSize(T) = g[T]
    BY <2>1, TotalSizeIsSum
  <2>3. f[T] = g[T]
    BY <1>1, <2>1, <2>2, SumsAgree
  <2> QED
    BY <2>2, <2>3 DEF T
<1> QED
  BY <1>1, <1>2, <1>3 DEF SomeSize

\* Whichever element is taken away, the rest is less by its size.
LEMMA TotalSizeLess ==
  ASSUME NEW S \in SUBSET Keys, NEW k \in S
  PROVE  TotalSize(S) = Size[k] + TotalSize(S \ {k})
<1> DEFINE Bad == {s \in SUBSET Keys : \E x \in s : TotalSize(s) # Size[x] + TotalSize(s \ {x})}
<1> SUFFICES ASSUME Bad # {}
             PROVE  FALSE
  OBVIOUS
<1>1. PICK s \in Bad : \A t \in Bad : Cardinality(s) <= Cardinality(t)
  BY SmallestExists
<1>2. PICK x \in s : TotalSize(s) # Size[x] + TotalSize(s \ {x})
  OBVIOUS
<1> DEFINE y == Some(s)
<1>3. /\ s \in SUBSET Keys /\ s # {} /\ y \in s
      /\ TotalSize(s) = Size[y] + TotalSize(s \ {y})
  BY SomeIsThere, TotalSizeSteps
<1>4. x # y
  BY <1>2, <1>3
<1>5. /\ s \ {x} \in SUBSET Keys /\ s \ {y} \in SUBSET Keys
      /\ Cardinality(s \ {x}) = Cardinality(s) - 1 /\ Cardinality(s \ {y}) = Cardinality(s) - 1
      /\ Cardinality(s) \in Nat
  BY <1>3, OneLess, SetsOfKeysAreFinite
<1> HIDE DEF Bad, y
<1>6. s \ {x} \notin Bad /\ s \ {y} \notin Bad
  BY <1>1, <1>5
<1>7. /\ TotalSize(s \ {x}) = Size[y] + TotalSize((s \ {x}) \ {y})
      /\ TotalSize(s \ {y}) = Size[x] + TotalSize((s \ {y}) \ {x})
  BY <1>2, <1>3, <1>4, <1>5, <1>6 DEF Bad
<1>8. TotalSize((s \ {x}) \ {y}) = TotalSize((s \ {y}) \ {x})
  <2> DEFINE l == (s \ {x}) \ {y}
             r == (s \ {y}) \ {x}
  <2>1. l = r
    OBVIOUS
  <2> HIDE DEF l, r
  <2>2. TotalSize(l) = TotalSize(r)
    BY <2>1
  <2> QED
    BY <2>2 DEF l, r
<1>9. /\ Size[x] \in Nat /\ Size[y] \in Nat
      /\ TotalSize((s \ {y}) \ {x}) \in Nat
  <2>1. (s \ {y}) \ {x} \in SUBSET Keys
    BY <1>3
  <2> QED
    BY <1>2, <1>3, <2>1, TotalSizeSteps, BucketAssumption
<1> QED
  BY <1>2, <1>3, <1>7, <1>8, <1>9

\* A further key adds its size.
LEMMA TotalSizeMore ==
  ASSUME NEW S \in SUBSET Keys, NEW k \in Keys \ S
  PROVE  TotalSize(S \cup {k}) = TotalSize(S) + Size[k]
<1> DEFINE more == S \cup {k}
           rest == more \ {k}
<1>1. more \in SUBSET Keys /\ k \in more /\ rest = S
  OBVIOUS
<1>2. TotalSize(S) \in Nat /\ Size[k] \in Nat
  BY TotalSizeSteps, BucketAssumption
<1>3. TotalSize(more) = Size[k] + TotalSize(rest)
  <2> HIDE DEF more
  <2> QED
    BY <1>1, TotalSizeLess
<1> HIDE DEF more, rest
<1>4. TotalSize(more) = TotalSize(S) + Size[k]
  BY <1>1, <1>2, <1>3
<1> QED
  BY <1>4 DEF more

\* What is in less takes less room.
LEMMA TotalSizeMonotone ==
  ASSUME NEW S \in SUBSET Keys, NEW T \in SUBSET S
  PROVE  TotalSize(T) <= TotalSize(S)
<1> DEFINE Bad == {s \in SUBSET S : T \subseteq s /\ ~(TotalSize(T) <= TotalSize(s))}
<1> SUFFICES ASSUME Bad # {}
             PROVE  FALSE
  OBVIOUS
<1>1. PICK s \in Bad : \A t \in Bad : Cardinality(s) <= Cardinality(t)
  <2>1. Bad \in SUBSET SUBSET Keys
    OBVIOUS
  <2> QED
    BY <2>1, SmallestExists
<1>2. s \in SUBSET Keys /\ T \in SUBSET Keys /\ TotalSize(T) \in Nat /\ TotalSize(s) \in Nat
  BY TotalSizeSteps
<1>3. PICK k \in s : k \notin T
  BY <1>2
<1>4. /\ TotalSize(s) = Size[k] + TotalSize(s \ {k}) /\ Size[k] \in Nat
      /\ TotalSize(s \ {k}) \in Nat
      /\ Cardinality(s \ {k}) = Cardinality(s) - 1 /\ Cardinality(s) \in Nat
  BY <1>2, <1>3, TotalSizeLess, TotalSizeSteps, OneLess, SetsOfKeysAreFinite, BucketAssumption
<1>5. s \ {k} \notin Bad
  BY <1>1, <1>4
<1>6. TotalSize(T) <= TotalSize(s \ {k})
  BY <1>3, <1>5
<1> QED
  BY <1>2, <1>4, <1>6

-----------------------------------------------------------------------------
(* The loop over the quota.                                                *)

\* The set held and the list todo up to i, when nothing of the list is held.
UpTo(held_, todo, i) == held_ \cup {todo[j] : j \in 1..i}

\* One position more adds the size of the key there.
LEMMA UpToGrows ==
  ASSUME NEW H \in SUBSET Keys, NEW todo \in Seq(Keys), IsInjective(todo),
         H \cap ToSet(todo) = {}, NEW i \in 1..Len(todo)
  PROVE  /\ UpTo(H, todo, i) \in SUBSET Keys
         /\ UpTo(H, todo, i - 1) \in SUBSET Keys
         /\ TotalSize(UpTo(H, todo, i)) = TotalSize(UpTo(H, todo, i - 1)) + Size[todo[i]]
<1> DEFINE n == Len(todo)
           less == UpTo(H, todo, i - 1)
           more == UpTo(H, todo, i)
           k == todo[i]
<1>1. n \in Nat /\ DOMAIN todo = 1..n /\ \A j \in 1..n : todo[j] \in Keys
  BY LenProperties
<1>2. less \in SUBSET Keys
  BY <1>1 DEF UpTo
<1>3. more = less \cup {k}
  <2>1. 1..i = 1..(i - 1) \cup {i}
    BY <1>1
  <2> QED
    BY <2>1 DEF UpTo
<1>4. k \in Keys \ less
  <2>1. k \in ToSet(todo) /\ k \in Keys
    BY <1>1 DEF ToSet
  <2>2. ASSUME NEW j \in 1..(i - 1)
        PROVE  todo[j] # k
    <3>1. j \in DOMAIN todo /\ i \in DOMAIN todo /\ j # i
      BY <1>1
    <3> QED
      BY <3>1 DEF IsInjective
  <2> QED
    BY <2>1, <2>2 DEF UpTo
<1> HIDE DEF less, more, k
<1>5. TotalSize(less \cup {k}) = TotalSize(less) + Size[k]
  BY <1>2, <1>4, TotalSizeMore
<1>6. more \in SUBSET Keys
  BY <1>2, <1>3, <1>4
<1> QED
  BY <1>2, <1>3, <1>5, <1>6 DEF less, more, k

\* What the loop has used is what the set and the list so far take.
LEMMA QuotaCounts ==
  ASSUME NEW H \in SUBSET Keys, NEW todo \in Seq(Keys), IsInjective(todo),
         H \cap ToSet(todo) = {}, NEW run, run[0].used = TotalSize(H),
         \A i \in 1..Len(todo) : run[i].used = run[i - 1].used + Size[todo[i]]
  PROVE  \A i \in 0..Len(todo) : run[i].used = TotalSize(UpTo(H, todo, i))
<1> DEFINE n == Len(todo)
           Good == {i \in 0..n : run[i].used = TotalSize(UpTo(H, todo, i))}
<1>1. n \in Nat
  BY LenProperties
<1>2. 0 \in Good
  <2>1. UpTo(H, todo, 0) = H
    BY DEF UpTo
  <2> QED
    BY <1>1, <2>1
<1>3. ASSUME NEW i \in 1..n, i - 1 \in Good
      PROVE  i \in Good
  <2>1. TotalSize(UpTo(H, todo, i)) = TotalSize(UpTo(H, todo, i - 1)) + Size[todo[i]]
    BY UpToGrows
  <2> QED
    BY <1>1, <1>3, <2>1
<1> HIDE DEF Good
<1>4. \A i \in 0..n : i \in Good
  BY <1>1, <1>2, <1>3, Reaches
<1> QED
  BY <1>4 DEF Good

\* The positions of a list that fit beside what is held.
Fitting(H, todo) == {i \in 1..Len(todo) : TotalSize(UpTo(H, todo, i)) <= MaxBytes}

\* All that fits, fits together; and when the whole list fits, each of it does.
LEMMA FittingTogether ==
  ASSUME NEW H \in SUBSET Keys, NEW todo \in Seq(Keys)
  PROVE  /\ Fitting(H, todo) # {} =>
              TotalSize(H \cup {todo[i] : i \in Fitting(H, todo)}) <= MaxBytes
         /\ TotalSize(H \cup ToSet(todo)) <= MaxBytes => Fitting(H, todo) = 1..Len(todo)
<1> DEFINE n == Len(todo)
           F == Fitting(H, todo)
<1>1. n \in Nat /\ DOMAIN todo = 1..n /\ \A j \in 1..n : todo[j] \in Keys
  BY LenProperties
<1>2. \A i \in 1..n : UpTo(H, todo, i) \in SUBSET Keys /\ UpTo(H, todo, i) \subseteq H \cup ToSet(todo)
  BY <1>1 DEF UpTo, ToSet
<1>3. ASSUME F # {}
      PROVE  TotalSize(H \cup {todo[i] : i \in F}) <= MaxBytes
  <2> DEFINE left == {n - i : i \in F}
             all == H \cup {todo[i] : i \in F}
  <2>1. left \in SUBSET Nat /\ left # {}
    BY <1>1, <1>3 DEF Fitting
  <2>2. PICK l \in left : \A j \in left : l <= j
    BY <2>1, LeastExists
  <2>3. PICK m \in F : l = n - m
    OBVIOUS
  <2>4. ASSUME NEW i \in F
        PROVE  i \in 1..m
    <3>1. i \in 1..n /\ m \in 1..n
      BY DEF Fitting
    <3>2. n - i \in left
      OBVIOUS
    <3>3. n - m <= n - i
      BY <2>2, <2>3, <3>2
    <3> HIDE DEF n
    <3> QED
      BY <1>1, <3>1, <3>3
  <2> DEFINE upto == UpTo(H, todo, m)
  <2>5. upto \in SUBSET Keys /\ all \in SUBSET upto
    BY <1>2, <2>4 DEF UpTo, Fitting
  <2>6. TotalSize(upto) <= MaxBytes
    BY DEF Fitting
  <2> HIDE DEF all, upto
  <2>7. TotalSize(all) <= TotalSize(upto) /\ TotalSize(all) \in Nat /\ TotalSize(upto) \in Nat
    <3>1. all \in SUBSET Keys
      BY <2>5
    <3> QED
      BY <2>5, <3>1, TotalSizeMonotone, TotalSizeSteps
  <2>8. TotalSize(all) <= MaxBytes
    BY <2>6, <2>7, BucketAssumption
  <2> QED
    BY <2>8 DEF all
<1>4. ASSUME TotalSize(H \cup ToSet(todo)) <= MaxBytes
      PROVE  F = 1..n
  <2> DEFINE all == H \cup ToSet(todo)
  <2>1. all \in SUBSET Keys /\ TotalSize(all) <= MaxBytes
    BY <1>1, <1>4 DEF ToSet
  <2>2. \A i \in 1..n : UpTo(H, todo, i) \in SUBSET all
    BY <1>2
  <2> HIDE DEF all
  <2>3. ASSUME NEW i \in 1..n
        PROVE  TotalSize(UpTo(H, todo, i)) <= MaxBytes
    <3>1. TotalSize(UpTo(H, todo, i)) <= TotalSize(all)
      BY <2>1, <2>2, TotalSizeMonotone
    <3>2. TotalSize(UpTo(H, todo, i)) \in Nat /\ TotalSize(all) \in Nat
      BY <1>2, <2>1, TotalSizeSteps
    <3> QED
      BY <2>1, <3>1, <3>2, BucketAssumption
  <2> QED
    BY <2>3 DEF Fitting
<1> QED
  BY <1>3, <1>4

\* The loop over the quota keeps every verdict single, takes nothing that does
\* not fit, and all when all of it fits.
LEMMA QuotaIsSound ==
  ASSUME NEW sel, NEW S, Judged(sel, S),
         NEW H \in SUBSET Keys, H \cap ToSet(sel.accepted) = {},
         NEW fit, fit = FitQuota(sel, TotalSize(H))
  PROVE  /\ Judged(fit, S)
         /\ ToSet(fit.accepted) \subseteq ToSet(sel.accepted)
         /\ ToSet(fit.accepted) # {} => TotalSize(H \cup ToSet(fit.accepted)) <= MaxBytes
         /\ TotalSize(H \cup ToSet(sel.accepted)) <= MaxBytes =>
              ToSet(fit.accepted) = ToSet(sel.accepted)
<1> DEFINE todo == sel.accepted
           n == Len(todo)
           F == Fitting(H, todo)
           P == {todo[i] : i \in F}
<1>1. sel \in Selections /\ todo \in Seq(Keys) /\ IsInjective(todo)
  BY DEF Judged, Selections
<1>2. n \in Nat /\ DOMAIN todo = 1..n /\ \A i \in 1..n : todo[i] \in Keys
  BY <1>1, LenProperties
<1>3. PICK run \in [0..n -> Weighings] :
        /\ run[0] = [sel |-> Again(sel), used |-> TotalSize(H)]
        /\ \A i \in 1..n : run[i] = Weigh(run[i - 1], todo[i])
        /\ fit = run[n].sel
  <2>1. TotalSize(H) \in Nat
    BY TotalSizeSteps
  <2> QED
    BY <1>1, <2>1, QuotaRuns
<1>4. F \subseteq 1..n
  BY DEF Fitting
<1>5. ASSUME NEW i \in 1..n
      PROVE  /\ run[i].used = run[i - 1].used + Size[todo[i]]
             /\ Rules(run[i - 1].sel, todo[i], run[i].sel)
             /\ run[i].used \in Nat
             /\ run[i].used <= MaxBytes => run[i].sel = Accept(run[i - 1].sel, todo[i])
             /\ run[i].used > MaxBytes => run[i].sel = Reject(run[i - 1].sel, todo[i], "quota")
  <2>1. run[i - 1] \in Weighings /\ run[i] \in Weighings /\ todo[i] \in Keys
    BY <1>2, <1>3
  <2>2. run[i] = Weigh(run[i - 1], todo[i])
    BY <1>3
  <2>3. run[i].used \in Nat
    BY <2>1 DEF Weighings
  <2> HIDE DEF n, todo
  <2> QED
    BY <2>1, <2>2, <2>3, WeighRules
<1>6. \A i \in 0..n : run[i].used = TotalSize(UpTo(H, todo, i))
  <2>1. run[0].used = TotalSize(H) /\ H \cap ToSet(todo) = {}
    BY <1>3
  <2> HIDE DEF todo
  <2> QED
    BY <1>1, <1>5, <2>1, QuotaCounts
<1> HIDE DEF todo
<1>7. \A i \in 1..n : i \in F <=> run[i].used <= MaxBytes
  BY <1>2, <1>6 DEF Fitting
<1>8. \A i \in 1..n : todo[i] \in P <=> i \in F
  BY <1>1, <1>2, <1>4 DEF IsInjective
<1>9. \A i \in 1..n :
        \/ todo[i] \in P /\ run[i].sel = Accept(run[i - 1].sel, todo[i])
        \/ todo[i] \notin P /\ run[i].sel = Reject(run[i - 1].sel, todo[i], "quota")
  <2>1. MaxBytes \in Nat
    BY BucketAssumption
  <2> HIDE DEF F, P
  <2> QED
    BY <1>5, <1>7, <1>8, <2>1
<1> DEFINE sels == [i \in 0..n |-> run[i].sel]
<1>10. /\ sels[0] = Again(sel) /\ fit = sels[n]
       /\ \A i \in 0..n : sels[i] \in Selections
  BY <1>2, <1>3 DEF Weighings
<1>11. \A i \in 1..n : sels[i] = run[i].sel /\ sels[i - 1] = run[i - 1].sel
  BY <1>2
<1> HIDE DEF sels, P, F
<1>12. Judged(fit, S)
  <2>1. \A i \in 1..n : Rules(sels[i - 1], todo[i], sels[i])
    BY <1>5, <1>11
  <2> QED
    BY <1>10, <2>1, AgainJudges DEF todo
<1>13. ToSet(fit.accepted) = ToSet(todo) \cap P
  <2>1. sels[0].accepted = <<>>
    BY <1>1, <1>10, AgainIsASelection
  <2>2. "quota" \in Reasons
    BY DEF Reasons
  <2>3. \A i \in 1..n :
          \/ todo[i] \in P /\ sels[i] = Accept(sels[i - 1], todo[i])
          \/ todo[i] \notin P /\ \E reason \in Reasons : sels[i] = Reject(sels[i - 1], todo[i], reason)
    BY <1>9, <1>11, <2>2
  <2>4. ToSet(sels[n].accepted) = ToSet(todo) \cap P
    BY <1>1, <1>10, <2>1, <2>3, LoopAccepts
  <2> QED
    BY <1>10, <2>4
<1>14. ToSet(fit.accepted) = P
  BY <1>2, <1>4, <1>13 DEF P, ToSet
<1>15. P # {} => F # {}
  BY DEF P
<1>16. F = 1..n => P = ToSet(todo)
  BY <1>2 DEF P, ToSet
<1>17. /\ F # {} => TotalSize(H \cup P) <= MaxBytes
       /\ TotalSize(H \cup ToSet(todo)) <= MaxBytes => F = 1..n
  BY <1>1, FittingTogether DEF F, P
<1> QED
  BY <1>12, <1>13, <1>14, <1>15, <1>16, <1>17 DEF todo

-----------------------------------------------------------------------------
(* What the handlers hand to the loops.                                    *)

\* A list without repetition is as long as the set of its elements.
LEMMA LengthOfDistinct ==
  ASSUME NEW T, NEW list \in Seq(T), IsInjective(list)
  PROVE  Len(list) \in Nat /\ Cardinality(ToSet(list)) = Len(list)
<1>1. Len(list) \in Nat /\ DOMAIN list = 1..Len(list) /\ list \in [1..Len(list) -> T]
  BY LenProperties
<1>2. list \in [1..Len(list) -> ToSet(list)] /\ \A x \in ToSet(list) : \E i \in 1..Len(list) : list[i] = x
  BY <1>1 DEF ToSet
<1>3. list \in Injection(1..Len(list), ToSet(list))
  BY <1>1, <1>2 DEF Injection, IsInjective
<1>4. list \in Surjection(1..Len(list), ToSet(list))
  BY <1>2 DEF Surjection
<1>5. ExistsBijection(1..Len(list), ToSet(list))
  BY <1>3, <1>4 DEF ExistsBijection, Bijection
<1> QED
  BY <1>1, <1>5, FS_CountingElements

\* Adding keys one by one adds at most ... the smaller of two numbers.
LEMMA SmallerOfTwo ==
  ASSUME NEW x \in Nat, NEW y \in Nat
  PROVE  /\ Min({x, y}) \in Nat
         /\ Min({x, y}) <= x
         /\ x <= y => Min({x, y}) = x
<1> DEFINE Least(m) == m \in {x, y} /\ \A z \in {x, y} : m <= z
           least == CHOOSE m \in {x, y} : \A z \in {x, y} : m <= z
<1>1. Least(x) \/ Least(y)
  OBVIOUS
<1>2. Least(least)
  BY <1>1
<1>3. Min({x, y}) = least
  BY DEF Min
<1> HIDE DEF least
<1> QED
  BY <1>2, <1>3

\* list_objects() yields objects of the bucket, each once, and all of them when
\* there are no more than twice the limit.
LEMMA ListIsSound ==
  ASSUME bucket \in SUBSET Keys
  PROVE  /\ ListObjects \in Seq(Keys) /\ IsInjective(ListObjects)
         /\ ToSet(ListObjects) \subseteq bucket
         /\ Cardinality(bucket) <= 2 * MaxFiles => ToSet(ListObjects) = bucket
<1> DEFINE here == Within(Listing, bucket)
           most == Min({Len(here), 2 * MaxFiles})
<1>1. /\ here \in Seq(Keys) /\ IsInjective(here)
      /\ ToSet(here) = ToSet(Listing) \cap bucket
  BY BucketAssumption, WithinIsPart
<1>2. ToSet(Listing) = Keys
  BY DEF ToSet, Keys, Range
<1>3. ToSet(here) = bucket
  BY <1>1, <1>2
<1> HIDE DEF here
<1>4. Len(here) \in Nat /\ Cardinality(bucket) = Len(here) /\ DOMAIN here = 1..Len(here)
      /\ \A i \in 1..Len(here) : here[i] \in Keys
  BY <1>1, <1>3, LengthOfDistinct, LenProperties
<1>5. 2 * MaxFiles \in Nat
  BY BucketAssumption
<1>6. most \in Nat /\ most <= Len(here) /\ (Len(here) <= 2 * MaxFiles => most = Len(here))
  BY <1>4, <1>5, SmallerOfTwo
<1>7. ListObjects = SubSeq(here, 1, most)
  BY DEF ListObjects, here
<1> HIDE DEF most
<1>8. /\ ListObjects \in Seq(Keys) /\ DOMAIN ListObjects = 1..most
      /\ \A i \in 1..most : ListObjects[i] = here[i]
  <2>1. \A i \in 1..most : here[i] \in Keys
    BY <1>4, <1>6
  <2>2. /\ SubSeq(here, 1, most) \in Seq(Keys)
        /\ Len(SubSeq(here, 1, most)) = IF 1 <= most THEN most - 1 + 1 ELSE 0
        /\ \A i \in 1..(most - 1 + 1) : SubSeq(here, 1, most)[i] = here[1 + i - 1]
    BY <1>6, <2>1, SubSeqProperties
  <2>3. Len(ListObjects) = most /\ ListObjects \in Seq(Keys)
    BY <1>6, <1>7, <2>2
  <2>4. \A i \in 1..most : ListObjects[i] = here[i]
    BY <1>6, <1>7, <2>2
  <2> QED
    BY <2>3, <2>4, LenProperties
<1>9. IsInjective(ListObjects)
  BY <1>1, <1>4, <1>6, <1>8 DEF IsInjective
<1>10. ToSet(ListObjects) \subseteq bucket
  BY <1>3, <1>4, <1>6, <1>8 DEF ToSet
<1>11. ASSUME Cardinality(bucket) <= 2 * MaxFiles
       PROVE  ToSet(ListObjects) = bucket
  BY <1>3, <1>4, <1>6, <1>8, <1>11 DEF ToSet
<1> QED
  BY <1>8, <1>9, <1>10, <1>11

\* The keys of refusals written for a list are that list.
LEMMA VerdictsName ==
  ASSUME NEW list \in Seq(Keys), NEW reason \in Reasons
  PROVE  /\ Verdict(list, reason) \in Seq(Refusals)
         /\ DOMAIN Verdict(list, reason) = DOMAIN list
         /\ \A i \in DOMAIN list : Verdict(list, reason)[i].key = list[i]
<1>1. DOMAIN list = 1..Len(list) /\ Len(list) \in Nat /\ \A i \in 1..Len(list) : list[i] \in Keys
  BY LenProperties
<1>2. /\ DOMAIN Verdict(list, reason) = DOMAIN list
      /\ \A i \in DOMAIN list : Verdict(list, reason)[i] = [key |-> list[i], reason |-> reason]
  BY DEF Verdict
<1>3. Verdict(list, reason) \in [1..Len(list) -> Refusals]
  BY <1>1 DEF Verdict, Refusals
<1>4. Verdict(list, reason) \in Seq(Refusals)
  BY <1>1, <1>3, SeqDef
<1> QED
  BY <1>2, <1>4

\* The elements of two lists, one behind the other.
LEMMA ConcatElements ==
  ASSUME NEW T, NEW s \in Seq(T), NEW t \in Seq(T)
  PROVE  /\ s \o t \in Seq(T)
         /\ ToSet(s \o t) = ToSet(s) \cup ToSet(t)
         /\ IsInjective(s) /\ IsInjective(t) /\ ToSet(s) \cap ToSet(t) = {} => IsInjective(s \o t)
<1> DEFINE m == Len(s)
           n == Len(t)
           u == s \o t
<1>1. /\ m \in Nat /\ DOMAIN s = 1..m /\ n \in Nat /\ DOMAIN t = 1..n
      /\ u \in Seq(T) /\ Len(u) = m + n
      /\ \A i \in 1..(m + n) : u[i] = IF i <= m THEN s[i] ELSE t[i - m]
  BY LenProperties, ConcatProperties
<1>2. DOMAIN u = 1..(m + n)
  BY <1>1, LenProperties
<1> HIDE DEF m, n, u
<1>3. \A i \in 1..m : i \in 1..(m + n) /\ u[i] = s[i]
  BY <1>1
<1>4. \A i \in 1..n : i + m \in 1..(m + n) /\ u[i + m] = t[i]
  BY <1>1
<1>5. \A i \in 1..(m + n) : i \in 1..m \/ (i - m \in 1..n /\ i = (i - m) + m)
  BY <1>1
<1>6. ToSet(u) = ToSet(s) \cup ToSet(t)
  <2>1. ASSUME NEW i \in 1..(m + n)
        PROVE  u[i] \in ToSet(s) \cup ToSet(t)
    <3>1. CASE i \in 1..m
      BY <1>1, <1>3, <3>1 DEF ToSet
    <3>2. CASE i - m \in 1..n
      <4>1. u[i] = t[i - m]
        BY <1>1, <3>2
      <4> QED
        BY <1>1, <3>2, <4>1 DEF ToSet
    <3> QED
      BY <1>5, <3>1, <3>2
  <2>4. ToSet(u) \subseteq ToSet(s) \cup ToSet(t)
    <3>1. ToSet(u) = {u[i] : i \in 1..(m + n)}
      BY <1>2 DEF ToSet
    <3> QED
      BY <2>1, <3>1
  <2>2. ToSet(s) \subseteq ToSet(u)
    BY <1>1, <1>2, <1>3 DEF ToSet
  <2>3. ToSet(t) \subseteq ToSet(u)
    BY <1>1, <1>2, <1>4 DEF ToSet
  <2> QED
    BY <2>2, <2>3, <2>4
<1>7. ASSUME IsInjective(s), IsInjective(t), ToSet(s) \cap ToSet(t) = {},
             NEW i \in DOMAIN u, NEW j \in DOMAIN u, u[i] = u[j]
      PROVE  i = j
  <2>1. i \in 1..(m + n) /\ j \in 1..(m + n)
    BY <1>2, <1>7
  <2>2. CASE i \in 1..m /\ j \in 1..m
    BY <1>1, <1>3, <1>7, <2>2 DEF IsInjective
  <2>3. CASE i - m \in 1..n /\ j - m \in 1..n
    <3>1. u[i] = t[i - m] /\ u[j] = t[j - m]
      BY <1>1, <2>1, <2>3
    <3>2. i - m = j - m
      BY <1>1, <1>7, <2>3, <3>1 DEF IsInjective
    <3> QED
      BY <1>1, <2>1, <3>2
  <2>4. CASE i \in 1..m /\ j - m \in 1..n
    <3>1. u[i] = s[i] /\ u[j] = t[j - m]
      BY <1>1, <2>1, <2>4
    <3>2. s[i] \in ToSet(s) /\ t[j - m] \in ToSet(t)
      BY <1>1, <2>4 DEF ToSet
    <3> QED
      BY <1>7, <3>1, <3>2
  <2>5. CASE i - m \in 1..n /\ j \in 1..m
    <3>1. u[j] = s[j] /\ u[i] = t[i - m]
      BY <1>1, <2>1, <2>5
    <3>2. s[j] \in ToSet(s) /\ t[i - m] \in ToSet(t)
      BY <1>1, <2>5 DEF ToSet
    <3> QED
      BY <1>7, <3>1, <3>2
  <2> QED
    BY <1>5, <2>1, <2>2, <2>3, <2>4, <2>5
<1> QED
  BY <1>1, <1>6, <1>7 DEF u, IsInjective

\* The keys of a list of refusals.
KeysOf(refusals) == [i \in DOMAIN refusals |-> refusals[i].key]

\* They are a list of the keys refused.
LEMMA KeysOfRefusals ==
  ASSUME NEW refusals \in Seq(Refusals)
  PROVE  /\ KeysOf(refusals) \in Seq(Keys)
         /\ ToSet(KeysOf(refusals)) = {refusals[i].key : i \in DOMAIN refusals}
         /\ DOMAIN KeysOf(refusals) = DOMAIN refusals
         /\ \A i \in DOMAIN refusals : KeysOf(refusals)[i] = refusals[i].key
<1>1. DOMAIN refusals = 1..Len(refusals) /\ Len(refusals) \in Nat
      /\ \A i \in 1..Len(refusals) : refusals[i] \in Refusals
  BY LenProperties
<1>2. KeysOf(refusals) \in [1..Len(refusals) -> Keys]
  BY <1>1 DEF KeysOf, Refusals
<1>3. KeysOf(refusals) \in Seq(Keys)
  BY <1>1, <1>2, SeqDef
<1>4. /\ DOMAIN KeysOf(refusals) = DOMAIN refusals
      /\ \A i \in DOMAIN refusals : KeysOf(refusals)[i] = refusals[i].key
  BY DEF KeysOf
<1>5. ToSet(KeysOf(refusals)) = {refusals[i].key : i \in DOMAIN refusals}
  BY <1>4 DEF ToSet
<1> QED
  BY <1>3, <1>4, <1>5

\* A selection that judges a set is an answer with one verdict for each of it.
LEMMA JudgedAnswers ==
  ASSUME NEW sel, NEW S, Judged(sel, S)
  PROVE  /\ IsInjective(sel.accepted \o KeysOf(sel.rejected))
         /\ ToSet(sel.accepted \o KeysOf(sel.rejected)) = S
<1>1. sel.accepted \in Seq(Keys) /\ sel.rejected \in Seq(Refusals)
  BY DEF Judged, Selections
<1> DEFINE ks == KeysOf(sel.rejected)
<1>2. /\ ks \in Seq(Keys) /\ ToSet(ks) = Refused(sel)
      /\ DOMAIN ks = DOMAIN sel.rejected
      /\ \A i \in DOMAIN sel.rejected : ks[i] = sel.rejected[i].key
  BY <1>1, KeysOfRefusals DEF Refused
<1> HIDE DEF ks
<1>3. IsInjective(ks)
  BY <1>2 DEF IsInjective, Judged
<1>4. IsInjective(sel.accepted) /\ ToSet(sel.accepted) \cap ToSet(ks) = {}
      /\ ToSet(sel.accepted) \cup ToSet(ks) = S
  BY <1>2 DEF Judged
<1>5. IsInjective(sel.accepted \o ks) /\ ToSet(sel.accepted \o ks) = S
  <2> DEFINE s == sel.accepted
  <2>1. s \in Seq(Keys)
    BY <1>1
  <2> HIDE DEF s
  <2>2. /\ ToSet(s \o ks) = ToSet(s) \cup ToSet(ks)
        /\ IsInjective(s) /\ ToSet(s) \cap ToSet(ks) = {} => IsInjective(s \o ks)
    BY <1>2, <1>3, <2>1, ConcatElements
  <2> QED
    BY <1>4, <2>2 DEF s
<1> QED
  BY <1>5 DEF ks

\* Keys that are gone are refused beside the others.
LEMMA MissingJudges ==
  ASSUME NEW sel, NEW S, Judged(sel, S),
         NEW gone \in Seq(Keys), IsInjective(gone), ToSet(gone) \cap S = {},
         NEW reason \in Reasons, NEW all,
         all = [sel EXCEPT !.rejected = @ \o Verdict(gone, reason)]
  PROVE  Judged(all, S \cup ToSet(gone)) /\ all.accepted = sel.accepted
<1> DEFINE more == Verdict(gone, reason)
           both == sel.rejected \o more
<1>1. sel \in Selections /\ sel.rejected \in Seq(Refusals)
  BY DEF Judged, Selections
<1>2. /\ more \in Seq(Refusals) /\ DOMAIN more = DOMAIN gone
      /\ \A i \in DOMAIN gone : more[i].key = gone[i]
  BY VerdictsName
<1>3. all.accepted = sel.accepted /\ all.rejected = both
  BY <1>1 DEF Selections
<1> HIDE DEF more
<1> DEFINE m == Len(sel.rejected)
           n == Len(more)
<1>4. /\ m \in Nat /\ DOMAIN sel.rejected = 1..m /\ n \in Nat /\ DOMAIN more = 1..n
      /\ both \in Seq(Refusals) /\ Len(both) = m + n
      /\ \A i \in 1..(m + n) : both[i] = IF i <= m THEN sel.rejected[i] ELSE more[i - m]
  BY <1>1, <1>2, LenProperties, ConcatProperties
<1>5. DOMAIN both = 1..(m + n)
  BY <1>4, LenProperties
<1>6. all \in Selections
  <2>1. sel.accepted \in Seq(Keys)
    BY <1>1 DEF Selections
  <2>2. all = [accepted |-> sel.accepted, rejected |-> both]
    BY <1>1 DEF Selections, more
  <2>3. \A a \in Seq(Keys), b \in Seq(Refusals) : [accepted |-> a, rejected |-> b] \in Selections
    BY DEF Selections
  <2>4. both \in Seq(Refusals)
    BY <1>4
  <2> HIDE DEF both
  <2>5. [accepted |-> sel.accepted, rejected |-> both] \in Selections
    BY <2>1, <2>3, <2>4
  <2> QED
    BY <2>2, <2>5
<1> HIDE DEF both, m, n
<1> DEFINE ks == KeysOf(sel.rejected)
<1>7. /\ ks \in Seq(Keys) /\ ToSet(ks) = Refused(sel) /\ DOMAIN ks = 1..m
      /\ \A i \in 1..m : ks[i] = sel.rejected[i].key
  BY <1>1, <1>4, KeysOfRefusals DEF Refused
<1> HIDE DEF ks
<1>8. IsInjective(ks) /\ ToSet(ks) \cap ToSet(gone) = {}
  <2>1. IsInjective(ks)
    BY <1>4, <1>7 DEF IsInjective, Judged
  <2>2. Refused(sel) \subseteq S
    BY DEF Judged
  <2> QED
    BY <1>7, <2>1, <2>2
<1> DEFINE cat == ks \o gone
<1>9. IsInjective(cat) /\ ToSet(cat) = Refused(sel) \cup ToSet(gone)
  BY <1>7, <1>8, ConcatElements
<1>10. DOMAIN cat = 1..(m + n) /\ \A i \in 1..(m + n) : cat[i] = both[i].key
  <2>1. Len(ks) = m /\ DOMAIN gone = 1..n
    BY <1>2, <1>4, <1>7, LenProperties
  <2>2. Len(gone) = n
    BY <1>4, <2>1, LenProperties
  <2>3. /\ cat \in Seq(Keys) /\ Len(cat) = m + n
        /\ \A i \in 1..(m + n) : cat[i] = IF i <= m THEN ks[i] ELSE gone[i - m]
    <3>1. /\ cat \in Seq(Keys) /\ Len(cat) = Len(ks) + Len(gone)
          /\ \A i \in 1..(Len(ks) + Len(gone)) : cat[i] = IF i <= Len(ks) THEN ks[i] ELSE gone[i - Len(ks)]
      BY <1>7, ConcatProperties
    <3> QED
      BY <2>1, <2>2, <3>1
  <2>4. DOMAIN cat = 1..(m + n)
    BY <2>3, LenProperties
  <2> HIDE DEF cat
  <2>5. ASSUME NEW i \in 1..(m + n)
        PROVE  cat[i] = both[i].key
    <3>1. CASE i <= m
      <4>1. i \in 1..m
        BY <1>4, <3>1
      <4> QED
        BY <1>4, <1>7, <2>3, <3>1, <4>1
    <3>2. CASE ~(i <= m)
      <4>1. i - m \in 1..n
        BY <1>4, <3>2
      <4> QED
        BY <1>2, <1>4, <2>1, <2>3, <3>2, <4>1
    <3> QED
      BY <3>1, <3>2
  <2> QED
    BY <2>4, <2>5
<1> HIDE DEF cat
<1>11. \A i, j \in DOMAIN both : both[i].key = both[j].key => i = j
  BY <1>5, <1>9, <1>10 DEF IsInjective
<1>12. Refused(all) = Refused(sel) \cup ToSet(gone)
  <2>1. Refused(all) = {both[i].key : i \in 1..(m + n)}
    BY <1>3, <1>5 DEF Refused
  <2>2. ToSet(cat) = {cat[i] : i \in 1..(m + n)}
    BY <1>10 DEF ToSet
  <2>3. {both[i].key : i \in 1..(m + n)} = {cat[i] : i \in 1..(m + n)}
    BY <1>10
  <2> QED
    BY <1>9, <2>1, <2>2, <2>3
<1> QED
  BY <1>3, <1>6, <1>11, <1>12 DEF Judged

-----------------------------------------------------------------------------
(* The handlers.                                                           *)

\* What of the selection the set does not hold yet.
New(keys, asked) ==
  {k \in ToSet(Select(keys, asked).accepted) : \A h \in held : Etag[h] # Etag[k]}

\* What an import into an existing set comes to: fit is the answer to S, and
\* its accepted keys, new ones of the selection, are what the set gets.
Imported(keys, asked, S, fit) ==
  /\ Judged(fit, S)
  /\ held' = held \cup ToSet(fit.accepted)
  /\ reply' = [asked |-> S, accepted |-> fit.accepted, rejected |-> fit.rejected]
  /\ bucket' = bucket /\ created' = created
  /\ ToSet(fit.accepted) \subseteq New(keys, asked)
  /\ ToSet(fit.accepted) # {} => TotalSize(held') <= MaxBytes
  /\ TotalSize(held \cup New(keys, asked)) <= MaxBytes => ToSet(fit.accepted) = New(keys, asked)

\* The loop of known contents and the one over the quota, one behind the other.
LEMMA LoopsImport ==
  ASSUME NEW keys, NEW asked, NEW S, NEW all, Judged(all, S), held \in SUBSET Keys,
         all.accepted = Select(keys, asked).accepted,
         NEW fit, fit = FitQuota(DropKnown(all, {Etag[k] : k \in held}), TotalSize(held))
  PROVE  /\ Judged(fit, S)
         /\ ToSet(fit.accepted) \subseteq New(keys, asked)
         /\ ToSet(fit.accepted) # {} => TotalSize(held \cup ToSet(fit.accepted)) <= MaxBytes
         /\ TotalSize(held \cup New(keys, asked)) <= MaxBytes => ToSet(fit.accepted) = New(keys, asked)
<1> DEFINE known == {Etag[k] : k \in held}
           drop == DropKnown(all, known)
<1>1. /\ Judged(drop, S)
      /\ ToSet(drop.accepted) = {k \in ToSet(all.accepted) : Etag[k] \notin known}
  BY DropIsSound
<1>2. ToSet(drop.accepted) = New(keys, asked)
  BY <1>1 DEF New
<1>3. held \cap ToSet(drop.accepted) = {}
  BY <1>2 DEF New
<1>4. fit = FitQuota(drop, TotalSize(held))
  OBVIOUS
<1> HIDE DEF drop
<1>5. /\ Judged(fit, S)
      /\ ToSet(fit.accepted) \subseteq ToSet(drop.accepted)
      /\ ToSet(fit.accepted) # {} => TotalSize(held \cup ToSet(fit.accepted)) <= MaxBytes
      /\ TotalSize(held \cup ToSet(drop.accepted)) <= MaxBytes =>
           ToSet(fit.accepted) = ToSet(drop.accepted)
  BY <1>1, <1>3, <1>4, QuotaIsSound
<1> QED
  BY <1>2, <1>5

\* The import from what was found and what was gone.
LEMMA RegisterImports ==
  ASSUME held \in SUBSET Keys,
         NEW keys \in Seq(Keys), IsInjective(keys),
         NEW gone \in Seq(Keys), IsInjective(gone), ToSet(gone) \cap ToSet(keys) = {},
         NEW asked, Register(keys, Verdict(gone, "missing"), asked)
  PROVE  \E fit : Imported(keys, asked, ToSet(keys) \cup ToSet(gone), fit)
<1> DEFINE missing == Verdict(gone, "missing")
           sel == Select(keys, asked)
           all == [sel EXCEPT !.rejected = @ \o missing]
           fit == FitQuota(DropKnown(all, {Etag[k] : k \in held}), TotalSize(held))
           S == ToSet(keys) \cup ToSet(gone)
<1>1. Judged(sel, ToSet(keys))
  BY SelectIsSound
<1>2. "missing" \in Reasons
  BY DEF Reasons
<1>3. Judged(all, S) /\ all.accepted = sel.accepted
  BY <1>1, <1>2, MissingJudges
<1>4. /\ held' = held \cup ToSet(fit.accepted)
      /\ reply' = [asked |-> ToSet(keys \o KeysOf(missing)),
                   accepted |-> fit.accepted, rejected |-> fit.rejected]
      /\ bucket' = bucket /\ created' = created
  BY DEF Register, Answer, KeysOf
<1>5. ToSet(keys \o KeysOf(missing)) = S
  <2>1. /\ missing \in Seq(Refusals) /\ DOMAIN missing = DOMAIN gone
        /\ \A i \in DOMAIN gone : missing[i].key = gone[i]
    BY <1>2, VerdictsName
  <2> HIDE DEF missing
  <2>2. /\ KeysOf(missing) \in Seq(Keys)
        /\ ToSet(KeysOf(missing)) = {missing[i].key : i \in DOMAIN missing}
    BY <2>1, KeysOfRefusals
  <2>3. ToSet(KeysOf(missing)) = ToSet(gone)
    BY <2>1, <2>2 DEF ToSet
  <2>4. ToSet(keys \o KeysOf(missing)) = ToSet(keys) \cup ToSet(KeysOf(missing))
    BY <2>2, ConcatElements
  <2> QED
    BY <2>3, <2>4
<1> HIDE DEF all, sel
<1>6. /\ Judged(fit, S)
      /\ ToSet(fit.accepted) \subseteq New(keys, asked)
      /\ ToSet(fit.accepted) # {} => TotalSize(held \cup ToSet(fit.accepted)) <= MaxBytes
      /\ TotalSize(held \cup New(keys, asked)) <= MaxBytes => ToSet(fit.accepted) = New(keys, asked)
  BY <1>3, LoopsImport DEF sel
<1> HIDE DEF fit, S, missing
<1>7. ToSet(fit.accepted) # {} => TotalSize(held') <= MaxBytes
  BY <1>4, <1>6
<1>8. Imported(keys, asked, S, fit)
  BY <1>4, <1>5, <1>6, <1>7 DEF Imported
<1> QED
  BY <1>8 DEF S

\* A list without elements has no verdicts.
LEMMA NoneMissing == Verdict(<<>>, "missing") = <<>>
<1>1. <<>> \in Seq(Keys) /\ DOMAIN <<>> = {} /\ ToSet(<<>>) = {}
  BY EmptySeq DEF ToSet
<1>2. /\ Verdict(<<>>, "missing") \in Seq(Refusals)
      /\ DOMAIN Verdict(<<>>, "missing") = {}
  BY <1>1, VerdictsName DEF Reasons
<1>3. Len(Verdict(<<>>, "missing")) = 0
  BY <1>2, LenProperties
<1> QED
  BY <1>2, <1>3, EmptySeq

\* The import of a prefix refuses nothing as missing.
LEMMA PrefixImports ==
  ASSUME TypeOK, NEW asked, AddByPrefix(asked)
  PROVE  \E fit : Imported(ListObjects, asked, ToSet(ListObjects), fit)
<1>1. ListObjects \in Seq(Keys) /\ IsInjective(ListObjects)
  BY ListIsSound DEF TypeOK
<1>2. <<>> \in Seq(Keys) /\ ToSet(<<>>) = {} /\ IsInjective(<<>>)
  BY EmptySeq DEF ToSet, IsInjective
<1>3. Register(ListObjects, Verdict(<<>>, "missing"), asked)
  BY NoneMissing DEF AddByPrefix
<1>4. held \in SUBSET Keys /\ ToSet(<<>>) \cap ToSet(ListObjects) = {}
  BY <1>2 DEF TypeOK
<1> DEFINE keys == ListObjects
           gone == <<>>
<1>5. ToSet(keys) \cup ToSet(gone) = ToSet(keys)
  BY <1>2
<1>6. gone \in Seq(Keys) /\ IsInjective(gone) /\ ToSet(gone) \cap ToSet(keys) = {}
      /\ keys \in Seq(Keys) /\ IsInjective(keys) /\ Register(keys, Verdict(gone, "missing"), asked)
  BY <1>1, <1>2, <1>3, <1>4
<1> HIDE DEF keys, gone
<1>7. \E fit : Imported(keys, asked, ToSet(keys) \cup ToSet(gone), fit)
  BY <1>4, <1>6, RegisterImports
<1> QED
  BY <1>5, <1>7 DEF keys

\* The import of explicit keys is about each of them, found or gone.
LEMMA KeysImport ==
  ASSUME TypeOK, NEW keys \in Requested, NEW asked, AddByKeys(keys, asked)
  PROVE  \E here, S, fit : S \in SUBSET Keys /\ here \in Seq(Keys) /\ IsInjective(here)
                           /\ Imported(here, asked, S, fit)
<1> DEFINE here == Within(keys, bucket)
           gone == Within(keys, Keys \ bucket)
<1>1. /\ here \in Seq(Keys) /\ IsInjective(here) /\ ToSet(here) = ToSet(keys) \cap bucket
      /\ gone \in Seq(Keys) /\ IsInjective(gone) /\ ToSet(gone) = ToSet(keys) \cap (Keys \ bucket)
  BY BucketAssumption, WithinIsPart
<1>2. Register(here, Verdict(gone, "missing"), asked)
  BY DEF AddByKeys
<1> HIDE DEF here, gone
<1>3. ToSet(gone) \cap ToSet(here) = {}
  BY <1>1
<1>4. \E fit : Imported(here, asked, ToSet(here) \cup ToSet(gone), fit)
  BY <1>1, <1>2, <1>3, RegisterImports DEF TypeOK
<1>5. ToSet(here) \cup ToSet(gone) \in SUBSET Keys
  BY <1>1 DEF TypeOK
<1> QED
  BY <1>1, <1>4, <1>5

-----------------------------------------------------------------------------
(* The invariants: whatever the bucket holds and however often it changes. *)

BucketInv == TypeOK /\ RowsNeverCollide /\ OneVerdictEach

\* An answer to S is typed and has one verdict for each of S.
LEMMA AnswersAreSound ==
  ASSUME NEW S \in SUBSET Keys, NEW fit, Judged(fit, S),
         reply' = [asked |-> S, accepted |-> fit.accepted, rejected |-> fit.rejected]
  PROVE  /\ reply.asked' \subseteq Keys
         /\ ToSet(reply.accepted)' \subseteq Keys
         /\ ToSet(reply.rejected)' \subseteq [key : Keys, reason : Reasons]
         /\ OneVerdictEach'
<1>1. fit.accepted \in Seq(Keys) /\ fit.rejected \in Seq(Refusals)
  BY DEF Judged, Selections
<1>2. reply'.asked = S /\ reply'.accepted = fit.accepted /\ reply'.rejected = fit.rejected
  OBVIOUS
<1>3. ToSet(fit.accepted) \subseteq Keys /\ ToSet(fit.rejected) \subseteq Refusals
  BY <1>1, LenProperties DEF ToSet
<1>4. OneVerdictEach'
  <2>1. /\ IsInjective(fit.accepted \o KeysOf(fit.rejected))
        /\ ToSet(fit.accepted \o KeysOf(fit.rejected)) = S
    BY JudgedAnswers
  <2> QED
    BY <1>2, <2>1 DEF OneVerdictEach, KeysOf
<1> QED
  BY <1>2, <1>3, <1>4 DEF Refusals, ToSet

\* An import into the set keeps its contents different.
LEMMA ImportsAreSound ==
  ASSUME BucketInv, NEW keys \in Seq(Keys), IsInjective(keys), NEW asked,
         NEW S \in SUBSET Keys, NEW fit, Imported(keys, asked, S, fit)
  PROVE  BucketInv'
<1>1. Differ(ToSet(Select(keys, asked).accepted))
  BY SelectIsSound
<1>2. ToSet(fit.accepted) \subseteq New(keys, asked) /\ held' = held \cup ToSet(fit.accepted)
  BY DEF Imported
<1>3. \A k, l \in held' : Etag[k] = Etag[l] => k = l
  BY <1>1, <1>2 DEF New, Differ, BucketInv, RowsNeverCollide
<1>4. /\ reply.asked' \subseteq Keys
      /\ ToSet(reply.accepted)' \subseteq Keys
      /\ ToSet(reply.rejected)' \subseteq [key : Keys, reason : Reasons]
      /\ OneVerdictEach'
  BY AnswersAreSound DEF Imported
<1>5. ToSet(fit.accepted) \subseteq Keys
  <2>1. fit.accepted \in Seq(Keys)
    BY DEF Imported, Judged, Selections
  <2> QED
    BY <2>1, LenProperties DEF ToSet
<1>6. TypeOK'
  BY <1>2, <1>4, <1>5 DEF TypeOK, BucketInv, Imported
<1> QED
  BY <1>3, <1>4, <1>6 DEF BucketInv, RowsNeverCollide

\* A creation starts the set with contents that differ.
LEMMA CreationIsSound ==
  ASSUME BucketInv, NEW asked, CreateFromBucket(asked)
  PROVE  BucketInv'
<1> DEFINE keys == ListObjects
           sel == Select(keys, asked)
           S == ToSet(keys)
<1>1. keys \in Seq(Keys) /\ IsInjective(keys)
  BY ListIsSound DEF BucketInv, TypeOK
<1>2. /\ reply' = [asked |-> S, accepted |-> sel.accepted, rejected |-> sel.rejected]
      /\ created' = TRUE /\ bucket' = bucket /\ held' = ToSet(sel.accepted)
  BY DEF CreateFromBucket, Answer
<1>3. S \in SUBSET Keys
  BY <1>1, LenProperties DEF ToSet
<1> HIDE DEF keys
<1>4. Judged(sel, S) /\ Differ(ToSet(sel.accepted))
  BY <1>1, SelectIsSound
<1> HIDE DEF sel, S
<1>5. /\ reply.asked' \subseteq Keys
      /\ ToSet(reply.accepted)' \subseteq Keys
      /\ ToSet(reply.rejected)' \subseteq [key : Keys, reason : Reasons]
      /\ OneVerdictEach'
  BY <1>2, <1>3, <1>4, AnswersAreSound
<1>6. ToSet(sel.accepted) \subseteq Keys
  <2>1. sel.accepted \in Seq(Keys)
    BY <1>4 DEF Judged, Selections
  <2> QED
    BY <2>1, LenProperties DEF ToSet
<1>7. TypeOK'
  BY <1>2, <1>5, <1>6 DEF TypeOK, BucketInv
<1>8. RowsNeverCollide'
  BY <1>2, <1>4 DEF RowsNeverCollide, Differ
<1> QED
  BY <1>5, <1>7, <1>8 DEF BucketInv

\* Before the first import nothing is held and nothing was asked.
LEMMA BucketInvInit == Init => BucketInv
<1> SUFFICES ASSUME Init
             PROVE  BucketInv
  OBVIOUS
<1>1. DOMAIN <<>> = {} /\ <<>> \in Seq(Keys) /\ <<>> \in Seq(Refusals)
  BY EmptySeq
<1>2. reply = [asked |-> {}, accepted |-> <<>>, rejected |-> <<>>]
  BY DEF Init
<1>3. TypeOK
  <2>1. reply.asked = {} /\ reply.accepted = <<>> /\ reply.rejected = <<>>
    BY <1>2
  <2>2. ToSet(<<>>) = {}
    BY <1>1 DEF ToSet
  <2>3. ToSet(reply.accepted) = {} /\ ToSet(reply.rejected) = {}
    BY <2>1, <2>2
  <2> QED
    BY <2>1, <2>3 DEF Init, TypeOK
<1>4. RowsNeverCollide
  BY DEF Init, RowsNeverCollide
<1>5. OneVerdictEach
  <2>1. KeysOf(<<>>) \in Seq(Keys) /\ ToSet(KeysOf(<<>>)) = {} /\ DOMAIN KeysOf(<<>>) = {}
    BY <1>1, KeysOfRefusals
  <2>2. IsInjective(<<>>) /\ IsInjective(KeysOf(<<>>)) /\ ToSet(<<>>) = {}
    BY <1>1, <2>1 DEF IsInjective, ToSet
  <2>3. IsInjective(<<>> \o KeysOf(<<>>)) /\ ToSet(<<>> \o KeysOf(<<>>)) = {}
    <3> DEFINE s == <<>>
               t == KeysOf(<<>>)
    <3>1. s \in Seq(Keys) /\ t \in Seq(Keys) /\ ToSet(s) = {} /\ ToSet(t) = {}
          /\ IsInjective(s) /\ IsInjective(t)
      BY <1>1, <2>1, <2>2
    <3> HIDE DEF s, t
    <3>2. IsInjective(s \o t) /\ ToSet(s \o t) = {}
      BY <3>1, ConcatElements
    <3> QED
      BY <3>2 DEF s, t
  <2> QED
    BY <1>2, <2>3 DEF OneVerdictEach, KeysOf
<1> QED
  BY <1>3, <1>4, <1>5 DEF BucketInv

\* Every step keeps the three invariants.
LEMMA BucketInvNext == BucketInv /\ [Next]_vars => BucketInv'
<1> SUFFICES ASSUME BucketInv, [Next]_vars
             PROVE  BucketInv'
  OBVIOUS
<1>1. TypeOK
  BY DEF BucketInv
<1>2. ASSUME NEW asked \in Asked, CreateFromBucket(asked)
      PROVE  BucketInv'
  BY <1>2, CreationIsSound
<1>3. ASSUME NEW asked \in Asked, AddByPrefix(asked)
      PROVE  BucketInv'
  <2>1. PICK fit : Imported(ListObjects, asked, ToSet(ListObjects), fit)
    BY <1>1, <1>3, PrefixImports
  <2>2. ListObjects \in Seq(Keys) /\ IsInjective(ListObjects) /\ ToSet(ListObjects) \in SUBSET Keys
    BY <1>1, ListIsSound DEF TypeOK
  <2> QED
    BY <2>1, <2>2, ImportsAreSound
<1>4. ASSUME NEW keys \in Requested, NEW asked \in Asked, AddByKeys(keys, asked)
      PROVE  BucketInv'
  <2>1. PICK here, S, fit : S \in SUBSET Keys /\ here \in Seq(Keys) /\ IsInjective(here)
                            /\ Imported(here, asked, S, fit)
    BY <1>1, <1>4, KeysImport
  <2> QED
    BY <2>1, ImportsAreSound
<1>5. ASSUME NEW k \in Keys, DeleteDocument(k)
      PROVE  BucketInv'
  <2>1. held' \subseteq held /\ bucket' = bucket /\ created' = created /\ reply' = reply
    BY <1>5 DEF DeleteDocument
  <2> QED
    BY <2>1 DEF BucketInv, TypeOK, RowsNeverCollide, OneVerdictEach
<1>6. CASE BucketChanges
  <2>1. bucket' \subseteq Keys /\ created' = created /\ held' = held /\ reply' = reply
    BY <1>1, <1>6 DEF BucketChanges, TypeOK
  <2> QED
    BY <2>1 DEF BucketInv, TypeOK, RowsNeverCollide, OneVerdictEach
<1>7. CASE UNCHANGED vars
  BY <1>7 DEF vars, BucketInv, TypeOK, RowsNeverCollide, OneVerdictEach
<1> QED
  BY <1>2, <1>3, <1>4, <1>5, <1>6, <1>7 DEF Next

\* The three invariants together.
LEMMA BucketSound == Spec => []BucketInv
<1>1. Init => BucketInv
  BY BucketInvInit
<1>2. BucketInv /\ [Next]_vars => BucketInv'
  BY BucketInvNext
<1> QED
  BY <1>1, <1>2, PTL DEF Spec

-----------------------------------------------------------------------------
(* The theorems.                                                           *)

\* The variables keep their types, and every refusal names one of the reasons.
THEOREM BucketTypeCorrect == Spec => []TypeOK
<1>1. BucketInv => TypeOK
  BY DEF BucketInv
<1> QED
  BY <1>1, BucketSound, PTL

\* No two rows of a set have one content, whatever is listed, asked for, deleted
\* and listed again: the commit of an import never meets the unique constraint.
THEOREM RowsAreUnique == Spec => []RowsNeverCollide
<1>1. BucketInv => RowsNeverCollide
  BY DEF BucketInv
<1> QED
  BY <1>1, BucketSound, PTL

\* Every object an import was about has exactly one verdict in its answer, and
\* nothing else has any, through all the loops of the import.
THEOREM VerdictsAreSingle == Spec => []OneVerdictEach
<1>1. BucketInv => OneVerdictEach
  BY DEF BucketInv
<1> QED
  BY <1>1, BucketSound, PTL

\* An import that adds to a set leaves it within its quota.
THEOREM QuotaIsKept == Spec => ImportKeepsQuota
<1> DEFINE Keeps == created /\ held \subseteq held' /\ held # held' => TotalSize(held') <= MaxBytes
<1>1. BucketInv /\ [Next]_vars => Keeps
  <2> SUFFICES ASSUME BucketInv, [Next]_vars, created, held \subseteq held', held # held'
               PROVE  TotalSize(held') <= MaxBytes
    OBVIOUS
  <2>1. TypeOK
    BY DEF BucketInv
  <2>2. ASSUME NEW keys, NEW asked, NEW S, NEW fit, Imported(keys, asked, S, fit)
        PROVE  TotalSize(held') <= MaxBytes
    <3>1. ToSet(fit.accepted) # {}
      BY <2>2 DEF Imported
    <3> QED
      BY <2>2, <3>1 DEF Imported
  <2>3. ASSUME NEW asked \in Asked, AddByPrefix(asked)
        PROVE  TotalSize(held') <= MaxBytes
    BY <2>1, <2>2, <2>3, PrefixImports
  <2>4. ASSUME NEW keys \in Requested, NEW asked \in Asked, AddByKeys(keys, asked)
        PROVE  TotalSize(held') <= MaxBytes
    BY <2>1, <2>2, <2>4, KeysImport
  <2>5. ASSUME NEW asked \in Asked
        PROVE  ~CreateFromBucket(asked)
    BY DEF CreateFromBucket
  <2>6. ASSUME NEW k \in Keys
        PROVE  ~DeleteDocument(k)
    BY DEF DeleteDocument
  <2>7. ~BucketChanges /\ ~UNCHANGED vars
    BY DEF BucketChanges, vars
  <2> QED
    BY <2>3, <2>4, <2>5, <2>6, <2>7 DEF Next
<1>2. Spec => []BucketInv
  BY BucketSound
<1>3. Keeps => (created /\ held \subseteq held' /\ held # held' => TotalSize(held') <= MaxBytes)
  OBVIOUS
<1> HIDE DEF Keeps
<1>4. Spec => [][Keeps]_vars
  BY <1>1, <1>2, PTL DEF Spec
<1> QED
  BY <1>4 DEF ImportKeepsQuota, Keeps

\* Below the limits one import of the prefix takes every object of use, or one
\* of the same contents is there already.
THEOREM SmallPrefixIsTaken == Spec => SmallPrefixImported
<1> DEFINE Takes == AddByPrefix({}) /\ Small => \A k \in Keys : Useful(k) => Covered(k)'
<1>1. BucketInv /\ [Next]_vars => Takes
  <2> SUFFICES ASSUME BucketInv, AddByPrefix({}), Small, NEW k \in Keys, Useful(k)
               PROVE  \E l \in held' : Etag[l] = Etag[k]
    BY DEF Covered
  <2> DEFINE useful == {u \in Keys : Useful(u)}
             list == ListObjects
             taken == ToSet(Select(list, {}).accepted)
  <2>1. TypeOK /\ bucket \in SUBSET Keys
    BY DEF BucketInv, TypeOK
  <2>2. PICK fit : Imported(list, {}, ToSet(list), fit)
    BY <2>1, PrefixImports
  <2>3. list \in Seq(Keys) /\ IsInjective(list) /\ ToSet(list) = bucket
    BY <2>1, ListIsSound DEF Small
  <2> HIDE DEF list
  <2>4. /\ Judged(Select(list, {}), bucket)
        /\ \A u \in taken : Fit(u, {})
        /\ \A u \in bucket : Fit(u, {}) =>
             \/ \E a \in taken : Etag[a] = Etag[u]
             \/ Len(Select(list, {}).accepted) >= MaxFiles
    BY <2>3, SelectIsSound
  <2>5. taken \subseteq useful
    BY <2>1, <2>4 DEF Judged, Useful
  <2>6. Select(list, {}).accepted \in Seq(Keys) /\ IsInjective(Select(list, {}).accepted)
    BY <2>4 DEF Judged, Selections
  <2>7. Cardinality(taken) = Len(Select(list, {}).accepted)
    BY <2>6, LengthOfDistinct
  <2>8. k \in useful /\ k \in bucket /\ Fit(k, {})
    BY DEF Useful
  <2>9. useful \in SUBSET Keys /\ Cardinality(useful) <= MaxFiles
        /\ TotalSize(useful \cup held) <= MaxBytes /\ MaxFiles \in Nat
    BY BucketAssumption DEF Small
  <2> HIDE DEF useful, taken
  <2>10. \E a \in taken : Etag[a] = Etag[k]
    <3>1. CASE Len(Select(list, {}).accepted) >= MaxFiles
      <4>1. taken \in SUBSET Keys
        BY <2>5, <2>9
      <4>2. Cardinality(taken) \in Nat /\ Cardinality(useful) \in Nat /\ IsFiniteSet(useful)
        BY <2>9, <4>1, SetsOfKeysAreFinite
      <4>3. Cardinality(taken) >= Cardinality(useful)
        BY <2>7, <2>9, <3>1, <4>2
      <4>4. taken = useful
        BY <2>5, <4>2, <4>3, FS_Subset
      <4> QED
        BY <2>8, <4>4
    <3> QED
      BY <2>4, <2>8, <3>1
  <2>11. PICK a \in taken : Etag[a] = Etag[k]
    BY <2>10
  <2>12. ToSet(fit.accepted) = New(list, {})
    <3> DEFINE more == held \cup New(list, {})
               all == useful \cup held
    <3>1. New(list, {}) \subseteq taken
      BY DEF New, taken
    <3>2. held \in SUBSET Keys
      BY <2>1 DEF TypeOK
    <3>3. all \in SUBSET Keys /\ more \in SUBSET all
      BY <2>5, <2>9, <3>1, <3>2
    <3>4. TotalSize(all) <= MaxBytes
      BY <2>9
    <3> HIDE DEF all, more
    <3>5. TotalSize(more) <= TotalSize(all) /\ TotalSize(more) \in Nat /\ TotalSize(all) \in Nat
      <4>1. more \in SUBSET Keys
        BY <3>3
      <4> QED
        BY <3>3, <4>1, TotalSizeMonotone, TotalSizeSteps
    <3>6. TotalSize(more) <= MaxBytes
      BY <3>4, <3>5, BucketAssumption
    <3> QED
      BY <2>2, <3>6 DEF more, Imported
  <2>13. held' = held \cup New(list, {})
    BY <2>2, <2>12 DEF Imported
  <2>14. CASE \E h \in held : Etag[h] = Etag[a]
    BY <2>11, <2>13, <2>14
  <2>15. CASE \A h \in held : Etag[h] # Etag[a]
    <3>1. a \in New(list, {})
      BY <2>15 DEF New, taken
    <3> QED
      BY <2>11, <2>13, <3>1
  <2> QED
    BY <2>14, <2>15
<1>2. Spec => []BucketInv
  BY BucketSound
<1> HIDE DEF Takes
<1>3. Spec => [][Takes]_vars
  BY <1>1, <1>2, PTL DEF Spec
<1> QED
  BY <1>3 DEF SmallPrefixImported, Takes
=============================================================================
