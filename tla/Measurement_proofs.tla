-------------------------- MODULE Measurement_proofs --------------------------
(***************************************************************************)
(* What is measured of the system, and how it adds up: the requests of the *)
(* load generator and its summary, for every mix, trace, number of         *)
(* requests and concurrency; then the log that gateways append to, one     *)
(* after the other, and what the analysis makes of it, for every workload, *)
(* order of events and death of a gateway.  Both rest on the same facts    *)
(* about sums and the sizes of sets, which come first.                     *)
(***************************************************************************)
EXTENDS LoadGenerator, MeasuredRun, FiniteSetTheorems, FunctionTheorems,
        WellFoundedInduction, TLAPS

-----------------------------------------------------------------------------
(* Naturals, sizes of sets, and sums.                                      *)

\* A set of naturals has a least element.
LEMMA LeastNat == ASSUME NEW S \in SUBSET Nat, S # {} PROVE \E m \in S : \A n \in S : m <= n
  <1> DEFINE R == OpToRel(<, Nat)
  <1>1. IsWellFoundedOn(R, Nat)
    BY NatLessThanWellFounded
  <1>2. \E m \in S : \A n \in S : <<n, m>> \notin R
    <2> HIDE DEF R
    <2> QED BY <1>1, WFMin
  <1>3. \A m, n \in Nat : <<n, m>> \notin R => m <= n
    BY DEF OpToRel
  <1> QED BY <1>2, <1>3

\* Induction: a set that has 0 and the successor of what it has is Nat.
LEMMA InductiveSet ==
  ASSUME NEW P \in SUBSET Nat, 0 \in P, \A n \in P : n + 1 \in P
  PROVE  P = Nat
  <1> SUFFICES ASSUME Nat \ P # {} PROVE FALSE
    OBVIOUS
  <1>1. PICK m \in Nat \ P : \A n \in Nat \ P : m <= n
    BY LeastNat
  <1>2. m - 1 \in Nat
    BY <1>1
  <1>3. m - 1 \in P
    BY <1>1, <1>2
  <1> QED BY <1>1, <1>2, <1>3

Chosen(s) == CHOOSE x \in s : TRUE

SumStep(f, g, s) == IF s = {} THEN 0 ELSE f[Chosen(s)] + g[s \ {Chosen(s)}]

SumRec(f, g) == g = [s \in SUBSET DOMAIN f |-> SumStep(f, g, s)]

\* The sum of a function is the value of that recursion at its whole domain.
LEMMA SumIs == ASSUME NEW f PROVE SumFunction(f) = (CHOOSE g : SumRec(f, g))[DOMAIN f]
  BY DEF SumFunction, SumFunctionOnSet, FoldFunctionOnSet, MapThenFoldSet, SumRec, SumStep, Chosen

\* The recursion of a sum has a solution.
LEMMA SumDefined ==
  ASSUME NEW f, IsFiniteSet(DOMAIN f)
  PROVE  \E g : SumRec(f, g)
  <1> DEFINE D == DOMAIN f
             Upto(n) == {s \in SUBSET D : Cardinality(s) <= n}
             P == {n \in Nat : \E g : g = [s \in Upto(n) |-> SumStep(f, g, s)]}
  <1>1. \A s \in SUBSET D : IsFiniteSet(s) /\ Cardinality(s) \in Nat /\ Cardinality(s) <= Cardinality(D)
    BY FS_Subset, FS_CardinalityType
  <1>2. \A s \in SUBSET D : s # {} => /\ Chosen(s) \in s
                                      /\ Cardinality(s \ {Chosen(s)}) = Cardinality(s) - 1
    BY <1>1, FS_RemoveElement DEF Chosen
  <1>3. 0 \in P
    <2>1. \A s \in Upto(0) : s = {}
      BY <1>1, FS_EmptySet
    <2> DEFINE g == [s \in Upto(0) |-> 0]
    <2>2. g = [s \in Upto(0) |-> SumStep(f, g, s)]
      BY <2>1 DEF SumStep
    <2> QED BY <2>2
  <1>4. ASSUME NEW n \in P PROVE n + 1 \in P
    <2>1. PICK g : g = [s \in Upto(n) |-> SumStep(f, g, s)]
      OBVIOUS
    <2> DEFINE h == [s \in Upto(n + 1) |-> IF s \in Upto(n) THEN g[s] ELSE SumStep(f, g, s)]
    <2>2. ASSUME NEW s \in Upto(n + 1) PROVE h[s] = SumStep(f, h, s)
      <3>1. n \in Nat
        OBVIOUS
      <3>2. h[s] = SumStep(f, g, s)
        BY <2>1
      <3>3. CASE s = {}
        BY <3>2, <3>3 DEF SumStep
      <3>4. CASE s # {}
        <4>1. s \ {Chosen(s)} \in Upto(n)
          BY <1>1, <1>2, <3>1, <3>4
        <4>2. Upto(n) \subseteq Upto(n + 1)
          BY <1>1, <3>1
        <4>3. h[s \ {Chosen(s)}] = g[s \ {Chosen(s)}]
          BY <4>1, <4>2
        <4> HIDE DEF h
        <4> QED BY <3>2, <3>4, <4>3 DEF SumStep
      <3> QED BY <3>3, <3>4
    <2>3. h = [s \in Upto(n + 1) |-> SumStep(f, h, s)]
      <3>1. h = [s \in Upto(n + 1) |-> h[s]]
        OBVIOUS
      <3> HIDE DEF h
      <3> QED BY <2>2, <3>1
    <2>4. \E w : w = [s \in Upto(n + 1) |-> SumStep(f, w, s)]
      <3> HIDE DEF h, Upto
      <3> QED BY <2>3
    <2>5. n + 1 \in Nat
      OBVIOUS
    <2> HIDE DEF h, Upto
    <2> QED BY <2>4, <2>5
  <1>5. P = Nat
    <2> HIDE DEF P
    <2>1. P \in SUBSET Nat
      BY DEF P
    <2> QED BY <1>3, <1>4, <2>1, InductiveSet
  <1>6. Cardinality(D) \in P
    BY <1>1, <1>5
  <1>7. Upto(Cardinality(D)) = SUBSET D
    BY <1>1
  <1> QED BY <1>6, <1>7 DEF SumRec

\* A sum counts: what is disjointly counted by f's values.
LEMMA SumCounts ==
  ASSUME NEW f, NEW F, IsFiniteSet(DOMAIN f),
         \A d \in DOMAIN f : IsFiniteSet(F[d]) /\ f[d] = Cardinality(F[d]),
         \A d, e \in DOMAIN f : d # e => F[d] \cap F[e] = {}
  PROVE  /\ IsFiniteSet(UNION {F[d] : d \in DOMAIN f})
         /\ SumFunction(f) = Cardinality(UNION {F[d] : d \in DOMAIN f})
  <1> DEFINE D == DOMAIN f
             g == CHOOSE h : SumRec(f, h)
             U(s) == UNION {F[d] : d \in s}
             P == {n \in Nat : \A s \in SUBSET D : Cardinality(s) = n =>
                                 IsFiniteSet(U(s)) /\ g[s] = Cardinality(U(s))}
  <1>1. SumRec(f, g)
    BY SumDefined
  <1>2. \A s \in SUBSET D : g[s] = SumStep(f, g, s)
    <2> HIDE DEF g
    <2> QED BY <1>1 DEF SumRec
  <1> HIDE DEF g
  <1>3. \A s \in SUBSET D : IsFiniteSet(s) /\ Cardinality(s) \in Nat
    BY FS_Subset, FS_CardinalityType
  <1>4. 0 \in P
    <2> SUFFICES ASSUME NEW s \in SUBSET D, Cardinality(s) = 0
                 PROVE  IsFiniteSet(U(s)) /\ g[s] = Cardinality(U(s))
      OBVIOUS
    <2>1. s = {}
      BY <1>3, FS_EmptySet
    <2>2. U(s) = {} /\ g[s] = 0
      BY <1>2, <2>1 DEF SumStep
    <2> QED BY <2>2, FS_EmptySet
  <1>5. ASSUME NEW n \in P PROVE n + 1 \in P
    <2> SUFFICES ASSUME NEW s \in SUBSET D, Cardinality(s) = n + 1
                 PROVE  IsFiniteSet(U(s)) /\ g[s] = Cardinality(U(s))
      OBVIOUS
    <2> DEFINE x == Chosen(s)
               r == s \ {x}
    <2>1. s # {} /\ x \in s
      <3>1. n \in Nat /\ Cardinality({}) = 0
        BY FS_EmptySet
      <3>2. Cardinality(s) # 0
        BY <3>1
      <3>3. s # {}
        BY ONLY <3>1, <3>2
      <3> QED BY <3>3 DEF Chosen
    <2> HIDE DEF x
    <2>2. Cardinality(r) = n /\ r \in SUBSET D
      <3>1. IsFiniteSet(s) /\ n \in Nat /\ Cardinality(s) = n + 1
        BY <1>3
      <3> HIDE DEF U, P
      <3>2. Cardinality(r) = Cardinality(s) - 1
        BY <2>1, <3>1, FS_RemoveElement
      <3> QED BY <3>1, <3>2
    <2>3. IsFiniteSet(U(r)) /\ g[r] = Cardinality(U(r))
      <3> HIDE DEF U, r
      <3> QED BY <2>2
    <2>4. U(s) = F[x] \cup U(r) /\ F[x] \cap U(r) = {}
      <3>1. U(s) = F[x] \cup U(r)
        BY <2>1
      <3>2. F[x] \cap U(r) = {}
        BY <2>1
      <3> QED BY <3>1, <3>2
    <2>5. IsFiniteSet(F[x]) /\ f[x] = Cardinality(F[x])
      BY <2>1
    <2>6. g[s] = f[x] + g[r]
      BY <1>2, <2>1 DEF SumStep, x
    <2> HIDE DEF U, r
    <2>7. IsFiniteSet(U(s)) /\ Cardinality(U(s)) = Cardinality(F[x]) + Cardinality(U(r)) - Cardinality(F[x] \cap U(r))
      BY <2>3, <2>4, <2>5, FS_Union
    <2>8. Cardinality(F[x] \cap U(r)) = 0
      BY <2>4, FS_EmptySet
    <2>9. Cardinality(F[x]) \in Nat /\ Cardinality(U(r)) \in Nat
      BY <2>3, <2>5, FS_CardinalityType
    <2> QED BY <2>3, <2>5, <2>6, <2>7, <2>8, <2>9
  <1>6. P = Nat
    <2> HIDE DEF P
    <2>1. P \in SUBSET Nat
      BY DEF P
    <2> QED BY <1>4, <1>5, <2>1, InductiveSet
  <1>7. IsFiniteSet(U(D)) /\ g[D] = Cardinality(U(D))
    BY <1>3, <1>6
  <1> QED BY <1>7, SumIs DEF g

\* The same, with a name for what is counted.
LEMMA SumCountsUnion ==
  ASSUME NEW f, NEW F, NEW U, IsFiniteSet(DOMAIN f),
         \A d \in DOMAIN f : IsFiniteSet(F[d]) /\ f[d] = Cardinality(F[d]),
         \A d, e \in DOMAIN f : d # e => F[d] \cap F[e] = {},
         U = UNION {F[d] : d \in DOMAIN f}
  PROVE  IsFiniteSet(U) /\ SumFunction(f) = Cardinality(U)
  BY SumCounts

\* A function that is one to one, or onto, compares the sizes of two sets.
LEMMA OneToOne ==
  ASSUME NEW S, NEW T, IsFiniteSet(T), NEW f \in [S -> T],
         \A x, y \in S : f[x] = f[y] => x = y
  PROVE  IsFiniteSet(S) /\ Cardinality(S) <= Cardinality(T)
  <1>1. f \in Injection(S, T)
    BY DEF Injection, IsInjective
  <1> QED BY <1>1, FS_Injection

\* The same, for a function that is onto.
LEMMA Onto ==
  ASSUME NEW S, NEW T, IsFiniteSet(S), NEW f \in [S -> T],
         \A y \in T : \E x \in S : f[x] = y
  PROVE  IsFiniteSet(T) /\ Cardinality(T) <= Cardinality(S)
  <1>1. f \in Surjection(S, T)
    BY DEF Surjection
  <1> QED BY <1>1, FS_Surjection

\* And for one that is both.
LEMMA OneToOneOnto ==
  ASSUME NEW S, NEW T, IsFiniteSet(S), NEW f \in [S -> T],
         \A x, y \in S : f[x] = f[y] => x = y,
         \A y \in T : \E x \in S : f[x] = y
  PROVE  IsFiniteSet(T) /\ Cardinality(T) = Cardinality(S)
  <1>1. IsFiniteSet(T) /\ Cardinality(T) <= Cardinality(S)
    BY Onto
  <1>2. Cardinality(S) <= Cardinality(T)
    BY <1>1, OneToOne
  <1> QED BY <1>1, <1>2, FS_CardinalityType

\* The sizes of two sets that share nothing add up.
LEMMA DisjointUnion ==
  ASSUME NEW S, NEW T, IsFiniteSet(S), IsFiniteSet(T), S \cap T = {}
  PROVE  /\ IsFiniteSet(S \cup T)
         /\ Cardinality(S \cup T) = Cardinality(S) + Cardinality(T)
  <1>1. Cardinality(S \cap T) = 0
    BY FS_EmptySet
  <1>2. Cardinality(S) \in Nat /\ Cardinality(T) \in Nat
    BY FS_CardinalityType
  <1>3. /\ IsFiniteSet(S \cup T)
        /\ Cardinality(S \cup T) = Cardinality(S) + Cardinality(T) - Cardinality(S \cap T)
    BY FS_Union
  <1> QED BY <1>1, <1>2, <1>3

\* A factor of at least one does not make a number smaller.
LEMMA Multiple == ASSUME NEW q \in Nat, NEW a \in Nat \ {0} PROVE q <= q * a
  OBVIOUS

\* A quotient and a remainder, and what they make of the number.
LEMMA Remainder ==
  ASSUME NEW n \in Nat, NEW q \in Nat \ {0}
  PROVE  /\ (n % q) \in 0..(q - 1) /\ (n \div q) \in Nat
         /\ n = (q * (n \div q)) + (n % q)
  OBVIOUS

\* A whole cycle later the remainder is the same.
LEMMA OneCycleLater ==
  ASSUME NEW n \in Nat, NEW q \in Nat \ {0} PROVE (n + q) % q = n % q
  <1> DEFINE a == n \div q
             r == n % q
             b == (n + q) \div q
             s == (n + q) % q
  <1>1. /\ a \in Nat /\ r \in Nat /\ r < q /\ n = (q * a) + r
        /\ b \in Nat /\ s \in Nat /\ s < q /\ n + q = (q * b) + s
    <2>1. n + q \in Nat
      OBVIOUS
    <2> QED BY <2>1, Remainder
  <1> HIDE DEF a, r, b, s
  <1>2. q * (a + 1) = (q * a) + q
    BY <1>1
  <1>3. (q * (a + 1)) + r = (q * b) + s
    BY <1>1, <1>2
  <1>4. ASSUME NEW c \in Nat, NEW d \in Nat, NEW u \in Nat, NEW v \in Nat, u < q, v < q,
               c < d
        PROVE  (q * c) + u < (q * d) + v
    <2>1. q * d = (q * c) + (q * (d - c))
      BY <1>4
    <2>2. d - c \in Nat \ {0}
      BY <1>4
    <2>3. q <= q * (d - c)
      BY <2>2, Multiple
    <2>4. q * c \in Nat /\ q * (d - c) \in Nat
      BY <2>2
    <2> QED BY <1>4, <2>1, <2>3, <2>4
  <1>5. a + 1 = b
    <2>1. a + 1 \in Nat
      BY <1>1
    <2>2. ~ (a + 1 < b) /\ ~ (b < a + 1)
      <3>1. (q * (a + 1)) + r \in Nat /\ (q * b) + s \in Nat
        BY <1>1, <2>1
      <3> QED BY <1>1, <1>3, <1>4, <2>1, <3>1
    <2> QED BY <1>1, <2>1, <2>2
  <1>6. r = s
    <2>1. q * b \in Nat
      BY <1>1
    <2> QED BY <1>1, <1>3, <1>5, <2>1
  <1> QED BY <1>6 DEF r, s

-----------------------------------------------------------------------------
(* The load generator: its inductive invariant.                            *)

Stages == {"queued", "sending", "ok", "error", "raised"}

\* The rows replayed are those of a trace, so that there is a number of them.
KnownJob == Replay => job.rows \in Replayed

\* main() collects, waits or writes only after it has submitted everything;
\* it fails on a mix it cannot parse, or when everything has ended.
Places ==
  /\ main \in {"collect", "unwind", "written"} => Len(send) = Count
  /\ main = "written" => collected = 1..Count
  /\ main = "failed" /\ Valid => Ended = 1..Count

\* The queue of the executor is first in, first out.
InOrder == \A i \in Begun : \A j \in 1..i : j \in Begun

LoadInv == TypeOK /\ KnownJob /\ Places /\ InOrder

\* Every job has a number of requests.
LEMMA CountIsNat == ASSUME KnownJob PROVE Count \in Nat
  BY LoadAssumption DEF KnownJob, Count

\* Nothing is decided anew while a job runs.
LEMMA JobKept ==
  ASSUME UNCHANGED job
  PROVE  Count' = Count /\ (KnownJob => KnownJob') /\ Valid' = Valid
  BY DEF Count, KnownJob, Replay, Valid

\* A step that leaves the requests alone leaves every set of them alone.
LEMMA SendKept ==
  ASSUME UNCHANGED send, InOrder
  PROVE  /\ \A S : Are(S)' = Are(S)
         /\ Submitted' = Submitted /\ Ended' = Ended /\ InOrder'
  BY DEF Are, Submitted, Ended, Begun, InOrder

\* The requests in one stage are finitely many.
LEMMA AreFinite ==
  ASSUME NEW S, Len(send) \in Nat PROVE IsFiniteSet(Are(S))
  <1>1. IsFiniteSet(1..Len(send))
    BY FS_Interval
  <1>2. Are(S) \in SUBSET (1..Len(send))
    BY DEF Are, Submitted
  <1> QED BY <1>1, <1>2, FS_Subset

\* The invariant holds initially.
LEMMA LoadInvInit == Init => LoadInv
  <1> SUFFICES ASSUME Init PROVE LoadInv
    OBVIOUS
  <1>1. KnownJob
    BY DEF Init, KnownJob, Replay
  <1>2. send = <<>> /\ Submitted = {} /\ Are({"sending"}) = {} /\ Ended = {} /\ Begun = {}
    BY DEF Init, Submitted, Are, Ended, Begun
  <1>3. Cardinality(Are({"sending"})) = 0
    BY <1>2, FS_EmptySet
  <1>4. TypeOK
    BY <1>1, <1>2, <1>3, CountIsNat, LoadAssumption DEF Init, TypeOK
  <1>5. Places /\ InOrder
    BY <1>2 DEF Init, Places, InOrder
  <1> QED BY <1>1, <1>4, <1>5 DEF LoadInv

\* Steps that move main() or the clock and leave the requests alone.
LEMMA MainKeepsInv ==
  ASSUME LoadInv,
         \/ Parse \/ BeginCollect \/ Unwind \/ WriteSummary \/ Tick
         \/ \E i \in Submitted : Collect(i) \/ CollectRaises(i)
  PROVE  LoadInv'
  <1> USE DEF LoadInv
  <1>1. UNCHANGED <<job, send>>
    BY DEF Parse, BeginCollect, Unwind, WriteSummary, Tick, Collect, CollectRaises
  <1>2. /\ Count' = Count /\ KnownJob' /\ Valid' = Valid /\ Count \in Nat
        /\ \A S : Are(S)' = Are(S)
        /\ Submitted' = Submitted /\ Ended' = Ended /\ InOrder'
    BY <1>1, JobKept, SendKept, CountIsNat
  <1>3. collected' \subseteq Ended
    <2>1. UNCHANGED collected \/ \E i \in Submitted : Collect(i)
      BY DEF Parse, BeginCollect, Unwind, WriteSummary, Tick, CollectRaises
    <2>2. ASSUME NEW i \in Submitted, Collect(i) PROVE collected' \subseteq Ended
      BY <2>2 DEF Collect, Ended, Are, TypeOK
    <2> QED BY <2>1, <2>2 DEF TypeOK
  <1>4. TypeOK'
    <2>1. now' \in Nat
      BY DEF Parse, BeginCollect, Unwind, WriteSummary, Tick, Collect, CollectRaises, TypeOK
    <2>2. main' \in {"parse", "submit", "collect", "unwind", "written", "failed"}
      BY DEF Parse, BeginCollect, Unwind, WriteSummary, Tick, Collect, CollectRaises, Goto,
             TypeOK
    <2>3. Cardinality(Are({"sending"}))' = Cardinality(Are({"sending"}))
      BY <1>2
    <2> QED BY <1>1, <1>2, <1>3, <2>1, <2>2, <2>3 DEF TypeOK
  <1>5. Places'
    <2>1. CASE Parse
      BY <1>1, <1>2, <2>1 DEF Parse, Goto, Places, Valid
    <2>2. CASE BeginCollect
      BY <1>1, <1>2, <2>2 DEF BeginCollect, Goto, Places
    <2>3. CASE Unwind
      BY <1>1, <1>2, <2>3 DEF Unwind, Goto, Places, Submitted
    <2>4. CASE WriteSummary
      BY <1>1, <1>2, <2>4 DEF WriteSummary, Goto, Places
    <2>5. CASE Tick
      BY <1>1, <1>2, <2>5 DEF Tick, Places
    <2>6. CASE \E i \in Submitted : Collect(i) \/ CollectRaises(i)
      BY <1>1, <1>2, <2>6 DEF Collect, CollectRaises, Goto, Places
    <2> QED BY <2>1, <2>2, <2>3, <2>4, <2>5, <2>6
  <1> QED BY <1>2, <1>4, <1>5

\* A request is submitted at the end of the queue.
LEMMA SubmitKeepsInv == ASSUME LoadInv, Submit PROVE LoadInv'
  <1> USE DEF LoadInv
  <1>1. Count' = Count /\ KnownJob' /\ Valid' = Valid /\ Count \in Nat
    BY JobKept, CountIsNat DEF Submit
  <1>2. send' \in Seq(Stages) /\ Len(send') = Len(send) + 1 /\ Len(send) \in Nat
    BY DEF Submit, TypeOK, Stages
  <1>3. /\ \A i \in Submitted : send'[i] = send[i]
        /\ send'[Len(send) + 1] = "queued"
        /\ Submitted' = Submitted \cup {Len(send) + 1}
    BY <1>2 DEF Submit, TypeOK, Submitted
  <1>4. Are({"sending"})' = Are({"sending"}) /\ Ended' = Ended /\ Begun' = Begun
    BY <1>3 DEF Are, Ended, Begun
  <1>5. Cardinality(Are({"sending"}))' = Cardinality(Are({"sending"}))
    BY <1>4
  <1>6. TypeOK'
    BY <1>1, <1>2, <1>4, <1>5 DEF Submit, TypeOK, Stages
  <1>7. Places' /\ InOrder'
    BY <1>4 DEF Submit, Places, InOrder
  <1> QED BY <1>1, <1>6, <1>7

\* A free worker takes the head of the queue: all before it have begun.
LEMMA StartSendKeepsInv == ASSUME LoadInv, StartSend PROVE LoadInv'
  <1> USE DEF LoadInv
  <1>1. Count' = Count /\ KnownJob' /\ Valid' = Valid /\ Count \in Nat
    BY JobKept, CountIsNat DEF StartSend
  <1>2. PICK i \in Submitted : IsNext(i) /\ send' = [send EXCEPT ![i] = "sending"]
    BY DEF StartSend
  <1>3. send' \in Seq(Stages) /\ Len(send') = Len(send) /\ Len(send) \in Nat
    BY <1>2 DEF TypeOK, Stages, Submitted
  <1>4. /\ send'[i] = "sending" /\ send[i] = "queued" /\ Submitted' = Submitted
        /\ \A j \in Submitted \ {i} : send'[j] = send[j]
    BY <1>2, <1>3 DEF IsNext, Submitted, TypeOK
  <1>5. Ended' = Ended /\ Are({"sending"})' = Are({"sending"}) \cup {i}
    BY <1>4 DEF Are, Ended
  <1>6. Begun' = Begun \cup {i}
    BY <1>5 DEF Begun
  <1>7. Cardinality(Are({"sending"}))' <= Concurrency
    <2>1. IsFiniteSet(Are({"sending"})) /\ i \notin Are({"sending"})
      BY <1>3, <1>4, AreFinite DEF Are
    <2>2. Cardinality(Are({"sending"}) \cup {i}) = Cardinality(Are({"sending"})) + 1
      BY <2>1, FS_AddElement
    <2>3. Cardinality(Are({"sending"})) \in Nat /\ Concurrency \in Nat
      BY <2>1, FS_CardinalityType, LoadAssumption
    <2>4. Cardinality(Are({"sending"}))' = Cardinality(Are({"sending"}) \cup {i})
      BY <1>5
    <2> QED BY <2>2, <2>3, <2>4 DEF StartSend
  <1>8. TypeOK'
    BY <1>1, <1>3, <1>5, <1>7 DEF StartSend, TypeOK, Stages
  <1>9. InOrder'
    <2>1. \A j \in 1..(i - 1) : j \in Begun
      BY <1>2, <1>3 DEF IsNext, Begun, Ended, Are, Submitted, TypeOK
    <2> QED BY <1>3, <1>6, <2>1 DEF InOrder, Submitted
  <1>10. Places'
    BY <1>1, <1>3, <1>5 DEF StartSend, Places
  <1> QED BY <1>1, <1>8, <1>9, <1>10

\* A send ends, and stays ended.
LEMMA EndSendKeepsInv ==
  ASSUME LoadInv, NEW i \in Submitted, EndSend(i) PROVE LoadInv'
  <1> USE DEF LoadInv
  <1>1. Count' = Count /\ KnownJob' /\ Valid' = Valid /\ Count \in Nat
    BY JobKept, CountIsNat DEF EndSend
  <1>2. PICK outcome \in {"ok", "error", "raised"} : send' = [send EXCEPT ![i] = outcome]
    BY DEF EndSend
  <1>3. send' \in Seq(Stages) /\ Len(send') = Len(send) /\ Len(send) \in Nat
    BY <1>2 DEF TypeOK, Stages, Submitted
  <1>4. /\ send'[i] = outcome /\ send[i] = "sending" /\ Submitted' = Submitted
        /\ \A j \in Submitted \ {i} : send'[j] = send[j]
    BY <1>2, <1>3 DEF EndSend, Are, Submitted, TypeOK
  <1>5. Ended' = Ended \cup {i} /\ Are({"sending"})' = Are({"sending"}) \ {i}
    BY <1>4 DEF Are, Ended
  <1>6. Begun' = Begun
    BY <1>4, <1>5 DEF Begun, Are
  <1>7. Cardinality(Are({"sending"}))' <= Concurrency
    <2>1. IsFiniteSet(Are({"sending"})) /\ Are({"sending"}) \ {i} \in SUBSET Are({"sending"})
      BY <1>3, AreFinite
    <2>2. /\ Cardinality(Are({"sending"}) \ {i}) <= Cardinality(Are({"sending"}))
          /\ Cardinality(Are({"sending"}) \ {i}) \in Nat
          /\ Cardinality(Are({"sending"})) \in Nat /\ Concurrency \in Nat
      BY <2>1, FS_Subset, FS_CardinalityType, LoadAssumption
    <2>3. Cardinality(Are({"sending"}))' = Cardinality(Are({"sending"}) \ {i})
      BY <1>5
    <2> QED BY <2>2, <2>3 DEF TypeOK
  <1>8. TypeOK'
    BY <1>1, <1>3, <1>5, <1>7 DEF EndSend, TypeOK, Stages
  <1>9. InOrder'
    BY <1>6 DEF InOrder
  <1>10. Places'
    <2>1. i \notin Ended
      BY <1>4 DEF Ended, Are
    <2>2. i \in 1..Count
      BY <1>1, <1>3 DEF TypeOK, Submitted
    <2> QED BY <1>1, <1>3, <2>1, <2>2 DEF EndSend, Places
  <1> QED BY <1>1, <1>8, <1>9, <1>10

\* Every step preserves the invariant.
LEMMA LoadInvStep == LoadInv /\ [Next]_vars => LoadInv'
  <1> SUFFICES ASSUME LoadInv, [Next]_vars PROVE LoadInv'
    OBVIOUS
  <1>1. CASE MainStep
    BY <1>1, MainKeepsInv, SubmitKeepsInv DEF MainStep
  <1>2. CASE Tick
    BY <1>2, MainKeepsInv
  <1>3. CASE StartSend
    BY <1>3, StartSendKeepsInv
  <1>4. CASE \E i \in Submitted : EndSend(i)
    BY <1>4, EndSendKeepsInv
  <1>5. CASE UNCHANGED vars
    <2>1. /\ Count' = Count /\ KnownJob' /\ Valid' = Valid
          /\ \A S : Are(S)' = Are(S)
          /\ Ended' = Ended /\ InOrder'
      BY <1>5, JobKept, SendKept DEF vars, LoadInv
    <2>2. Cardinality(Are({"sending"}))' = Cardinality(Are({"sending"}))
      BY <2>1
    <2> QED BY <1>5, <2>1, <2>2 DEF vars, LoadInv, TypeOK, Places
  <1> QED BY <1>1, <1>2, <1>3, <1>4, <1>5 DEF Next

\* The invariant holds in every reachable state.
LEMMA LoadInvariant == Spec => []LoadInv
  BY LoadInvInit, LoadInvStep, PTL DEF Spec

(* loadgen.py: the pool never sends more at a time than --concurrency, and *)
(* never collects what has not ended.                                      *)
THEOREM LoadTypeCorrect == Spec => []TypeOK
  <1>1. LoadInv => TypeOK
    BY DEF LoadInv
  <1> QED BY <1>1, LoadInvariant, PTL

(* loadgen.py: no load is in flight when the program has ended, whichever  *)
(* sends raised, whatever the mix, the trace and the concurrency.          *)
THEOREM AllSendsEnd == Spec => []ExitAfterAllSends
  <1>1. LoadInv => ExitAfterAllSends
    <2> SUFFICES ASSUME LoadInv, Exited, Valid PROVE Ended = 1..Count
      BY DEF ExitAfterAllSends
    <2>1. CASE main = "failed"
      BY <2>1 DEF LoadInv, Places
    <2>2. CASE main = "written"
      <3>1. 1..Count \subseteq Ended /\ Len(send) = Count
        BY <2>2 DEF LoadInv, Places, TypeOK
      <3> QED BY <3>1 DEF Ended, Are, Submitted
    <2> QED BY <2>1, <2>2 DEF Exited
  <1> QED BY <1>1, LoadInvariant, PTL
-----------------------------------------------------------------------------
\* A trace as gen-trace.py writes it: rows in the order of their arrivals.
Sorted(rows) ==
  \A i, j \in 1..Len(rows) :
    rows[i].arrival \in Nat /\ (i <= j => rows[i].arrival <= rows[j].arrival)

TracesSorted == \A r \in Replayed : Sorted(r)

\* Nothing is even submitted before it arrives.
Timely == Replay => \A i \in Submitted : Arrival(i) <= now

\* Arrivals of a sorted trace are numbers in order.
LEMMA ArrivalsInOrder ==
  ASSUME LoadInv, TracesSorted, Replay, NEW i \in 1..Count, NEW j \in 1..Count
  PROVE  Arrival(i) \in Nat /\ (i <= j => Arrival(i) <= Arrival(j))
  <1>1. Sorted(job.rows) /\ Count = Len(job.rows)
    BY DEF LoadInv, KnownJob, TracesSorted, Count
  <1> QED BY <1>1 DEF Sorted, Arrival

\* Submission waits for the arrival, and time does not go back.
LEMMA TimelyStep ==
  ASSUME LoadInv, LoadInv', TracesSorted, Timely, [Next]_vars PROVE Timely'
  <1> SUFFICES ASSUME Replay', NEW i \in Submitted' PROVE Arrival(i)' <= now'
    BY DEF Timely
  <1>1. UNCHANGED job
    BY DEF Next, MainStep, Parse, Submit, BeginCollect, Unwind, WriteSummary, Collect,
           CollectRaises, Tick, StartSend, EndSend, vars
  <1>2. Replay /\ Arrival(i)' = Arrival(i) /\ i \in 1..Count
    <2>1. Replay /\ Arrival(i)' = Arrival(i) /\ Count' = Count
      BY <1>1 DEF Replay, Arrival, Count
    <2>2. i \in 1..Count'
      BY CountIsNat, <1>1, <2>1 DEF LoadInv, TypeOK, Submitted
    <2> QED BY <2>1, <2>2
  <1>3. Arrival(i) \in Nat
    BY <1>2, ArrivalsInOrder
  <1>4. CASE Submit
    <2>1. now' = now /\ now >= Arrival(Len(send) + 1) /\ Submitted' = Submitted \cup {Len(send) + 1}
      BY <1>4 DEF Submit, Submitted, LoadInv, TypeOK
    <2> QED BY <1>2, <1>3, <2>1 DEF Timely, LoadInv, TypeOK
  <1>5. CASE ~ Submit
    <2>1. Submitted' = Submitted
      BY <1>5 DEF Next, MainStep, Parse, BeginCollect, Unwind, WriteSummary, Collect,
                  CollectRaises, Tick, StartSend, EndSend, vars, Submitted, LoadInv, TypeOK
    <2>2. now' = now \/ now' = now + 1
      BY <1>5 DEF Next, MainStep, Parse, BeginCollect, Unwind, WriteSummary, Collect,
                  CollectRaises, Tick, StartSend, EndSend, vars
    <2> QED BY <1>2, <1>3, <2>1, <2>2 DEF Timely, LoadInv, TypeOK
  <1> QED BY <1>4, <1>5

(* loadgen.py:6, "replay an arrival-driven JSONL trace": for every sorted  *)
(* trace and every concurrency no request is sent before it arrives, nor   *)
(* before one that arrives earlier.  A trace out of order would not do:    *)
(* load_trace() keeps the order of the file.                               *)
THEOREM ReplayInOrder == ASSUME TracesSorted PROVE Spec => []ReplayFollowsTrace
  <1>1. Init => Timely
    BY DEF Init, Timely, Submitted
  <1>2. LoadInv /\ LoadInv' /\ Timely /\ [Next]_vars => Timely'
    BY TimelyStep
  <1>3. LoadInv /\ Timely => ReplayFollowsTrace
    <2> SUFFICES ASSUME LoadInv, Timely, Replay, NEW i \in Begun
                 PROVE  /\ Arrival(i) <= now
                        /\ \A j \in 1..Count : Arrival(j) < Arrival(i) => j \in Begun
      BY DEF ReplayFollowsTrace
    <2>1. i \in Submitted /\ i \in 1..Count
      BY CountIsNat DEF Begun, Ended, Are, Submitted, LoadInv, TypeOK
    <2>2. ASSUME NEW j \in 1..Count, Arrival(j) < Arrival(i) PROVE j \in Begun
      <3>1. j <= i
        <4> SUFFICES ASSUME i < j PROVE FALSE
          BY <2>1, CountIsNat DEF LoadInv
        <4>1. Arrival(i) \in Nat /\ Arrival(j) \in Nat /\ Arrival(i) <= Arrival(j)
          BY <2>1, ArrivalsInOrder, CountIsNat DEF LoadInv
        <4> QED BY <4>1, <2>2
      <3> QED BY <3>1, <2>1, CountIsNat DEF LoadInv, InOrder
    <2> QED BY <2>1, <2>2 DEF Timely
  <1> QED BY <1>1, <1>2, <1>3, LoadInvariant, PTL DEF Spec

-----------------------------------------------------------------------------
(* What a mix is expanded into, and its summary.                           *)

\* What FlattenSeq() has put together after each of the sequences.
FlatOf(seqs, flat) ==
  flat = [i \in 1..Len(seqs) |-> IF i = 1 THEN seqs[i] ELSE flat[i - 1] \o seqs[i]]

\* The recursion of FlattenSeq() has a solution.
LEMMA FlatDefined ==
  ASSUME NEW seqs, Len(seqs) \in Nat PROVE \E flat : FlatOf(seqs, flat)
  <1> DEFINE At(g, i) == IF i = 1 THEN seqs[i] ELSE g[i - 1] \o seqs[i]
             P == {n \in Nat : \E g : g = [i \in 1..n |-> At(g, i)]}
  <1>1. 0 \in P
    <2> DEFINE g == [i \in 1..0 |-> 0]
    <2>1. g = [i \in 1..0 |-> At(g, i)]
      OBVIOUS
    <2> QED BY <2>1
  <1>2. ASSUME NEW n \in P PROVE n + 1 \in P
    <2>1. PICK g : g = [i \in 1..n |-> At(g, i)]
      OBVIOUS
    <2> DEFINE h == [i \in 1..(n + 1) |-> At(g, i)]
    <2>0. n \in Nat
      OBVIOUS
    <2>2. \A i \in 1..n : h[i] = g[i]
      <3> HIDE DEF At, P
      <3>1. \A i \in 1..n : g[i] = At(g, i)
        BY <2>1
      <3> QED BY <3>1, <2>0
    <2>3. ASSUME NEW i \in 1..(n + 1) PROVE h[i] = At(h, i)
      <3>1. n \in Nat /\ h[i] = At(g, i)
        OBVIOUS
      <3>2. i # 1 => h[i - 1] = g[i - 1]
        <4> HIDE DEF h, P
        <4> QED BY <2>0, <2>2
      <3> HIDE DEF h
      <3> QED BY <3>1, <3>2
    <2>4. h = [i \in 1..(n + 1) |-> At(h, i)]
      <3>1. h = [i \in 1..(n + 1) |-> h[i]]
        OBVIOUS
      <3> HIDE DEF h, At
      <3> QED BY <2>3, <3>1
    <2>5. \E w : w = [i \in 1..(n + 1) |-> At(w, i)]
      <3> HIDE DEF h, At
      <3> QED BY <2>4
    <2> HIDE DEF h, At
    <2> QED BY <2>5
  <1>3. P = Nat
    <2> HIDE DEF P
    <2>1. P \in SUBSET Nat
      BY DEF P
    <2> QED BY <1>1, <1>2, <2>1, InductiveSet
  <1> QED BY <1>3 DEF FlatOf

\* FlattenSeq() is what has been put together in the end.
LEMMA FlattenIs ==
  ASSUME NEW seqs, Len(seqs) \in Nat \ {0}
  PROVE  \E flat : FlatOf(seqs, flat) /\ FlattenSeq(seqs) = flat[Len(seqs)]
  <1> DEFINE flat == CHOOSE f : FlatOf(seqs, f)
  <1>1. FlatOf(seqs, flat)
    BY FlatDefined
  <1>2. FlattenSeq(seqs) = flat[Len(seqs)]
    BY DEF FlattenSeq, FlatOf
  <1> HIDE DEF flat
  <1> QED BY <1>1, <1>2

\* Where the elements of the i-th sequence are in what is put together.
Offset(flat, i) == IF i = 1 THEN 0 ELSE Len(flat[i - 1])
Slot(seqs, flat, i) == (Offset(flat, i) + 1)..(Offset(flat, i) + Len(seqs[i]))

\* Of what is put together of the first n sequences: each is in its slot, the
\* slots follow one another, and there is nothing else.
LaidOut(A, seqs, flat, n) ==
  /\ flat[n] \in Seq(A) /\ Len(flat[n]) = Offset(flat, n) + Len(seqs[n])
  /\ \A j \in 1..n :
       /\ Offset(flat, j) \in Nat /\ Offset(flat, j) + Len(seqs[j]) <= Len(flat[n])
       /\ \A k \in 1..Len(seqs[j]) : flat[n][Offset(flat, j) + k] = seqs[j][k]
  /\ \A j, l \in 1..n : j < l => Offset(flat, j) + Len(seqs[j]) <= Offset(flat, l)
  /\ \A p \in 1..Len(flat[n]) : \E j \in 1..n : p \in Slot(seqs, flat, j)

\* One more sequence is laid out behind those before it.
LEMMA LayoutStep ==
  ASSUME NEW A, NEW seqs \in Seq(Seq(A)), NEW flat, FlatOf(seqs, flat),
         NEW n \in 1..Len(seqs), n + 1 \in 1..Len(seqs), LaidOut(A, seqs, flat, n)
  PROVE  LaidOut(A, seqs, flat, n + 1)
  <1> DEFINE m == n + 1
             old == flat[n]
             piece == seqs[m]
             new == flat[m]
  <1>1. m \in Nat /\ m # 1 /\ n = m - 1 /\ n \in Nat /\ Offset(flat, m) = Len(old)
    BY DEF Offset
  <1>2. new = old \o piece
    BY <1>1 DEF FlatOf
  <1>3. old \in Seq(A) /\ piece \in Seq(A) /\ Len(old) \in Nat /\ Len(piece) \in Nat
    BY DEF LaidOut
  <1> HIDE DEF old, piece, new, m
  <1>4. /\ new \in Seq(A) /\ Len(new) = Len(old) + Len(piece)
        /\ \A p \in 1..Len(old) : new[p] = old[p]
        /\ \A k \in 1..Len(piece) : new[Len(old) + k] = piece[k]
    BY <1>2, <1>3
  <1>5. \A j \in 1..n : Len(seqs[j]) \in Nat
    OBVIOUS
  <1>6. 1..m = 1..n \cup {m} /\ m \notin 1..n
    BY <1>1
  <1>7. /\ \A j \in 1..n :
             /\ Offset(flat, j) \in Nat /\ Offset(flat, j) + Len(seqs[j]) <= Len(old)
             /\ \A k \in 1..Len(seqs[j]) : old[Offset(flat, j) + k] = seqs[j][k]
        /\ \A j, l \in 1..n : j < l => Offset(flat, j) + Len(seqs[j]) <= Offset(flat, l)
        /\ \A p \in 1..Len(old) : \E j \in 1..n : p \in Slot(seqs, flat, j)
    BY DEF LaidOut, old
  <1>8. flat[m] = new /\ seqs[m] = piece
    BY DEF new, piece
  <1>9. ASSUME NEW j \in 1..m
        PROVE  /\ Offset(flat, j) \in Nat /\ Offset(flat, j) + Len(seqs[j]) <= Len(new)
               /\ \A k \in 1..Len(seqs[j]) : new[Offset(flat, j) + k] = seqs[j][k]
    <2>1. CASE j = m
      BY <2>1, <1>1, <1>3, <1>4, <1>8
    <2>2. CASE j \in 1..n
      <3>1. /\ Offset(flat, j) \in Nat /\ Offset(flat, j) + Len(seqs[j]) <= Len(old)
            /\ Len(seqs[j]) \in Nat
        BY <1>5, <1>7, <2>2
      <3>2. ASSUME NEW k \in 1..Len(seqs[j])
            PROVE  new[Offset(flat, j) + k] = old[Offset(flat, j) + k]
        <4> DEFINE offset == Offset(flat, j)
                   length == Len(seqs[j])
        <4>1. offset \in Nat /\ length \in Nat /\ offset + length <= Len(old) /\ k \in 1..length
          BY <3>1
        <4> HIDE DEF offset, length
        <4>2. offset + k \in 1..Len(old)
          BY <1>3, <4>1
        <4>3. new[offset + k] = old[offset + k]
          BY <1>4, <4>2
        <4> QED BY <4>3 DEF offset
      <3>3. Offset(flat, j) + Len(seqs[j]) <= Len(new)
        <4> DEFINE end == Offset(flat, j) + Len(seqs[j])
        <4>1. end \in Nat /\ end <= Len(old)
          BY ONLY <3>1
        <4>2. Len(new) = Len(old) + Len(piece)
          BY ONLY <1>4
        <4> HIDE DEF end
        <4>3. end <= Len(new)
          BY <1>3, <4>1, <4>2
        <4> QED BY <4>3 DEF end
      <3>4. \A k \in 1..Len(seqs[j]) : old[Offset(flat, j) + k] = seqs[j][k]
        BY <1>7, <2>2
      <3>5. \A k \in 1..Len(seqs[j]) : new[Offset(flat, j) + k] = seqs[j][k]
        BY <3>2, <3>4
      <3> QED BY <3>1, <3>3, <3>5
    <2> QED BY <1>6, <2>1, <2>2
  <1>10. \A j, l \in 1..m : j < l => Offset(flat, j) + Len(seqs[j]) <= Offset(flat, l)
    <2> SUFFICES ASSUME NEW j \in 1..m, NEW l \in 1..m, j < l
                 PROVE  Offset(flat, j) + Len(seqs[j]) <= Offset(flat, l)
      OBVIOUS
    <2>1. j \in 1..n
      BY <1>1
    <2> QED BY <2>1, <1>1, <1>6, <1>7
  <1>11. \A p \in 1..Len(new) : \E j \in 1..m : p \in Slot(seqs, flat, j)
    <2> SUFFICES ASSUME NEW p \in 1..Len(new) PROVE \E j \in 1..m : p \in Slot(seqs, flat, j)
      OBVIOUS
    <2>1. CASE p \in 1..Len(old)
      BY <2>1, <1>6, <1>7
    <2>2. CASE p \notin 1..Len(old)
      <3>1. p \in Slot(seqs, flat, m)
        BY <2>2, <1>1, <1>3, <1>4, <1>8 DEF Slot
      <3> QED BY <3>1, <1>6
    <2> QED BY <2>1, <2>2
  <1>12. LaidOut(A, seqs, flat, m)
    BY <1>1, <1>4, <1>8, <1>9, <1>10, <1>11 DEF LaidOut
  <1> QED BY <1>12 DEF m

\* All of them are laid out, one behind the other.
LEMMA Layout ==
  ASSUME NEW A, NEW seqs \in Seq(Seq(A)), NEW flat, FlatOf(seqs, flat), seqs # <<>>
  PROVE  LaidOut(A, seqs, flat, Len(seqs))
  <1> DEFINE P == {n \in Nat : n \in 1..Len(seqs) => LaidOut(A, seqs, flat, n)}
  <1>1. 0 \in P
    OBVIOUS
  <1>2. ASSUME NEW n \in P PROVE n + 1 \in P
    <2> SUFFICES ASSUME n + 1 \in 1..Len(seqs) PROVE LaidOut(A, seqs, flat, n + 1)
      OBVIOUS
    <2>1. CASE n = 0
      <3>1. flat[1] = seqs[1] /\ Offset(flat, 1) = 0 /\ seqs[1] \in Seq(A)
        BY <2>1 DEF FlatOf, Offset
      <3>2. Len(seqs[1]) \in Nat /\ 1..1 = {1}
        BY <3>1
      <3>3. LaidOut(A, seqs, flat, 1)
        <4> DEFINE length == Len(seqs[1])
        <4>1. flat[1] \in Seq(A) /\ length \in Nat /\ Len(flat[1]) = length
          BY <3>1
        <4>2. /\ Offset(flat, 1) \in Nat /\ Offset(flat, 1) + length <= Len(flat[1])
              /\ \A k \in 1..length : flat[1][Offset(flat, 1) + k] = seqs[1][k]
          BY <3>1, <4>1
        <4>3. \A p \in 1..Len(flat[1]) : p \in Slot(seqs, flat, 1)
          BY <3>1, <4>1 DEF Slot
        <4> HIDE DEF length, P
        <4> QED BY <3>2, <4>1, <4>2, <4>3 DEF LaidOut, length
      <3> QED BY <2>1, <3>3
    <2>2. CASE n # 0
      <3>1. n \in 1..Len(seqs) /\ LaidOut(A, seqs, flat, n)
        BY <2>2
      <3> HIDE DEF P
      <3> QED BY <3>1, LayoutStep
    <2> QED BY <2>1, <2>2
  <1>3. P = Nat
    <2> HIDE DEF P
    <2>1. P \in SUBSET Nat
      BY DEF P
    <2> QED BY <1>1, <1>2, <2>1, InductiveSet
  <1> QED BY <1>3

Schedule(mix) == BuildSchedule(ParseTenantMix(mix))

\* build_schedule() gives each tenant as many places as its weights add up to.
LEMMA ScheduleShares ==
  ASSUME NEW mix \in Mixes, Accepted(mix)
  PROVE  /\ Schedule(mix) \in Seq(Keys(mix)) /\ Len(Schedule(mix)) \in Nat \ {0}
         /\ Cycle(mix) = Len(Schedule(mix))
         /\ \A t \in Keys(mix) :
              Share(mix, t) =
                Cardinality({p \in 1..Len(Schedule(mix)) : Schedule(mix)[p] = t})
  <1> DEFINE seqs == [i \in DOMAIN mix |-> [k \in 1..ValueOf(mix[i]) |-> mix[i].key]]
             n == Len(mix)
  <1>1. /\ n \in Nat \ {0} /\ DOMAIN mix = 1..n
        /\ \A i \in 1..n : mix[i].key \in Keys(mix)
    BY LoadAssumption DEF Accepted, Keys
  <1>2. \A i \in 1..n : ValueOf(mix[i]) \in Nat \ {0}
    <2> SUFFICES ASSUME NEW i \in 1..n PROVE ValueOf(mix[i]) \in Nat \ {0}
      OBVIOUS
    <2>1. mix[i] \in ToSet(mix)
      BY <1>1 DEF ToSet
    <2>2. mix[i].value \in {Null, Garbled} \cup Int
      BY <2>1, LoadAssumption
    <2>3. mix[i].value # Garbled /\ ValueOf(mix[i]) >= 1
      BY <1>1 DEF Accepted
    <2> QED BY <2>2, <2>3 DEF ValueOf
  <1>3. seqs \in Seq(Seq(Keys(mix))) /\ Len(seqs) = n /\ seqs # <<>>
    <2>1. \A i \in 1..n : seqs[i] \in Seq(Keys(mix))
      BY <1>1, <1>2
    <2> QED BY <1>1, <2>1
  <1>4. \A i \in 1..n : Len(seqs[i]) = ValueOf(mix[i])
                        /\ \A k \in 1..ValueOf(mix[i]) : seqs[i][k] = mix[i].key
    BY <1>1, <1>2
  <1>5. Schedule(mix) = FlattenSeq(seqs)
    <2>1. /\ DOMAIN ParseTenantMix(mix) = DOMAIN mix
          /\ \A i \in DOMAIN mix : /\ ParseTenantMix(mix)[i].weight = ValueOf(mix[i])
                                   /\ ParseTenantMix(mix)[i].tenant = mix[i].key
      BY DEF ParseTenantMix
    <2> QED BY <2>1 DEF Schedule, BuildSchedule
  <1> HIDE DEF seqs
  <1>6. PICK flat : FlatOf(seqs, flat) /\ FlattenSeq(seqs) = flat[n]
    BY <1>1, <1>3, FlattenIs
  <1> DEFINE S == flat[n]
             F == [j \in 1..n |-> Slot(seqs, flat, j)]
  <1>7. LaidOut(Keys(mix), seqs, flat, n)
    BY <1>3, <1>6, Layout
  <1>8. S \in Seq(Keys(mix)) /\ Len(S) \in Nat
    BY <1>7 DEF LaidOut
  <1>9. /\ \A j \in 1..n :
             /\ Offset(flat, j) \in Nat
             /\ Offset(flat, j) + ValueOf(mix[j]) <= Len(S)
             /\ \A k \in 1..ValueOf(mix[j]) : S[Offset(flat, j) + k] = mix[j].key
        /\ \A j, l \in 1..n : j < l => Offset(flat, j) + ValueOf(mix[j]) <= Offset(flat, l)
        /\ \A p \in 1..Len(S) : \E j \in 1..n : p \in F[j]
        /\ \A j \in 1..n : F[j] = (Offset(flat, j) + 1)..(Offset(flat, j) + ValueOf(mix[j]))
    BY <1>4, <1>7 DEF LaidOut, Slot
  <1> HIDE DEF S, F
  <1>10. \A j \in 1..n : IsFiniteSet(F[j]) /\ Cardinality(F[j]) = ValueOf(mix[j])
    <2> SUFFICES ASSUME NEW j \in 1..n
                 PROVE  IsFiniteSet(F[j]) /\ Cardinality(F[j]) = ValueOf(mix[j])
      OBVIOUS
    <2> DEFINE a == Offset(flat, j) + 1
               b == Offset(flat, j) + ValueOf(mix[j])
    <2>1. Offset(flat, j) \in Nat /\ ValueOf(mix[j]) \in Nat \ {0} /\ F[j] = a..b
      BY <1>2, <1>9
    <2>2. a \in Int /\ b \in Int /\ ~ (a > b) /\ b - a + 1 = ValueOf(mix[j])
      BY <2>1
    <2> HIDE DEF a, b
    <2>3. IsFiniteSet(a..b) /\ Cardinality(a..b) = b - a + 1
      BY <2>2, FS_Interval
    <2> QED BY <2>1, <2>2, <2>3
  <1>11. \A j, l \in 1..n : j # l => F[j] \cap F[l] = {}
    <2>1. ASSUME NEW j \in 1..n, NEW l \in 1..n, j < l PROVE F[j] \cap F[l] = {}
      <3> DEFINE a == Offset(flat, j)
                 b == Offset(flat, l)
                 v == ValueOf(mix[j])
                 w == ValueOf(mix[l])
      <3>1. /\ a \in Nat /\ b \in Nat /\ v \in Nat /\ w \in Nat /\ a + v <= b
            /\ F[j] = (a + 1)..(a + v) /\ F[l] = (b + 1)..(b + w)
        BY <1>2, <1>9, <2>1
      <3> HIDE DEF a, b, v, w
      <3> QED BY <3>1
    <2> QED BY <1>1, <2>1
  <1>12. \A j \in 1..n : \A p \in F[j] : p \in 1..Len(S) /\ S[p] = mix[j].key
    <2> SUFFICES ASSUME NEW j \in 1..n, NEW p \in F[j]
                 PROVE  p \in 1..Len(S) /\ S[p] = mix[j].key
      OBVIOUS
    <2> DEFINE o == Offset(flat, j)
    <2>1. /\ o \in Nat /\ o + ValueOf(mix[j]) <= Len(S) /\ p \in (o + 1)..(o + ValueOf(mix[j]))
          /\ \A k \in 1..ValueOf(mix[j]) : S[o + k] = mix[j].key
          /\ ValueOf(mix[j]) \in Nat
      BY <1>2, <1>9
    <2> HIDE DEF o
    <2>2. p - o \in 1..ValueOf(mix[j]) /\ o + (p - o) = p
      BY <2>1
    <2> QED BY <1>8, <2>1, <2>2
  <1>13. Cycle(mix) = Len(S)
    <2> DEFINE f == [j \in DOMAIN mix |-> ValueOf(mix[j])]
    <2>1. DOMAIN f = 1..n /\ IsFiniteSet(1..n) /\ \A j \in 1..n : f[j] = Cardinality(F[j])
      BY <1>1, <1>10, FS_Interval
    <2> HIDE DEF f
    <2> DEFINE U == UNION {F[d] : d \in DOMAIN f}
    <2>2. SumFunction(f) = Cardinality(U)
      <3>1. \A d \in DOMAIN f : IsFiniteSet(F[d]) /\ f[d] = Cardinality(F[d])
        BY <1>10, <2>1
      <3>2. \A d, e \in DOMAIN f : d # e => F[d] \cap F[e] = {}
        BY <1>11, <2>1
      <3>3. IsFiniteSet(DOMAIN f)
        BY <2>1
      <3>4. U = UNION {F[d] : d \in DOMAIN f}
        OBVIOUS
      <3> HIDE DEF U
      <3> QED BY <3>1, <3>2, <3>3, <3>4, SumCountsUnion
    <2>3. UNION {F[d] : d \in 1..n} = 1..Len(S)
      <3>1. \A p \in 1..Len(S) : \E d \in 1..n : p \in F[d]
        BY <1>9
      <3>2. \A d \in 1..n : \A p \in F[d] : p \in 1..Len(S)
        BY <1>12
      <3> QED BY <3>1, <3>2
    <2>4. Cardinality(1..Len(S)) = Len(S)
      <3> DEFINE k == Len(S)
      <3>1. k \in Nat /\ k \in Int /\ 1 \in Int
        BY <1>8
      <3> HIDE DEF k
      <3>2. Cardinality(1..k) = k
        BY <3>1, FS_Interval
      <3> QED BY <3>2 DEF k
    <2>5. U = UNION {F[d] : d \in 1..n}
      BY <2>1
    <2>6. Cycle(mix) = SumFunction(f)
      BY DEF f, Cycle
    <2> HIDE DEF U
    <2> QED BY <2>2, <2>3, <2>4, <2>5, <2>6
  <1>14. ASSUME NEW t \in Keys(mix)
         PROVE  Share(mix, t) = Cardinality({p \in 1..Len(S) : S[p] = t})
    <2> DEFINE f == [j \in Positions(mix, t) |-> ValueOf(mix[j])]
    <2>1. /\ DOMAIN f = Positions(mix, t) /\ Positions(mix, t) \subseteq 1..n
          /\ \A j \in Positions(mix, t) : f[j] = Cardinality(F[j])
      BY <1>1, <1>10 DEF Positions
    <2>2. IsFiniteSet(Positions(mix, t))
      <3>1. IsFiniteSet(1..n)
        BY <1>1, FS_Interval
      <3> QED BY <2>1, <3>1, FS_Subset
    <2> HIDE DEF f
    <2> DEFINE U == UNION {F[d] : d \in DOMAIN f}
    <2>3. SumFunction(f) = Cardinality(U)
      <3>1. \A d \in DOMAIN f : IsFiniteSet(F[d]) /\ f[d] = Cardinality(F[d])
        BY <1>10, <2>1
      <3>2. \A d, e \in DOMAIN f : d # e => F[d] \cap F[e] = {}
        BY <1>11, <2>1
      <3>3. IsFiniteSet(DOMAIN f)
        BY <2>1, <2>2
      <3>4. U = UNION {F[d] : d \in DOMAIN f}
        OBVIOUS
      <3> HIDE DEF U
      <3> QED BY <3>1, <3>2, <3>3, <3>4, SumCountsUnion
    <2>4. UNION {F[d] : d \in Positions(mix, t)} = {p \in 1..Len(S) : S[p] = t}
      <3>1. ASSUME NEW p \in 1..Len(S), S[p] = t PROVE \E d \in Positions(mix, t) : p \in F[d]
        BY <1>1, <1>9, <1>12, <3>1 DEF Positions
      <3>2. ASSUME NEW d \in Positions(mix, t), NEW p \in F[d]
            PROVE  p \in 1..Len(S) /\ S[p] = t
        BY <1>12, <2>1 DEF Positions
      <3> QED BY <3>1, <3>2
    <2> QED BY <2>1, <2>3, <2>4 DEF f, Share
  <1>15. Len(S) # 0
    <2>1. 1 \in 1..n /\ ValueOf(mix[1]) \in Nat \ {0}
      BY <1>1, <1>2
    <2> QED BY <2>1, <1>8, <1>9
  <1>16. Schedule(mix) = S
    BY <1>5, <1>6 DEF S
  <1> QED BY <1>8, <1>13, <1>14, <1>15, <1>16

\* Of the first k requests of a closed loop, those of a tenant.
Slots(mix, t, k) ==
  {i \in 1..k : Schedule(mix)[((i - 1) % Len(Schedule(mix))) + 1] = t}

\* They are finitely many.
LEMMA SlotsFinite ==
  ASSUME NEW mix, NEW t, NEW k \in Nat
  PROVE  IsFiniteSet(Slots(mix, t, k)) /\ Cardinality(Slots(mix, t, k)) \in Nat
  <1>1. IsFiniteSet(1..k) /\ Slots(mix, t, k) \in SUBSET (1..k)
    BY FS_Interval DEF Slots
  <1> QED BY <1>1, FS_Subset, FS_CardinalityType

\* They do not get fewer.
LEMMA SlotsGrow ==
  ASSUME NEW mix, NEW t, NEW k \in Nat, NEW l \in Nat, k <= l
  PROVE  Cardinality(Slots(mix, t, k)) <= Cardinality(Slots(mix, t, l))
  <1>1. Slots(mix, t, k) \in SUBSET Slots(mix, t, l)
    BY DEF Slots
  <1> QED BY <1>1, SlotsFinite, FS_Subset

\* One more cycle gives a tenant its share once more.
LEMMA SlotsOfCycle ==
  ASSUME NEW mix \in Mixes, Accepted(mix), NEW t \in Keys(mix), NEW k \in Nat
  PROVE  Cardinality(Slots(mix, t, k + Cycle(mix)))
           = Cardinality(Slots(mix, t, k)) + Share(mix, t)
  <1> DEFINE L == Len(Schedule(mix))
             S == Slots(mix, t, k)
             First == {p \in 1..L : Schedule(mix)[p] = t}
             Later == {i \in (L + 1)..(L + k) : Schedule(mix)[((i - 1) % L) + 1] = t}
             shift == [i \in S |-> i + L]
  <1>1. L \in Nat \ {0} /\ Cycle(mix) = L /\ Share(mix, t) = Cardinality(First)
    BY ScheduleShares
  <1>2. S = {i \in 1..k : Schedule(mix)[((i - 1) % L) + 1] = t}
    BY DEF Slots
  <1> HIDE DEF L, S
  <1>3. \A i \in 1..k : (((i + L) - 1) % L) = ((i - 1) % L)
    <2> SUFFICES ASSUME NEW i \in 1..k PROVE (((i + L) - 1) % L) = ((i - 1) % L)
      OBVIOUS
    <2>1. i - 1 \in Nat /\ (i + L) - 1 = (i - 1) + L
      BY <1>1
    <2>2. ((i - 1) + L) % L = (i - 1) % L
      BY <1>1, <2>1, OneCycleLater
    <2> QED BY <2>1, <2>2
  <1>4. \A i \in 1..L : ((i - 1) % L) + 1 = i
    BY <1>1
  <1>5. Slots(mix, t, k + L) = First \cup Later
    <2>1. Slots(mix, t, k + L) = {i \in 1..(k + L) : Schedule(mix)[((i - 1) % L) + 1] = t}
      BY DEF Slots, L
    <2>2. 1..(k + L) = 1..L \cup (L + 1)..(L + k)
      BY <1>1
    <2> QED BY <1>4, <2>1, <2>2
  <1>6. First \cap Later = {}
    BY <1>1
  <1>7. IsFiniteSet(First)
    <2>1. IsFiniteSet(1..L) /\ First \in SUBSET (1..L)
      BY <1>1, FS_Interval
    <2> QED BY <2>1, FS_Subset
  <1>8. IsFiniteSet(Later) /\ Cardinality(Later) = Cardinality(S)
    <2>1. shift \in [S -> Later]
      <3> SUFFICES ASSUME NEW i \in S PROVE i + L \in Later
        OBVIOUS
      <3>1. i \in 1..k /\ Schedule(mix)[((i - 1) % L) + 1] = t
        BY <1>2
      <3>2. i + L \in (L + 1)..(L + k)
        BY <1>1, <3>1
      <3>3. Schedule(mix)[(((i + L) - 1) % L) + 1] = t
        BY <1>3, <3>1
      <3> QED BY <3>2, <3>3
    <2>2. \A i, j \in S : shift[i] = shift[j] => i = j
      BY <1>1, <1>2
    <2>3. ASSUME NEW j \in Later PROVE \E i \in S : shift[i] = j
      <3>1. j \in (L + 1)..(L + k) /\ Schedule(mix)[((j - 1) % L) + 1] = t
        OBVIOUS
      <3>2. j - L \in 1..k /\ (j - L) + L = j
        BY <1>1, <3>1
      <3>3. j - L \in S
        BY <1>2, <1>3, <3>1, <3>2
      <3> QED BY <3>2, <3>3
    <2>4. IsFiniteSet(S)
      BY SlotsFinite DEF S
    <2> HIDE DEF shift, Later
    <2> QED BY <2>1, <2>2, <2>3, <2>4, OneToOneOnto
  <1> HIDE DEF First, Later
  <1>9. Cardinality(First \cup Later) = Cardinality(First) + Cardinality(Later)
    BY <1>6, <1>7, <1>8, DisjointUnion
  <1>10. Cardinality(First) \in Nat /\ Cardinality(S) \in Nat
    BY <1>7, SlotsFinite, FS_CardinalityType DEF S
  <1>11. Cardinality(Slots(mix, t, k + L)) = Cardinality(S) + Cardinality(First)
    BY <1>5, <1>8, <1>9, <1>10
  <1> QED BY <1>1, <1>11 DEF S

\* Whole cycles, from the start, give a tenant its share as often.
LEMMA SlotsOfCycles ==
  ASSUME NEW mix \in Mixes, Accepted(mix), NEW t \in Keys(mix), NEW n \in Nat
  PROVE  Cardinality(Slots(mix, t, Cycle(mix) * n)) = n * Share(mix, t)
  <1> DEFINE L == Cycle(mix)
             W == Share(mix, t)
             P == {m \in Nat : Cardinality(Slots(mix, t, L * m)) = m * W}
  <1>1. L \in Nat \ {0} /\ W \in Nat
    <2>1. L \in Nat \ {0} /\ W = Cardinality({p \in 1..L : Schedule(mix)[p] = t})
      BY ScheduleShares
    <2>2. IsFiniteSet(1..L) /\ {p \in 1..L : Schedule(mix)[p] = t} \in SUBSET (1..L)
      BY <2>1, FS_Interval
    <2> HIDE DEF L, W
    <2>3. IsFiniteSet({p \in 1..L : Schedule(mix)[p] = t})
      BY <2>2, FS_Subset
    <2> QED BY <2>1, <2>3, FS_CardinalityType
  <1> HIDE DEF L, W
  <1>2. 0 \in P
    <2>1. Slots(mix, t, 0) = {}
      BY DEF Slots
    <2>2. L * 0 = 0 /\ 0 * W = 0
      BY <1>1
    <2> QED BY <2>1, <2>2, FS_EmptySet
  <1>3. ASSUME NEW m \in P PROVE m + 1 \in P
    <2>1. m \in Nat /\ Cardinality(Slots(mix, t, L * m)) = m * W
      OBVIOUS
    <2>2. L * m \in Nat /\ L * (m + 1) = (L * m) + L /\ (m + 1) * W = (m * W) + W
      BY <1>1, <2>1
    <2>3. Cardinality(Slots(mix, t, (L * m) + L)) = Cardinality(Slots(mix, t, L * m)) + W
      BY <2>2, SlotsOfCycle DEF L, W
    <2> QED BY <2>1, <2>2, <2>3
  <1>4. P = Nat
    <2> HIDE DEF P
    <2>1. P \in SUBSET Nat
      BY DEF P
    <2> QED BY <1>2, <1>3, <2>1, InductiveSet
  <1> QED BY <1>4 DEF L, W

\* After any number of requests a tenant has had its share of the cycles, up to one.
LEMMA SharesKept ==
  ASSUME NEW mix \in Mixes, Accepted(mix), NEW t \in Keys(mix), NEW k \in Nat
  PROVE  /\ (k \div Cycle(mix)) * Share(mix, t) <= Cardinality(Slots(mix, t, k))
         /\ Cardinality(Slots(mix, t, k))
              <= ((k + (Cycle(mix) - 1)) \div Cycle(mix)) * Share(mix, t)
  <1> DEFINE L == Cycle(mix)
             a == k \div L
             b == (k + (L - 1)) \div L
  <1>1. L \in Nat \ {0}
    BY ScheduleShares
  <1> HIDE DEF L
  <1>2. a \in Nat /\ L * a \in Nat /\ L * a <= k
    <2>1. a \in Nat /\ k % L \in Nat /\ k = (L * a) + (k % L)
      BY <1>1, Remainder
    <2>2. L * a \in Nat
      BY <1>1, <2>1
    <2> QED BY <2>1, <2>2
  <1>3. b \in Nat /\ L * b \in Nat /\ k <= L * b
    <2> DEFINE n == k + (L - 1)
    <2>1. n \in Nat /\ k = (n - L) + 1
      BY <1>1
    <2>2. b \in Nat /\ (n % L) \in 0..(L - 1) /\ n = (L * b) + (n % L)
      BY <1>1, <2>1, Remainder
    <2>3. L * b \in Nat
      BY <1>1, <2>2
    <2> HIDE DEF n
    <2> QED BY <1>1, <2>1, <2>2, <2>3
  <1> HIDE DEF a, b
  <1>4. Cardinality(Slots(mix, t, L * a)) = a * Share(mix, t)
    BY <1>2, SlotsOfCycles DEF L
  <1>5. Cardinality(Slots(mix, t, L * b)) = b * Share(mix, t)
    BY <1>3, SlotsOfCycles DEF L
  <1>6. a * Share(mix, t) <= Cardinality(Slots(mix, t, k))
    BY <1>2, <1>4, SlotsGrow
  <1>7. Cardinality(Slots(mix, t, k)) <= b * Share(mix, t)
    BY <1>3, <1>5, SlotsGrow
  <1> QED BY <1>6, <1>7 DEF a, b, L

KnownMix == ~ Replay => job.mix \in Mixes

\* The mix of a closed loop is one of those considered.
LEMMA JobOf == Spec => []KnownMix
  <1>1. Init => KnownMix
    BY DEF Init, KnownMix, Replay
  <1>2. KnownMix /\ [Next]_vars => KnownMix'
    BY DEF KnownMix, Replay, Next, MainStep, Parse, Submit, BeginCollect, Unwind, WriteSummary,
           Collect, CollectRaises, Tick, StartSend, EndSend, vars
  <1> QED BY <1>1, <1>2, PTL DEF Spec

\* The requests begun are the first of those submitted.
LEMMA BegunIsPrefix == ASSUME LoadInv PROVE \E k \in Nat : Begun = 1..k /\ Cardinality(Begun) = k
  <1>1. Begun \subseteq 1..Len(send) /\ Len(send) \in Nat
    BY DEF Begun, Ended, Are, Submitted, LoadInv, TypeOK
  <1> DEFINE Rest == {i \in Nat : i > 0 /\ i \notin Begun}
  <1>2. Len(send) + 1 \in Rest
    BY <1>1
  <1>3. PICK m \in Rest : \A n \in Rest : m <= n
    BY <1>2, LeastNat
  <1>4. Begun = 1..(m - 1)
    <2>1. \A i \in 1..(m - 1) : i \in Begun
      BY <1>3
    <2>2. ASSUME NEW i \in Begun PROVE i \in 1..(m - 1)
      <3>1. i \in Nat /\ i >= 1 /\ \A j \in 1..i : j \in Begun
        BY <1>1 DEF LoadInv, InOrder
      <3> QED BY <3>1, <1>3
    <2> QED BY <2>1, <2>2
  <1>5. m - 1 \in Nat /\ Cardinality(1..(m - 1)) = m - 1
    <2>1. m - 1 \in Nat /\ m - 1 \in Int /\ 1 \in Int
      BY <1>3
    <2> QED BY <2>1, FS_Interval
  <1> QED BY <1>4, <1>5

(* loadgen.py:63, "Expand a weighted tenant mix into a deterministic       *)
(* round-robin schedule": for every mix, every number of requests and      *)
(* every concurrency each tenant has, at any time, begun its share of the  *)
(* requests begun, up to one cycle.                                        *)
THEOREM MixIsKept == Spec => []MixKept
  <1>1. LoadInv /\ KnownMix => MixKept
    <2> DEFINE B(t) == {i \in Begun : TenantAt(i) = t}
               Low(t) == (Cardinality(Begun) \div Cycle(job.mix)) * Share(job.mix, t)
               High(t) == ((Cardinality(Begun) + (Cycle(job.mix) - 1)) \div Cycle(job.mix))
                            * Share(job.mix, t)
    <2>1. SUFFICES ASSUME LoadInv, KnownMix, Valid, ~ Replay, NEW t \in Keys(job.mix)
                   PROVE  Low(t) <= Cardinality(B(t)) /\ Cardinality(B(t)) <= High(t)
      BY DEF MixKept
    <2>2. job.mix \in Mixes /\ Accepted(job.mix)
      BY <2>1 DEF KnownMix, Valid
    <2>3. PICK k \in Nat : Begun = 1..k /\ Cardinality(Begun) = k
      BY <2>1, BegunIsPrefix
    <2>4. B(t) = Slots(job.mix, t, k)
      BY <2>1, <2>3 DEF Slots, TenantAt, Schedule, Mix
    <2> QED BY <2>1, <2>2, <2>3, <2>4, SharesKept
  <1> QED BY <1>1, LoadInvariant, JobOf, PTL

\* What the summary says once it is written, and that nothing changes it.
SummaryOfAll ==
  /\ main \notin {"parse", "failed"} => Valid
  /\ summary # NoSummary =>
       /\ main = "written"
       /\ summary = [total |-> Stats(1..Count), tenants |-> Tenants,
                     per_tenant |-> [t \in DOMAIN Tenants |->
                                       Stats({i \in 1..Count : TenantAt(i) = t})]]

\* The tenants and their requests are those of the job.
LEMMA TenantsKept ==
  ASSUME UNCHANGED job
  PROVE  /\ Tenants' = Tenants /\ Count' = Count /\ Valid' = Valid
         /\ \A i : TenantAt(i)' = TenantAt(i)
  BY DEF Tenants, Count, Valid, TenantAt, Mix, Replay

\* Once written, the summary stays, and so does what it describes.
LEMMA SummaryStep ==
  ASSUME LoadInv, SummaryOfAll, [Next]_vars PROVE SummaryOfAll'
  <1>1. UNCHANGED job
    BY DEF Next, MainStep, Parse, Submit, BeginCollect, Unwind, WriteSummary, Collect,
           CollectRaises, Tick, StartSend, EndSend, vars
  <1>2. /\ Tenants' = Tenants /\ Count' = Count /\ Valid' = Valid
        /\ \A i : TenantAt(i)' = TenantAt(i)
    BY <1>1, TenantsKept
  <1>3. (main \notin {"parse", "failed"} => Valid)'
    BY <1>2 DEF SummaryOfAll, Next, MainStep, Parse, Submit, BeginCollect, Unwind, WriteSummary,
                Collect, CollectRaises, Tick, StartSend, EndSend, vars, Goto, Valid
  <1>4. CASE WriteSummary
    <2>1. UNCHANGED send /\ collected = 1..Count /\ main' = "written"
      BY <1>4 DEF WriteSummary, Goto
    <2>2. \A S : Stats(S)' = Stats(S)
      BY <2>1 DEF Stats, Are, Submitted
    <2>3. summary' = [total |-> Stats(1..Count), tenants |-> Tenants,
                      per_tenant |-> [t \in DOMAIN Tenants |->
                                        Stats({i \in 1..Count : TenantAt(i) = t})]]
      BY <1>4, <2>1 DEF WriteSummary
    <2> QED BY <1>2, <1>3, <2>1, <2>2, <2>3 DEF SummaryOfAll
  <1>5. CASE ~ WriteSummary
    <2>1. UNCHANGED summary
      BY <1>5 DEF Next, MainStep, Parse, Submit, BeginCollect, Unwind, Collect,
                  CollectRaises, Tick, StartSend, EndSend, vars
    <2> SUFFICES ASSUME summary # NoSummary
                 PROVE  /\ main' = "written"
                        /\ \A S : Stats(S)' = Stats(S)
      BY <1>2, <1>3, <2>1 DEF SummaryOfAll
    <2>2. main = "written"
      BY DEF SummaryOfAll
    <2>3. \A i \in Submitted : i \in Ended
      BY <2>2, CountIsNat DEF LoadInv, Places, TypeOK, Ended, Are, Submitted
    <2>4. UNCHANGED <<main, send>>
      BY <1>5, <2>2, <2>3 DEF Next, MainStep, Parse, Submit, BeginCollect, Unwind, Collect,
                  CollectRaises, Tick, StartSend, EndSend, IsNext, vars, Goto, Ended, Are
    <2> QED BY <2>2, <2>4 DEF Stats, Are, Submitted
  <1> QED BY <1>4, <1>5

\* Every request is some tenant's, and the tenants are finitely many.
LEMMA TenantsComplete ==
  ASSUME LoadInv, KnownMix, Valid
  PROVE  /\ IsFiniteSet(DOMAIN Tenants)
         /\ \A i \in 1..Count : TenantAt(i) \in DOMAIN Tenants
  <1>1. Count \in Nat
    BY CountIsNat DEF LoadInv
  <1>2. CASE Replay
    <2> DEFINE f == [i \in 1..Count |-> TenantAt(i)]
               T == {TenantAt(i) : i \in 1..Count}
    <2>1. DOMAIN Tenants = T
      BY <1>2 DEF Tenants
    <2>2. f \in [1..Count -> T] /\ \A t \in T : \E i \in 1..Count : f[i] = t
      OBVIOUS
    <2>3. IsFiniteSet(1..Count)
      BY <1>1, FS_Interval
    <2> HIDE DEF f
    <2>4. IsFiniteSet(T)
      BY <2>2, <2>3, Onto
    <2> QED BY <2>1, <2>4
  <1>3. CASE ~ Replay
    <2>1. job.mix \in Mixes /\ Accepted(job.mix)
      BY <1>3 DEF KnownMix, Valid
    <2>2. DOMAIN Tenants = Keys(job.mix)
      BY <1>3 DEF Tenants, ParseWeightMap
    <2>3. IsFiniteSet(Keys(job.mix))
      <3> DEFINE D == DOMAIN job.mix
                 f == [i \in D |-> job.mix[i].key]
      <3>1. IsFiniteSet(D)
        <4>1. D = 1..Len(job.mix) /\ Len(job.mix) \in Nat
          BY <2>1, LoadAssumption
        <4> QED BY <4>1, FS_Interval
      <3>2. f \in [D -> Keys(job.mix)] /\ \A t \in Keys(job.mix) : \E i \in D : f[i] = t
        BY DEF Keys
      <3> HIDE DEF f, D
      <3> QED BY <3>1, <3>2, Onto
    <2>4. ASSUME NEW i \in 1..Count PROVE TenantAt(i) \in Keys(job.mix)
      <3> DEFINE S == Schedule(job.mix)
                 L == Len(S)
      <3>1. S \in Seq(Keys(job.mix)) /\ L \in Nat \ {0}
        BY <2>1, ScheduleShares
      <3>2. TenantAt(i) = S[((i - 1) % L) + 1]
        BY <1>3 DEF TenantAt, Schedule, Mix
      <3>3. ((i - 1) % L) + 1 \in 1..L
        BY <1>1, <3>1
      <3> HIDE DEF S
      <3> QED BY <3>1, <3>2, <3>3
    <2> QED BY <2>2, <2>3, <2>4
  <1> QED BY <1>2, <1>3

\* What is counted by tenant adds up to what is counted at once.
LEMMA TenantsAddUp ==
  ASSUME LoadInv, KnownMix, Valid, NEW A \in SUBSET (1..Count), NEW f,
         DOMAIN f = DOMAIN Tenants,
         \A t \in DOMAIN Tenants : f[t] = Cardinality({i \in 1..Count : TenantAt(i) = t} \cap A)
  PROVE  SumFunction(f) = Cardinality(A)
  <1> DEFINE D == DOMAIN Tenants
             F == [t \in D |-> {i \in 1..Count : TenantAt(i) = t} \cap A]
  <1>1. IsFiniteSet(D) /\ \A i \in 1..Count : TenantAt(i) \in D
    BY TenantsComplete
  <1>2. IsFiniteSet(A)
    <2>1. IsFiniteSet(1..Count)
      BY CountIsNat, FS_Interval DEF LoadInv
    <2> QED BY <2>1, FS_Subset
  <1>3. \A t \in D : F[t] \in SUBSET A /\ f[t] = Cardinality(F[t])
    OBVIOUS
  <1>4. \A t, u \in D : t # u => F[t] \cap F[u] = {}
    OBVIOUS
  <1>5. \A i \in A : \E t \in D : i \in F[t]
    BY <1>1
  <1>6. D = DOMAIN f
    OBVIOUS
  <1> HIDE DEF F, D
  <1>7. A = UNION {F[t] : t \in DOMAIN f}
    BY <1>3, <1>5, <1>6
  <1>8. \A t \in DOMAIN f : IsFiniteSet(F[t]) /\ f[t] = Cardinality(F[t])
    BY <1>2, <1>3, <1>6, FS_Subset
  <1>9. IsFiniteSet(DOMAIN f) /\ \A t, u \in DOMAIN f : t # u => F[t] \cap F[u] = {}
    BY <1>1, <1>4, <1>6
  <1> QED BY <1>7, <1>8, <1>9, SumCountsUnion

(* loadgen.py: for every mix, every trace, every count and concurrency,    *)
(* what the summary says of the tenants adds up to what it says of all     *)
(* requests, no tenant and no request forgotten or counted twice.          *)
THEOREM SummaryAddsUp == Spec => []SummaryAccounts
  <1>1. Init => SummaryOfAll
    BY DEF Init, SummaryOfAll
  <1>2. LoadInv /\ SummaryOfAll /\ [Next]_vars => SummaryOfAll'
    BY SummaryStep
  <1>3. LoadInv /\ KnownMix /\ SummaryOfAll => SummaryAccounts
    <2> SUFFICES ASSUME LoadInv, KnownMix, SummaryOfAll, summary # NoSummary
                 PROVE  SummaryAccounts
      BY DEF SummaryAccounts
    <2> DEFINE D == DOMAIN Tenants
               all == 1..Count
               ok == Are({"ok"})
               of == [t \in D |-> {i \in 1..Count : TenantAt(i) = t}]
               sum(field) == SumFunction([t \in DOMAIN summary.per_tenant |->
                                            summary.per_tenant[t][field]])
    <2>1. /\ Valid /\ summary.total = Stats(all) /\ summary.tenants = Tenants
          /\ DOMAIN summary.per_tenant = D
          /\ \A t \in D : summary.per_tenant[t] = Stats(of[t])
      BY DEF SummaryOfAll
    <2>2. IsFiniteSet(all) /\ \A t \in D : of[t] \in SUBSET all
      BY CountIsNat, FS_Interval DEF LoadInv
    <2>3. \A S \in SUBSET all : /\ Stats(S).requests = Cardinality(S)
                                /\ Stats(S).ok = Cardinality(S \cap ok)
                                /\ Stats(S).failed = Cardinality(S \ ok)
      <3> SUFFICES ASSUME NEW S \in SUBSET all
                   PROVE  Stats(S).failed = Cardinality(S \ ok)
        BY DEF Stats
      <3>1. IsFiniteSet(S)
        BY <2>2, FS_Subset
      <3>2. Cardinality(S \ ok) = Cardinality(S) - Cardinality(S \cap ok)
        BY <3>1, FS_Difference
      <3> QED BY <3>2 DEF Stats
    <2>4. sum("requests") = summary.total["requests"]
      <3> DEFINE f == [t \in DOMAIN summary.per_tenant |-> summary.per_tenant[t]["requests"]]
      <3>1. DOMAIN f = D /\ \A t \in D : f[t] = Cardinality({i \in 1..Count : TenantAt(i) = t} \cap all)
        <4>1. ASSUME NEW t \in D
              PROVE  f[t] = Cardinality({i \in 1..Count : TenantAt(i) = t} \cap all)
          <5>1. f[t] = Cardinality(of[t])
            BY <2>1, <2>2, <2>3
          <5>2. {i \in 1..Count : TenantAt(i) = t} \cap all = of[t]
            OBVIOUS
          <5> QED BY <5>1, <5>2
        <4> QED BY <2>1, <4>1
      <3> HIDE DEF f
      <3>2. SumFunction(f) = Cardinality(all)
        BY <2>1, <3>1, TenantsAddUp
      <3> QED BY <2>1, <2>3, <3>2 DEF f
    <2>5. sum("ok") = summary.total["ok"]
      <3> DEFINE f == [t \in DOMAIN summary.per_tenant |-> summary.per_tenant[t]["ok"]]
                 A == all \cap ok
      <3>1. DOMAIN f = D /\ \A t \in D : f[t] = Cardinality({i \in 1..Count : TenantAt(i) = t} \cap A)
        <4>1. ASSUME NEW t \in D
              PROVE  f[t] = Cardinality({i \in 1..Count : TenantAt(i) = t} \cap A)
          <5> DEFINE G == {i \in 1..Count : TenantAt(i) = t} \cap A
          <5>1. f[t] = Cardinality(of[t] \cap ok)
            BY <2>1, <2>2, <2>3
          <5>2. G = of[t] \cap ok
            OBVIOUS
          <5> HIDE DEF f, A, of
          <5> QED BY <5>1, <5>2
        <4> QED BY <2>1, <4>1
      <3>2. A \in SUBSET (1..Count)
        OBVIOUS
      <3> HIDE DEF f, A
      <3>3. SumFunction(f) = Cardinality(A)
        BY <2>1, <3>1, <3>2, TenantsAddUp
      <3> QED BY <2>1, <2>3, <3>3 DEF f, A
    <2>6. sum("failed") = summary.total["failed"]
      <3> DEFINE f == [t \in DOMAIN summary.per_tenant |-> summary.per_tenant[t]["failed"]]
                 A == all \ ok
      <3>1. DOMAIN f = D /\ \A t \in D : f[t] = Cardinality({i \in 1..Count : TenantAt(i) = t} \cap A)
        <4>1. ASSUME NEW t \in D
              PROVE  f[t] = Cardinality({i \in 1..Count : TenantAt(i) = t} \cap A)
          <5> DEFINE G == {i \in 1..Count : TenantAt(i) = t} \cap A
          <5>1. f[t] = Cardinality(of[t] \ ok)
            BY <2>1, <2>2, <2>3
          <5>2. G = of[t] \ ok
            OBVIOUS
          <5> HIDE DEF f, A, of
          <5> QED BY <5>1, <5>2
        <4> QED BY <2>1, <4>1
      <3>2. A \in SUBSET (1..Count)
        OBVIOUS
      <3> HIDE DEF f, A
      <3>3. SumFunction(f) = Cardinality(A)
        BY <2>1, <3>1, <3>2, TenantsAddUp
      <3> QED BY <2>1, <2>3, <3>3 DEF f, A
    <2>7. ASSUME Replay, NEW t \in DOMAIN summary.tenants
          PROVE  summary.tenants[t] = summary.per_tenant[t].requests
      <3>1. t \in D /\ of[t] \in SUBSET all /\ Tenants[t] = Cardinality(of[t])
        BY <2>1, <2>2, <2>7 DEF Tenants
      <3> HIDE DEF of
      <3> QED BY <2>1, <2>3, <3>1
    <2> QED BY <2>1, <2>4, <2>5, <2>6, <2>7 DEF SummaryAccounts
  <1> QED BY <1>1, <1>2, <1>3, LoadInvariant, JobOf, PTL DEF Spec

-----------------------------------------------------------------------------
(* The gateways and their log: the inductive invariant.                    *)

Steps == {"queued", "started", "marked", "streaming", "ended", "recorded", "lost"}

\* What this gateway was sent, and what a gateway has marked, also before it died.
Current == SentTo(Len(ran))
Marked(r) == stage[r] \notin {"queued", "started"}

\* Only the last gateway is at work; those that have not begun have sent nothing.
StagesInv ==
  /\ \A k \in DOMAIN Workloads : k > Len(ran) => \A r \in SentTo(k) : stage[r] = "queued"
  /\ \A r \in Requests : stage[r] \in {"started", "marked", "streaming", "ended"} => r \in Current

\* A request is stamped once, after its gateway began, and no two at the same time.
StampsInv ==
  /\ \A r \in Requests : stage[r] \in {"queued", "started", "marked"} => dispatch[r] = 0
  /\ \A r \in Requests : stage[r] \in {"streaming", "ended"} => dispatch[r] > began
  /\ \A r \in Requests : stage[r] = "recorded" => dispatch[r] > 0
  /\ \A r \in Current : stage[r] = "lost" => dispatch[r] > 0
  /\ \A r \in Requests : dispatch[r] <= clock
  /\ \A r, q \in Requests : dispatch[r] > 0 /\ r # q => dispatch[r] # dispatch[q]

ReceptionLines ==
  [event : {"request_received"}, request : Requests, tenant : Range(TenantOf), model : Models,
   arrival : Nat, scheduler : Schedulers]

CompletionLines ==
  [event : {"request_completed"}, request : Requests, tenant : Range(TenantOf), model : Models,
   arrival : Nat, scheduler : Schedulers, dispatch : Nat, finish : Nat,
   cold : BOOLEAN, switch : BOOLEAN]

\* What can be left of a torn line.
Remains == {[event |-> "torn"], [event |-> "undecodable"]}

Lines == ReceptionLines \cup CompletionLines \cup Remains

Completions == {i \in DOMAIN log : log[i].event = "request_completed"}

\* A completion says what is known of its request, and of the gateway it was sent to.
Says(line) ==
  LET r == line.request
  IN  /\ stage[r] = "recorded"
      /\ line.tenant = TenantOf[r] /\ line.model = ModelOf[r] /\ line.dispatch = dispatch[r]
      /\ line.cold = tag[r].cold /\ line.switch = tag[r].switch
      /\ \E k \in DOMAIN ran : r \in SentTo(k) /\ line.scheduler = ran[k]
      /\ line.arrival < line.dispatch /\ line.dispatch < line.finish /\ line.finish <= clock

\* The completion of r was lost, and names something that is not ASCII.
LostNonAscii(r) == stage[r] = "lost" /\ NonAscii \cap {TenantOf[r], ModelOf[r]} # {}

\* Every request recorded has one line.
LogInv ==
  /\ log \in Seq(Lines)
  /\ ~ Readable(log) => \E r \in Requests : LostNonAscii(r)
  /\ \A i \in Completions : Says(log[i])
  /\ \A i, j \in Completions : log[i].request = log[j].request => i = j
  /\ \A r \in Requests : stage[r] = "recorded" => \E i \in Completions : log[i].request = r

\* The tracker has seen the models this gateway has marked; one request of each
\* model that a gateway marked is tagged cold, and nothing is before it is marked.
ColdInv ==
  /\ seen = {ModelOf[q] : q \in {r \in Current : Marked(r)}}
  /\ \A r \in Requests : ~ Marked(r) => ~ tag[r].cold
  /\ \A k \in DOMAIN ran : \A r, q \in SentTo(k) :
       tag[r].cold /\ tag[q].cold /\ ModelOf[r] = ModelOf[q] => r = q
  /\ \A k \in DOMAIN ran : \A r \in SentTo(k) :
       stage[r] \in {"marked", "streaming", "ended", "recorded"} \/ (k = Len(ran) /\ Marked(r)) =>
         \E q \in SentTo(k) : tag[q].cold /\ ModelOf[q] = ModelOf[r]

\* Of two requests of one gateway, the first was stamped before the second is.
Earlier(r, q) == dispatch[r] > 0 /\ (dispatch[q] = 0 \/ dispatch[r] < dispatch[q])

\* The latest of those before q.
JustBefore(k, p, q) ==
  Earlier(p, q) /\ \A r \in SentTo(k) : Earlier(r, q) => r = p \/ Earlier(r, p)

\* With one worker a request is stamped before the next is marked, so that both
\* tags follow the order of the stamps.
SerialInv ==
  workers = 1 =>
    /\ (last = NoModel) <=> (\A r \in Current : ~ Marked(r))
    /\ last # NoModel =>
         \E p \in Current : /\ Marked(p) /\ last = ModelOf[p]
                            /\ \A r \in Current : Marked(r) => r = p \/ Earlier(r, p)
    /\ \A k \in DOMAIN ran : \A q \in SentTo(k) :
         stage[q] \in {"marked", "streaming", "ended", "recorded"} =>
           /\ tag[q].cold <=> (\A r \in SentTo(k) : Earlier(r, q) => ModelOf[r] # ModelOf[q])
           /\ tag[q].switch <=> (\E p \in SentTo(k) : JustBefore(k, p, q) /\ ModelOf[p] # ModelOf[q])

RunTypes ==
  /\ workers \in 1..MaxWorkers /\ Cardinality(Busy) <= workers
  /\ ran \in Seq(Schedulers) /\ Len(ran) \in 1..Len(Workloads) /\ began \in 0..clock
  /\ seen \subseteq Models /\ last \in Models \cup {NoModel}
  /\ tag \in [Requests -> [cold : BOOLEAN, switch : BOOLEAN]]
  /\ stage \in [Requests -> Steps]
  /\ clock \in Nat /\ dispatch \in [Requests -> Nat]

RunInv == RunTypes /\ StagesInv /\ StampsInv /\ LogInv /\ ColdInv /\ SerialInv

\* The requests are finitely many, and each is sent to one gateway.
LEMMA RequestsSent ==
  /\ DOMAIN Workloads = 1..Len(Workloads) /\ Len(Workloads) \in Nat \ {0}
  /\ \A k \in DOMAIN Workloads : /\ SentTo(k) \subseteq Requests /\ IsFiniteSet(SentTo(k))
                                 /\ Workloads[k] \in Seq(Requests) /\ Len(Workloads[k]) \in Nat
                                 /\ Workloads[k] # <<>>
                                 /\ \A i \in DOMAIN Workloads[k] : Workloads[k][i] \in SentTo(k)
  /\ \A k, l \in DOMAIN Workloads : \A r \in SentTo(k) : r \in SentTo(l) => k = l
  /\ \A r \in Requests : \E k \in DOMAIN Workloads : r \in SentTo(k)
  /\ IsFiniteSet(Requests)
  <1> DEFINE D == DOMAIN Workloads
  <1>1. D = 1..Len(Workloads) /\ Len(Workloads) \in Nat \ {0}
    BY MeasuredRunAssumption
  <1>2. ASSUME NEW k \in D
        PROVE  /\ SentTo(k) \subseteq Requests /\ IsFiniteSet(SentTo(k))
               /\ Workloads[k] \in Seq(Requests) /\ Len(Workloads[k]) \in Nat
               /\ Workloads[k] # <<>>
               /\ \A i \in DOMAIN Workloads[k] : Workloads[k][i] \in SentTo(k)
    <2> DEFINE w == Workloads[k]
               I == 1..Len(w)
               f == [i \in I |-> w[i]]
    <2>1. w \in Seq(Requests) /\ w # <<>> /\ DOMAIN w = I /\ Len(w) \in Nat
      BY <1>1, MeasuredRunAssumption
    <2>2. SentTo(k) = {w[i] : i \in I}
      BY <2>1 DEF SentTo, ToSet
    <2>3. f \in [I -> SentTo(k)] /\ \A y \in SentTo(k) : \E i \in I : f[i] = y
      BY <2>2
    <2>4. IsFiniteSet(I)
      BY <2>1, FS_Interval
    <2> HIDE DEF f, I
    <2>5. IsFiniteSet(SentTo(k))
      BY <2>3, <2>4, Onto
    <2>6. SentTo(k) \subseteq Requests /\ \A i \in I : w[i] \in SentTo(k)
      BY <2>2 DEF Requests
    <2> QED BY <2>1, <2>5, <2>6
  <1>3. \A k, l \in D : \A r \in SentTo(k) : r \in SentTo(l) => k = l
    BY MeasuredRunAssumption
  <1>4. \A r \in Requests : \E k \in D : r \in SentTo(k)
    BY DEF Requests
  <1>5. IsFiniteSet(Requests)
    <2> DEFINE C == {SentTo(k) : k \in D}
               f == [k \in D |-> SentTo(k)]
    <2>1. f \in [D -> C] /\ \A y \in C : \E k \in D : f[k] = y
      OBVIOUS
    <2>2. IsFiniteSet(D)
      BY <1>1, FS_Interval
    <2>3. \A y \in C : IsFiniteSet(y)
      BY <1>2
    <2> HIDE DEF f, C
    <2>4. IsFiniteSet(C)
      BY <2>1, <2>2, Onto
    <2>5. IsFiniteSet(UNION C)
      BY <2>3, <2>4, FS_UNION
    <2> QED BY <2>5 DEF C, Requests
  <1> QED BY <1>1, <1>2, <1>3, <1>4, <1>5

\* The requests under way are finitely many.
LEMMA BusyFinite == IsFiniteSet(Busy) /\ Cardinality(Busy) \in Nat
  <1>1. Busy \in SUBSET Requests
    BY DEF Busy
  <1> QED BY <1>1, RequestsSent, FS_Subset, FS_CardinalityType

\* The step of one request from one stage to another.
LEMMA Moved ==
  ASSUME NEW r \in Requests, NEW from \in Steps, NEW to \in Steps, RunTypes, Step(r, from, to)
  PROVE  /\ stage[r] = from /\ stage'[r] = to /\ stage' \in [Requests -> Steps]
         /\ \A q \in Requests : q # r => stage'[q] = stage[q]
  BY DEF Step, RunTypes, Steps

\* How the number of requests under way changes.
LEMMA BusyAfter ==
  ASSUME NEW r \in Requests, NEW from \in Steps, NEW to \in Steps, RunTypes, Step(r, from, to),
         from = "queued" /\ to = "started" => Cardinality(Busy) < workers,
         to \in {"started", "marked", "streaming"} =>
           from \in {"queued", "started", "marked", "streaming"},
         from = "queued" => to = "started",
         UNCHANGED workers
  PROVE  Cardinality(Busy') <= workers'
  <1>1. /\ stage[r] = from /\ stage'[r] = to
        /\ \A q \in Requests : q # r => stage'[q] = stage[q]
    BY Moved
  <1>2. IsFiniteSet(Busy) /\ Cardinality(Busy) \in Nat /\ Cardinality(Busy) <= workers
        /\ workers \in Nat
    BY BusyFinite DEF RunTypes
  <1>3. CASE from = "queued"
    <2>1. Busy' = Busy \cup {r} /\ r \notin Busy
      BY <1>1, <1>3 DEF Busy
    <2>2. Cardinality(Busy \cup {r}) = Cardinality(Busy) + 1
      BY <1>2, <2>1, FS_AddElement
    <2> QED BY <1>2, <1>3, <2>1, <2>2
  <1>4. CASE from # "queued"
    <2>1. Busy' \in SUBSET Busy
      BY <1>1, <1>4 DEF Busy
    <2>2. IsFiniteSet(Busy') /\ Cardinality(Busy') <= Cardinality(Busy)
      BY <1>2, <2>1, FS_Subset
    <2>3. Cardinality(Busy') \in Nat
      BY <2>2, FS_CardinalityType
    <2> QED BY <1>2, <2>2, <2>3
  <1> QED BY <1>3, <1>4

\* With one worker there is one request under way at most.
LEMMA OneBusy ==
  ASSUME RunTypes, workers = 1, NEW r \in Busy, NEW q \in Busy PROVE r = q
  <1>1. IsFiniteSet(Busy) /\ Cardinality(Busy) \in Nat /\ Cardinality(Busy) <= 1
    BY BusyFinite DEF RunTypes
  <1>2. Cardinality(Busy) # 0
    BY <1>1, FS_EmptySet
  <1>3. \E x : Busy = {x}
    BY <1>1, <1>2, FS_Singleton
  <1> QED BY <1>3

\* What a gateway is sent is a workload.
LEMMA CurrentIs ==
  ASSUME RunTypes
  PROVE  /\ Len(ran) \in DOMAIN Workloads /\ Len(ran) \in Nat /\ DOMAIN ran = 1..Len(ran)
         /\ Len(ran) \in DOMAIN ran
         /\ Current \subseteq Requests
         /\ \A i \in DOMAIN Workload : Workload[i] \in Current
         /\ \A k \in DOMAIN ran : k \in DOMAIN Workloads /\ SentTo(k) \subseteq Requests
  <1>1. /\ Len(ran) \in Nat /\ DOMAIN ran = 1..Len(ran) /\ Len(ran) \in 1..Len(Workloads)
        /\ DOMAIN Workloads = 1..Len(Workloads) /\ Len(Workloads) \in Nat
    BY RequestsSent DEF RunTypes
  <1>2. Len(ran) \in DOMAIN Workloads /\ Len(ran) \in DOMAIN ran /\ \A k \in DOMAIN ran : k \in DOMAIN Workloads
    BY <1>1
  <1>3. /\ SentTo(Len(ran)) \subseteq Requests
        /\ \A i \in DOMAIN Workloads[Len(ran)] : Workloads[Len(ran)][i] \in SentTo(Len(ran))
    BY <1>2, RequestsSent
  <1>4. \A k \in DOMAIN ran : SentTo(k) \subseteq Requests
    BY <1>2, RequestsSent
  <1> QED BY <1>1, <1>2, <1>3, <1>4 DEF Current, Workload

\* A restart leaves nothing of the last gateway under way.
LEMMA AfterRestart ==
  ASSUME RunTypes, StagesInv, NEW s \in Schedulers, Restart(s)
  PROVE  /\ \A r \in Requests : stage'[r] = IF r \in Current /\ stage[r] # "recorded"
                                            THEN "lost" ELSE stage[r]
         /\ stage' \in [Requests -> Steps]
         /\ \A r \in Requests : stage'[r] \in {"queued", "recorded", "lost"}
         /\ Len(ran') = Len(ran) + 1 /\ Len(ran') \in 1..Len(Workloads)
         /\ ran' \in Seq(Schedulers) /\ ran'[Len(ran) + 1] = s
         /\ \A k \in DOMAIN ran : ran'[k] = ran[k] /\ k \in DOMAIN ran'
         /\ \A r \in Current' : r \notin Current /\ stage[r] = "queued" /\ stage'[r] = "queued"
  <1>1. \A r \in Requests : stage'[r] = IF r \in Current /\ stage[r] # "recorded"
                                        THEN "lost" ELSE stage[r]
    BY DEF Restart, Current
  <1>2. stage' \in [Requests -> Steps]
    BY DEF Restart, RunTypes, Steps
  <1>3. \A r \in Requests : stage'[r] \in {"queued", "recorded", "lost"}
    BY <1>1 DEF StagesInv, RunTypes, Steps
  <1>4. /\ Len(ran') = Len(ran) + 1 /\ Len(ran') \in 1..Len(Workloads)
        /\ ran' \in Seq(Schedulers) /\ ran'[Len(ran) + 1] = s
        /\ \A k \in DOMAIN ran : ran'[k] = ran[k] /\ k \in DOMAIN ran'
    BY RequestsSent DEF Restart, RunTypes
  <1>5. ASSUME NEW r \in Current'
        PROVE  r \notin Current /\ stage[r] = "queued" /\ stage'[r] = "queued"
    <2>1. /\ Len(ran') \in DOMAIN Workloads /\ Len(ran') > Len(ran) /\ r \in SentTo(Len(ran'))
          /\ Len(ran) \in DOMAIN Workloads
      BY <1>4, RequestsSent DEF Current, RunTypes
    <2>2. r \in Requests /\ stage[r] = "queued"
      BY <2>1, RequestsSent DEF StagesInv
    <2>3. r \notin Current
      <3>1. r \in SentTo(Len(ran)) => Len(ran) = Len(ran')
        BY <2>1, RequestsSent
      <3>2. Len(ran) \in Nat /\ Len(ran') = Len(ran) + 1
        BY <1>4 DEF RunTypes
      <3> QED BY <3>1, <3>2 DEF Current
    <2> QED BY <1>1, <2>2, <2>3
  <1> QED BY <1>1, <1>2, <1>3, <1>4, <1>5

\* Every step keeps the types.
LEMMA TypesStep == ASSUME RunTypes, StagesInv, RunNext PROVE RunTypes'
  <1>1. ASSUME NEW i \in DOMAIN Workload, Start(i) PROVE RunTypes'
    <2> DEFINE r == Workload[i]
    <2>1. r \in Requests /\ Step(r, "queued", "started") /\ Cardinality(Busy) < workers
      BY <1>1, CurrentIs DEF Start
    <2>2. UNCHANGED <<workers, ran, began, seen, last, tag, clock, dispatch>>
      BY <1>1 DEF Start, gatewayVars
    <2> HIDE DEF r
    <2>3. Cardinality(Busy') <= workers' /\ stage' \in [Requests -> Steps]
      BY <2>1, <2>2, BusyAfter, Moved DEF Steps
    <2> QED BY <2>2, <2>3 DEF RunTypes
  <1>2. ASSUME NEW r \in Requests, MarkResidency(r) PROVE RunTypes'
    <2>1. Step(r, "started", "marked") /\ UNCHANGED <<workers, ran, began, clock, dispatch>>
      BY <1>2 DEF MarkResidency, gatewayVars
    <2>2. Cardinality(Busy') <= workers' /\ stage' \in [Requests -> Steps]
      BY <2>1, BusyAfter, Moved DEF Steps
    <2>3. ModelOf[r] \in Models
      BY MeasuredRunAssumption
    <2>4. /\ seen' \subseteq Models /\ last' \in Models \cup {NoModel}
          /\ tag' \in [Requests -> [cold : BOOLEAN, switch : BOOLEAN]]
      BY <1>2, <2>3 DEF MarkResidency, Tracker!Mark, Tracker!Classify, RunTypes
    <2> QED BY <2>1, <2>2, <2>4 DEF RunTypes
  <1>3. ASSUME NEW r \in Requests, CallBackend(r) \/ BackendRaises(r) PROVE RunTypes'
    <2>1. PICK to \in {"streaming", "ended"} : Step(r, "marked", to)
      BY <1>3 DEF CallBackend, BackendRaises
    <2>2. UNCHANGED <<workers, ran, began, seen, last, tag>> /\ Stamp(r)
      BY <1>3 DEF CallBackend, BackendRaises, gatewayVars
    <2>3. Cardinality(Busy') <= workers' /\ stage' \in [Requests -> Steps]
      BY <2>1, <2>2, BusyAfter, Moved DEF Steps
    <2>4. clock' \in Nat /\ dispatch' \in [Requests -> Nat] /\ began' \in 0..clock'
      BY <2>2 DEF Stamp, RunTypes
    <2> QED BY <2>2, <2>3, <2>4 DEF RunTypes
  <1>4. ASSUME NEW r \in Requests, BackendReturns(r) \/ TimedOut(r) PROVE RunTypes'
    <2>1. Step(r, "streaming", "ended") \/ Step(r, "ended", "lost")
      BY <1>4 DEF BackendReturns, TimedOut
    <2>2. UNCHANGED <<workers, ran, began, seen, last, tag, clock, dispatch>>
      BY <1>4 DEF BackendReturns, TimedOut, gatewayVars
    <2>3. Cardinality(Busy') <= workers' /\ stage' \in [Requests -> Steps]
      BY <2>1, <2>2, BusyAfter, Moved DEF Steps
    <2> QED BY <2>2, <2>3 DEF RunTypes
  <1>5. ASSUME NEW r \in Requests, LogCompleted(r) PROVE RunTypes'
    <2>1. Step(r, "ended", "recorded") /\ clock' = clock + 1
          /\ UNCHANGED <<workers, ran, began, seen, last, tag, dispatch>>
      BY <1>5 DEF LogCompleted, gatewayVars
    <2>2. Cardinality(Busy') <= workers' /\ stage' \in [Requests -> Steps]
      BY <2>1, BusyAfter, Moved DEF Steps
    <2> QED BY <2>1, <2>2 DEF RunTypes
  <1>6. ASSUME NEW s \in Schedulers, Restart(s) PROVE RunTypes'
    <2>1. Busy' = {}
      BY <1>6, AfterRestart DEF Busy
    <2>2. Cardinality(Busy') = 0
      BY <2>1, FS_EmptySet
    <2>3. /\ UNCHANGED <<workers, tag, clock, dispatch>> /\ began' = clock
          /\ seen' = {} /\ last' = NoModel
      BY <1>6 DEF Restart
    <2>4. workers \in Nat \ {0}
      BY MeasuredRunAssumption DEF RunTypes
    <2>5. /\ stage' \in [Requests -> Steps] /\ ran' \in Seq(Schedulers)
          /\ Len(ran') \in 1..Len(Workloads)
      BY <1>6, AfterRestart
    <2> QED BY <2>2, <2>3, <2>4, <2>5 DEF RunTypes
  <1> QED BY <1>1, <1>2, <1>3, <1>4, <1>5, <1>6 DEF RunNext

\* Every step leaves work to the last gateway only.
LEMMA StagesStep == ASSUME RunTypes, StagesInv, RunNext PROVE StagesInv'
  <1>1. ASSUME NEW r \in Requests, NEW from \in Steps, NEW to \in Steps, Step(r, from, to),
               UNCHANGED ran, from = "queued" => r \in Current,
               from \in {"queued", "started", "marked", "streaming", "ended"}, to # "queued"
        PROVE  StagesInv'
    <2>1. /\ stage[r] = from /\ stage'[r] = to
          /\ \A q \in Requests : q # r => stage'[q] = stage[q]
      BY <1>1, Moved
    <2>2. r \in Current /\ Current' = Current
      BY <1>1, <2>1 DEF StagesInv, Current
    <2>3. ASSUME NEW k \in DOMAIN Workloads, k > Len(ran), NEW q \in SentTo(k)
          PROVE  stage'[q] = "queued"
      <3>1. q # r /\ q \in Requests
        BY <2>2, <2>3, RequestsSent, CurrentIs DEF Current
      <3> QED BY <2>1, <2>3, <3>1 DEF StagesInv
    <2>4. \A q \in Requests :
            stage'[q] \in {"started", "marked", "streaming", "ended"} => q \in Current
      BY <2>1, <2>2 DEF StagesInv
    <2> QED BY <1>1, <2>2, <2>3, <2>4 DEF StagesInv
  <1>2. ASSUME NEW i \in DOMAIN Workload, Start(i) PROVE StagesInv'
    BY <1>1, <1>2, CurrentIs DEF Start, Steps, gatewayVars
  <1>3. ASSUME NEW r \in Requests,
               \/ MarkResidency(r) \/ CallBackend(r) \/ BackendReturns(r) \/ BackendRaises(r)
               \/ TimedOut(r) \/ LogCompleted(r)
        PROVE  StagesInv'
    <2>1. UNCHANGED ran
      BY <1>3 DEF MarkResidency, CallBackend, BackendReturns, BackendRaises, TimedOut,
                  LogCompleted, gatewayVars
    <2>2. \/ Step(r, "started", "marked") \/ Step(r, "marked", "streaming")
          \/ Step(r, "streaming", "ended") \/ Step(r, "marked", "ended")
          \/ Step(r, "ended", "lost") \/ Step(r, "ended", "recorded")
      BY <1>3 DEF MarkResidency, CallBackend, BackendReturns, BackendRaises, TimedOut,
                  LogCompleted
    <2> QED BY <1>1, <2>1, <2>2 DEF Steps
  <1>4. ASSUME NEW s \in Schedulers, Restart(s) PROVE StagesInv'
    <2>1. ASSUME NEW k \in DOMAIN Workloads, k > Len(ran'), NEW q \in SentTo(k)
          PROVE  stage'[q] = "queued"
      <3>1. Len(ran') = Len(ran) + 1 /\ Len(ran) \in Nat /\ k \in Nat
        BY <1>4, AfterRestart, CurrentIs, RequestsSent
      <3>2. k > Len(ran) /\ k # Len(ran)
        BY <2>1, <3>1
      <3>3. q \in Requests /\ q \notin Current
        BY <3>2, RequestsSent, CurrentIs DEF Current
      <3>4. stage[q] = "queued"
        BY <3>2 DEF StagesInv
      <3> QED BY <1>4, <3>3, <3>4, AfterRestart
    <2>2. \A q \in Requests : stage'[q] \notin {"started", "marked", "streaming", "ended"}
      BY <1>4, AfterRestart
    <2> QED BY <2>1, <2>2 DEF StagesInv
  <1> QED BY <1>2, <1>3, <1>4 DEF RunNext

\* Every step stamps a request once, and no two alike.
LEMMA StampsStep == ASSUME RunTypes, StagesInv, StampsInv, RunNext PROVE StampsInv'
  <1>1. ASSUME NEW r \in Requests, NEW from \in Steps, NEW to \in Steps, Step(r, from, to),
               UNCHANGED <<ran, began, dispatch>>, clock' \in Nat, clock <= clock',
               to = "lost" => from = "ended",
               to \in {"queued", "started", "marked"} => from \in {"queued", "started", "marked"},
               to \in {"streaming", "ended", "recorded"} => from \in {"streaming", "ended"}
        PROVE  StampsInv'
    <2>1. /\ stage[r] = from /\ stage'[r] = to
          /\ \A q \in Requests : q # r => stage'[q] = stage[q]
      BY <1>1, Moved
    <2>2. /\ \A q \in Requests : dispatch'[q] = dispatch[q] /\ dispatch[q] \in Nat
          /\ began' = began /\ began \in Nat /\ clock \in Nat
      BY <1>1 DEF RunTypes
    <2>3. \A q \in Requests : stage'[q] \in {"queued", "started", "marked"} => dispatch'[q] = 0
      BY <1>1, <2>1, <2>2 DEF StampsInv
    <2>4. \A q \in Requests : stage'[q] \in {"streaming", "ended"} => dispatch'[q] > began'
      BY <1>1, <2>1, <2>2 DEF StampsInv
    <2>5. \A q \in Requests : stage'[q] = "recorded" => dispatch'[q] > 0
      BY <1>1, <2>1, <2>2 DEF StampsInv
    <2>6. \A q \in Requests : dispatch'[q] <= clock'
      BY <1>1, <2>2 DEF StampsInv
    <2>8. \A q \in Current' : stage'[q] = "lost" => dispatch'[q] > 0
      <3>1. Current' = Current /\ Current \subseteq Requests
        BY <1>1, CurrentIs DEF Current
      <3> QED BY <1>1, <2>1, <2>2, <3>1 DEF StampsInv
    <2>7. \A p, q \in Requests : dispatch'[p] > 0 /\ p # q => dispatch'[p] # dispatch'[q]
      BY <2>2 DEF StampsInv
    <2> QED BY <2>3, <2>4, <2>5, <2>6, <2>7, <2>8 DEF StampsInv
  <1>2. ASSUME NEW i \in DOMAIN Workload, Start(i) PROVE StampsInv'
    <2>1. Workload[i] \in Requests /\ Step(Workload[i], "queued", "started")
          /\ UNCHANGED <<ran, began, dispatch, clock>> /\ clock \in Nat
      BY <1>2, CurrentIs DEF Start, gatewayVars, RunTypes
    <2> QED BY <1>1, <2>1 DEF Steps
  <1>3. ASSUME NEW r \in Requests, MarkResidency(r) \/ BackendReturns(r) \/ TimedOut(r)
        PROVE  StampsInv'
    <2>1. /\ \/ Step(r, "started", "marked") \/ Step(r, "streaming", "ended")
             \/ Step(r, "ended", "lost")
          /\ UNCHANGED <<ran, began, dispatch, clock>> /\ clock \in Nat
      BY <1>3 DEF MarkResidency, BackendReturns, TimedOut, gatewayVars, RunTypes
    <2> QED BY <1>1, <2>1 DEF Steps
  <1>4. ASSUME NEW r \in Requests, LogCompleted(r) PROVE StampsInv'
    <2>1. /\ Step(r, "ended", "recorded") /\ UNCHANGED <<ran, began, dispatch>>
          /\ clock' \in Nat /\ clock <= clock'
      BY <1>4 DEF LogCompleted, gatewayVars, RunTypes
    <2> QED BY <1>1, <2>1 DEF Steps
  <1>5. ASSUME NEW r \in Requests, CallBackend(r) \/ BackendRaises(r) PROVE StampsInv'
    <2>1. PICK to \in {"streaming", "ended"} : Step(r, "marked", to)
      BY <1>5 DEF CallBackend, BackendRaises
    <2>2. began' = began /\ clock' = clock + 1 /\ dispatch' = [dispatch EXCEPT ![r] = clock + 1]
      BY <1>5 DEF CallBackend, BackendRaises, gatewayVars, Stamp
    <2>3. /\ stage[r] = "marked" /\ stage'[r] = to
          /\ \A q \in Requests : q # r => stage'[q] = stage[q]
      BY <2>1, Moved DEF Steps
    <2>4. /\ dispatch'[r] = clock + 1 /\ clock \in Nat /\ began \in Nat /\ began <= clock
          /\ \A q \in Requests : dispatch[q] \in Nat
          /\ \A q \in Requests : q # r => dispatch'[q] = dispatch[q]
          /\ \A q \in Requests : dispatch[q] <= clock
      BY <2>2 DEF RunTypes, StampsInv
    <2>5. \A q \in Requests : stage'[q] \in {"queued", "started", "marked"} => dispatch'[q] = 0
      BY <2>1, <2>3, <2>4 DEF StampsInv
    <2>6. \A q \in Requests : stage'[q] \in {"streaming", "ended"} => dispatch'[q] > began'
      BY <2>2, <2>3, <2>4 DEF StampsInv
    <2>7. \A q \in Requests : stage'[q] = "recorded" => dispatch'[q] > 0
      BY <2>3, <2>4 DEF StampsInv
    <2>8. \A q \in Requests : dispatch'[q] <= clock'
      BY <2>2, <2>4
    <2>9. \A p, q \in Requests : dispatch'[p] > 0 /\ p # q => dispatch'[p] # dispatch'[q]
      BY <2>4 DEF StampsInv
    <2>10. \A q \in Current' : stage'[q] = "lost" => dispatch'[q] > 0
      <3>1. Current' = Current /\ Current \subseteq Requests
        BY <1>5, CurrentIs DEF Current, CallBackend, BackendRaises, gatewayVars
      <3> QED BY <2>1, <2>3, <2>4, <3>1 DEF StampsInv
    <2> QED BY <2>5, <2>6, <2>7, <2>8, <2>9, <2>10 DEF StampsInv
  <1>6. ASSUME NEW s \in Schedulers, Restart(s) PROVE StampsInv'
    <2>1. UNCHANGED <<clock, dispatch>>
      BY <1>6 DEF Restart
    <2>2. \A q \in Requests : stage'[q] \in {"queued", "recorded", "lost"}
                              /\ (stage'[q] # "lost" => stage'[q] = stage[q])
      BY <1>6, AfterRestart
    <2>3. \A q \in Current' : stage'[q] = "queued"
      BY <1>6, AfterRestart
    <2> QED BY <2>1, <2>2, <2>3 DEF StampsInv
  <1> QED BY <1>2, <1>3, <1>4, <1>5, <1>6 DEF RunNext

\* A step of a request that is not its marking leaves the tags and the tracker alone.
LEMMA ColdKept ==
  ASSUME RunTypes, ColdInv, UNCHANGED <<ran, seen, tag>>, NEW r \in Current,
         \A q \in Requests : q # r => stage'[q] = stage[q],
         (stage[r] \in {"queued", "started"}) = (stage'[r] \in {"queued", "started"})
  PROVE  ColdInv'
  <1>1. Current' = Current /\ Current \subseteq Requests /\ r \in Requests
    BY CurrentIs DEF Current
  <1>2. \A q \in Requests : Marked(q)' = Marked(q)
    BY DEF Marked
  <1>3. seen' = {ModelOf[q] : q \in {p \in Current' : Marked(p)'}}
    BY <1>1, <1>2 DEF ColdInv
  <1>4. \A q \in Requests : ~ Marked(q)' => ~ tag'[q].cold
    BY <1>2 DEF ColdInv
  <1>5. ASSUME NEW k \in DOMAIN ran, NEW q \in SentTo(k),
               stage'[q] \in {"marked", "streaming", "ended", "recorded"}
                 \/ (k = Len(ran) /\ Marked(q)')
        PROVE  \E p \in SentTo(k) : tag[p].cold /\ ModelOf[p] = ModelOf[q]
    <2>1. q \in Requests /\ k \in DOMAIN Workloads /\ Len(ran) \in DOMAIN Workloads
      BY CurrentIs
    <2>2. CASE q = r
      <3>1. k = Len(ran)
        BY <2>1, <2>2, RequestsSent DEF Current
      <3>2. Marked(q)
        BY <1>2, <1>5, <2>1 DEF Marked
      <3> QED BY <3>1, <3>2 DEF ColdInv
    <2>3. CASE q # r
      BY <1>2, <1>5, <2>1, <2>3 DEF ColdInv
    <2> QED BY <2>2, <2>3
  <1> QED BY <1>3, <1>4, <1>5 DEF ColdInv

\* MarkResidency() tags a request cold if no other of this gateway has its model.
LEMMA ColdMarked ==
  ASSUME RunTypes, StagesInv, ColdInv, NEW r \in Requests, MarkResidency(r) PROVE ColdInv'
  <1>1. /\ stage[r] = "started" /\ stage'[r] = "marked"
        /\ \A q \in Requests : q # r => stage'[q] = stage[q]
    BY Moved DEF MarkResidency, Steps
  <1>2. /\ tag'[r].cold = (ModelOf[r] \notin seen) /\ seen' = seen \cup {ModelOf[r]}
        /\ \A q \in Requests : q # r => tag'[q] = tag[q]
        /\ UNCHANGED ran
    BY DEF MarkResidency, Tracker!Classify, Tracker!Mark, RunTypes, gatewayVars
  <1>3. r \in Current /\ Current' = Current /\ Current \subseteq Requests
    BY <1>1, <1>2, CurrentIs DEF StagesInv, Current
  <1>4. /\ ~ Marked(r) /\ Marked(r)' /\ ~ tag[r].cold
        /\ \A q \in Requests : q # r => Marked(q)' = Marked(q)
    BY <1>1 DEF Marked, ColdInv
  <1>5. seen = {ModelOf[q] : q \in {p \in Current : Marked(p)}}
    BY DEF ColdInv
  <1>6. seen' = {ModelOf[q] : q \in {p \in Current' : Marked(p)'}}
    BY <1>2, <1>3, <1>4, <1>5
  <1>7. \A q \in Requests : ~ Marked(q)' => ~ tag'[q].cold
    BY <1>2, <1>4 DEF ColdInv
  <1>8. \A k \in DOMAIN ran : k \in DOMAIN Workloads /\ (r \in SentTo(k) => k = Len(ran))
    BY <1>3, CurrentIs, RequestsSent DEF Current
  <1>9. ASSUME NEW q \in Current, tag[q].cold PROVE ModelOf[q] \in seen
    <2>1. Marked(q)
      BY <1>3, <1>9 DEF ColdInv
    <2> QED BY <1>5, <2>1
  <1>10. ASSUME NEW k \in DOMAIN ran, NEW p \in SentTo(k), NEW q \in SentTo(k),
                tag'[p].cold, tag'[q].cold, ModelOf[p] = ModelOf[q]
         PROVE  p = q
    <2>1. p \in Requests /\ q \in Requests
      BY CurrentIs
    <2>2. CASE p # r /\ q # r
      BY <1>2, <1>10, <2>1, <2>2 DEF ColdInv
    <2>3. CASE p = r /\ q # r
      BY <1>2, <1>8, <1>9, <1>10, <2>1, <2>3 DEF Current
    <2>4. CASE q = r /\ p # r
      BY <1>2, <1>8, <1>9, <1>10, <2>1, <2>4 DEF Current
    <2> QED BY <2>2, <2>3, <2>4
  <1>11. ASSUME NEW k \in DOMAIN ran, NEW q \in SentTo(k),
                stage'[q] \in {"marked", "streaming", "ended", "recorded"}
                  \/ (k = Len(ran) /\ Marked(q)')
         PROVE  \E p \in SentTo(k) : tag'[p].cold /\ ModelOf[p] = ModelOf[q]
    <2>1. q \in Requests /\ SentTo(k) \subseteq Requests
      BY CurrentIs
    <2>2. ASSUME NEW p \in SentTo(k), tag[p].cold PROVE tag'[p].cold
      BY <1>2, <1>4, <2>1, <2>2
    <2>3. CASE q # r
      <3>1. \E p \in SentTo(k) : tag[p].cold /\ ModelOf[p] = ModelOf[q]
        BY <1>1, <1>4, <1>11, <2>1, <2>3 DEF ColdInv
      <3> QED BY <2>2, <3>1
    <2>4. CASE q = r /\ ModelOf[r] \notin seen
      BY <1>2, <2>4
    <2>5. CASE q = r /\ ModelOf[r] \in seen
      <3>1. PICK o \in Current : Marked(o) /\ ModelOf[o] = ModelOf[r]
        BY <1>5, <2>5
      <3>2. k = Len(ran) /\ o \in SentTo(k)
        BY <1>8, <2>5 DEF Current
      <3>3. \E p \in SentTo(k) : tag[p].cold /\ ModelOf[p] = ModelOf[o]
        BY <3>1, <3>2 DEF ColdInv
      <3> QED BY <2>2, <2>5, <3>1, <3>3
    <2> QED BY <2>3, <2>4, <2>5
  <1>12. ran' = ran
    BY <1>2
  <1> QED BY <1>6, <1>7, <1>10, <1>11, <1>12 DEF ColdInv

\* A new gateway has marked nothing.
LEMMA ColdRestarted ==
  ASSUME RunTypes, StagesInv, ColdInv, NEW s \in Schedulers, Restart(s) PROVE ColdInv'
  <1>1. /\ seen' = {} /\ UNCHANGED tag
        /\ \A r \in Requests : /\ stage'[r] \in {"queued", "recorded", "lost"}
                               /\ stage'[r] # "lost" => stage'[r] = stage[r]
        /\ \A r \in Current' : r \notin Current /\ stage[r] = "queued" /\ stage'[r] = "queued"
        /\ Len(ran') = Len(ran) + 1 /\ ran' \in Seq(Schedulers)
    BY AfterRestart DEF Restart
  <1>2. seen' = {ModelOf[q] : q \in {p \in Current' : Marked(p)'}}
    BY <1>1 DEF Marked
  <1>3. \A q \in Requests : ~ Marked(q)' => ~ tag'[q].cold
    BY <1>1 DEF ColdInv, Marked
  <1>4. /\ DOMAIN ran' = DOMAIN ran \cup {Len(ran')} /\ Len(ran') \notin DOMAIN ran
        /\ \A k \in DOMAIN ran : SentTo(k) \subseteq Requests
        /\ Current' \subseteq Requests /\ Current' = SentTo(Len(ran'))
    <2>1. /\ Len(ran) \in Nat /\ DOMAIN ran = 1..Len(ran)
          /\ \A k \in DOMAIN ran : SentTo(k) \subseteq Requests
      BY CurrentIs
    <2>2. DOMAIN ran' = 1..(Len(ran) + 1)
      BY <1>1, <2>1
    <2>3. Len(ran') \in DOMAIN Workloads
      BY AfterRestart, RequestsSent
    <2> QED BY <1>1, <2>1, <2>2, <2>3, RequestsSent DEF Current
  <1>5. ASSUME NEW k \in DOMAIN ran', NEW p \in SentTo(k), NEW q \in SentTo(k),
               tag'[p].cold, tag'[q].cold, ModelOf[p] = ModelOf[q]
        PROVE  p = q
    <2>1. CASE k \in DOMAIN ran
      BY <1>1, <1>5, <2>1 DEF ColdInv
    <2>2. CASE k = Len(ran')
      BY <1>1, <1>4, <1>5, <2>2 DEF ColdInv, Marked
    <2> QED BY <1>4, <2>1, <2>2
  <1>6. ASSUME NEW k \in DOMAIN ran', NEW q \in SentTo(k),
               stage'[q] \in {"marked", "streaming", "ended", "recorded"}
                 \/ (k = Len(ran') /\ Marked(q)')
        PROVE  \E p \in SentTo(k) : tag'[p].cold /\ ModelOf[p] = ModelOf[q]
    <2>1. CASE k \in DOMAIN ran
      BY <1>1, <1>4, <1>6, <2>1 DEF ColdInv
    <2>2. CASE k = Len(ran')
      BY <1>1, <1>4, <1>6, <2>2 DEF Marked
    <2> QED BY <1>4, <2>1, <2>2
  <1> QED BY <1>2, <1>3, <1>5, <1>6 DEF ColdInv

\* Every step keeps one request of each model tagged cold.
LEMMA ColdStep == ASSUME RunTypes, StagesInv, ColdInv, RunNext PROVE ColdInv'
  <1>1. ASSUME NEW i \in DOMAIN Workload, Start(i) PROVE ColdInv'
    <2> DEFINE r == Workload[i]
    <2>1. r \in Current /\ r \in Requests /\ Step(r, "queued", "started")
          /\ UNCHANGED <<ran, seen, tag>>
      BY <1>1, CurrentIs DEF Start, gatewayVars
    <2> HIDE DEF r
    <2> QED BY <2>1, Moved, ColdKept DEF Steps
  <1>2. ASSUME NEW r \in Requests,
               \/ CallBackend(r) \/ BackendReturns(r) \/ BackendRaises(r)
               \/ TimedOut(r) \/ LogCompleted(r)
        PROVE  ColdInv'
    <2>1. UNCHANGED <<ran, seen, tag>>
      BY <1>2 DEF CallBackend, BackendReturns, BackendRaises, TimedOut, LogCompleted,
                  gatewayVars
    <2>2. \/ Step(r, "marked", "streaming") \/ Step(r, "streaming", "ended")
          \/ Step(r, "marked", "ended") \/ Step(r, "ended", "lost")
          \/ Step(r, "ended", "recorded")
      BY <1>2 DEF CallBackend, BackendReturns, BackendRaises, TimedOut, LogCompleted
    <2>3. PICK from \in {"marked", "streaming", "ended"},
               to \in {"streaming", "ended", "lost", "recorded"} : Step(r, from, to)
      BY <2>2
    <2>4. /\ stage[r] = from /\ stage'[r] = to
          /\ \A q \in Requests : q # r => stage'[q] = stage[q]
      BY <2>3, Moved DEF Steps
    <2>5. r \in Current
      BY <2>4 DEF StagesInv
    <2> QED BY <2>1, <2>4, <2>5, ColdKept
  <1> QED BY <1>1, <1>2, ColdMarked, ColdRestarted DEF RunNext

\* Steps that write nothing and record nothing leave every line true.
LEMMA LogKept ==
  ASSUME RunTypes, StampsInv, LogInv, UNCHANGED <<log, ran>>, NEW r \in Requests,
         stage[r] \notin {"recorded", "lost"}, stage'[r] # "recorded", clock' \in Nat, clock <= clock',
         \A q \in Requests : q # r =>
           stage'[q] = stage[q] /\ tag'[q] = tag[q] /\ dispatch'[q] = dispatch[q]
  PROVE  LogInv'
  <1>1. Completions' = Completions /\ log' = log
    BY DEF Completions
  <1>2. ASSUME NEW i \in Completions PROVE Says(log[i])'
    <2> DEFINE line == log[i]
    <2>1. Says(line) /\ line \in Lines /\ line.event = "request_completed"
      BY DEF LogInv, Completions
    <2>2. line.request \in Requests /\ line.finish \in Nat /\ clock \in Nat
      BY <2>1 DEF Lines, Remains, ReceptionLines, CompletionLines, RunTypes
    <2>3. line.request # r
      BY <2>1 DEF Says
    <2>4. ran' = ran /\ log' = log
      OBVIOUS
    <2> HIDE DEF line
    <2>5. /\ stage'[line.request] = "recorded"
          /\ line.tenant = TenantOf[line.request] /\ line.model = ModelOf[line.request]
          /\ line.dispatch = dispatch'[line.request]
          /\ line.cold = tag'[line.request].cold /\ line.switch = tag'[line.request].switch
          /\ \E k \in DOMAIN ran' : line.request \in SentTo(k) /\ line.scheduler = ran'[k]
          /\ line.arrival < line.dispatch /\ line.dispatch < line.finish /\ line.finish <= clock'
      BY <2>1, <2>2, <2>3, <2>4 DEF Says
    <2> QED BY <2>4, <2>5 DEF Says, line
  <1>3. ASSUME NEW q \in Requests, stage'[q] = "recorded"
        PROVE  \E i \in Completions : log[i].request = q
    <2>1. stage[q] = "recorded"
      BY <1>3
    <2> QED BY <2>1 DEF LogInv
  <1>4. \A q \in Requests : LostNonAscii(q) => LostNonAscii(q)'
    BY DEF LostNonAscii
  <1> QED BY <1>1, <1>2, <1>3, <1>4 DEF LogInv

\* The line the handler writes is the request's only one, and true.
LEMMA LogWritten ==
  ASSUME RunTypes, StagesInv, StampsInv, LogInv, NEW r \in Requests, LogCompleted(r)
  PROVE  LogInv'
  <1>0. PICK line : line = Completion(r, clock + 1)
    OBVIOUS
  <1> DEFINE n == Len(log) + 1
  <1>1. /\ stage[r] = "ended" /\ stage'[r] = "recorded"
        /\ \A q \in Requests : q # r => stage'[q] = stage[q]
    BY Moved DEF LogCompleted, Steps
  <1>2. /\ UNCHANGED <<ran, tag, dispatch>> /\ clock' = clock + 1 /\ clock \in Nat
        /\ log' = Append(log, line) /\ log \in Seq(Lines) /\ Len(log) \in Nat
    BY <1>0 DEF LogCompleted, gatewayVars, RunTypes, LogInv
  <1>3. r \in SentTo(Len(ran)) /\ Len(ran) \in DOMAIN ran /\ Last(ran) = ran[Len(ran)]
        /\ Last(ran) \in Schedulers
    <2>1. r \in Current
      BY <1>1 DEF StagesInv
    <2>2. ran \in Seq(Schedulers) /\ Len(ran) \in Nat /\ Len(ran) >= 1
      BY RequestsSent DEF RunTypes
    <2> QED BY <2>1, <2>2 DEF Current, Last
  <1>4. /\ TenantOf[r] \in Range(TenantOf) /\ ModelOf[r] \in Models
        /\ began \in Nat /\ dispatch[r] \in Nat /\ dispatch[r] > began /\ dispatch[r] <= clock
        /\ tag[r].cold \in BOOLEAN /\ tag[r].switch \in BOOLEAN
    BY <1>1, MeasuredRunAssumption DEF Range, RunTypes, StampsInv
  <1>5. /\ line = [event |-> "request_completed", request |-> r, tenant |-> TenantOf[r],
                   model |-> ModelOf[r], arrival |-> began, scheduler |-> Last(ran),
                   dispatch |-> dispatch[r], finish |-> clock + 1,
                   cold |-> tag[r].cold, switch |-> tag[r].switch]
        /\ line.event = "request_completed" /\ line.request = r
    BY <1>0 DEF Completion
  <1>6. line \in CompletionLines
    BY <1>2, <1>3, <1>4, <1>5 DEF CompletionLines
  <1>7. Says(line)'
    <2>1. /\ line.tenant = TenantOf[r] /\ line.model = ModelOf[r] /\ line.dispatch = dispatch[r]
          /\ line.cold = tag[r].cold /\ line.switch = tag[r].switch /\ line.request = r
          /\ line.scheduler = ran[Len(ran)] /\ line.arrival = began /\ line.finish = clock + 1
      BY <1>3, <1>5
    <2>3. line.arrival < line.dispatch /\ line.dispatch < line.finish /\ line.finish <= clock'
      BY <1>2, <1>4, <2>1
    <2>4. ran' = ran /\ tag' = tag /\ dispatch' = dispatch
      BY <1>2
    <2> QED BY <1>1, <1>3, <2>1, <2>3, <2>4 DEF Says
  <1>8. /\ log' \in Seq(Lines) /\ DOMAIN log' = DOMAIN log \cup {n} /\ n \notin DOMAIN log
        /\ log'[n] = line /\ \A i \in DOMAIN log : log'[i] = log[i]
    BY <1>2, <1>6 DEF Lines
  <1>9. Completions' = Completions \cup {n} /\ Completions \subseteq DOMAIN log
    BY <1>5, <1>8 DEF Completions
  <1>10. ASSUME NEW i \in Completions, NEW old, old = log[i]
         PROVE  Says(old)' /\ log'[i] = old /\ old.request # r
    <2>1. Says(old) /\ old \in Lines /\ old.event = "request_completed" /\ log'[i] = old
      BY <1>8, <1>9, <1>10 DEF LogInv, Completions
    <2>2. old.request \in Requests /\ old.finish \in Nat
      BY <2>1 DEF Lines, Remains, ReceptionLines, CompletionLines
    <2>3. old.request # r
      BY <1>1, <2>1 DEF Says
    <2>4. ran' = ran /\ tag' = tag /\ dispatch' = dispatch /\ stage'[old.request] = stage[old.request]
      BY <1>1, <1>2, <2>2, <2>3
    <2>5. Says(old)'
      BY <1>2, <2>1, <2>2, <2>4 DEF Says
    <2> QED BY <2>1, <2>3, <2>5
  <1>11. \A i \in Completions' : Says(log[i])'
    <2> SUFFICES ASSUME NEW i \in Completions', NEW l, l = log'[i] PROVE Says(l)'
      BY DEF Says
    <2>1. CASE i = n
      BY <1>7, <1>8, <2>1
    <2>2. CASE i \in Completions
      BY <1>8, <1>10, <2>2
    <2> QED BY <1>9, <2>1, <2>2
  <1>12. \A i, j \in Completions' : log'[i].request = log'[j].request => i = j
    BY <1>5, <1>8, <1>9, <1>10 DEF LogInv
  <1>13. ASSUME NEW q \in Requests, stage'[q] = "recorded"
         PROVE  \E i \in Completions' : log'[i].request = q
    <2>1. CASE q = r
      BY <1>5, <1>8, <1>9, <2>1
    <2>2. CASE q # r
      BY <1>1, <1>9, <1>10, <1>13, <2>2 DEF LogInv
    <2> QED BY <2>1, <2>2
  <1>14. ~ Readable(log') => ~ Readable(log)
    BY <1>5, <1>8 DEF Readable
  <1>15. \A q \in Requests : LostNonAscii(q) => LostNonAscii(q)'
    BY <1>1 DEF LostNonAscii
  <1> QED BY <1>8, <1>11, <1>12, <1>13, <1>14, <1>15 DEF LogInv

\* What a gateway logs when it starts is no completion.
LEMMA ReceptionsAre ==
  ASSUME NEW k \in DOMAIN Workloads, NEW s \in Schedulers, NEW arrival \in Nat
  PROVE  /\ Receptions(k, s, arrival) \in Seq(ReceptionLines)
         /\ Receptions(k, s, arrival) # <<>>
  <1>1. /\ DOMAIN Workloads[k] = 1..Len(Workloads[k]) /\ Len(Workloads[k]) \in Nat \ {0}
        /\ \A i \in DOMAIN Workloads[k] : Workloads[k][i] \in Requests
    BY RequestsSent
  <1>2. \A i \in DOMAIN Workloads[k] : Reception(Workloads[k][i], s, arrival) \in ReceptionLines
    BY <1>1, MeasuredRunAssumption DEF Reception, ReceptionLines, Range
  <1>3. Receptions(k, s, arrival) \in Seq(ReceptionLines)
        /\ Len(Receptions(k, s, arrival)) = Len(Workloads[k])
    BY <1>1, <1>2 DEF Receptions
  <1> QED BY <1>1, <1>3

\* None of it is torn.
LEMMA ReceptionsReadable == ASSUME NEW lines \in Seq(ReceptionLines) PROVE Readable(lines)
  <1>1. ASSUME NEW i \in DOMAIN lines, NEW line, line = lines[i] PROVE line.event # "undecodable"
    <2>1. line \in ReceptionLines
      BY <1>1
    <2> QED BY <2>1 DEF ReceptionLines
  <1> QED BY <1>1 DEF Readable

NoCompletion == Remains \cup ReceptionLines

\* None of these lines is a completion.
LEMMA NoneCompleted == ASSUME NEW line \in NoCompletion PROVE line.event # "request_completed"
  BY DEF NoCompletion, Remains, ReceptionLines

\* A log is readable up to where it is extended by lines that are all readable.
LEMMA ReadableExtended ==
  ASSUME NEW S, NEW old \in Seq(S), NEW extra \in Seq(S), Readable(extra)
  PROVE  Readable(old \o extra) = Readable(old)
  <1> DEFINE new == old \o extra
  <1>1. /\ Len(old) \in Nat /\ Len(extra) \in Nat
        /\ DOMAIN old = 1..Len(old) /\ DOMAIN extra = 1..Len(extra)
        /\ DOMAIN new = 1..(Len(old) + Len(extra))
        /\ \A i \in DOMAIN old : new[i] = old[i]
        /\ \A i \in DOMAIN new : i \notin DOMAIN old =>
             i - Len(old) \in DOMAIN extra /\ new[i] = extra[i - Len(old)]
    OBVIOUS
  <1> HIDE DEF new
  <1>2. DOMAIN old \subseteq DOMAIN new
    BY <1>1
  <1>3. Readable(new) = Readable(old)
    BY <1>1, <1>2 DEF Readable
  <1> QED BY <1>3 DEF new

\* Lines appended that are no completions change nothing.
LEMMA LogExtended ==
  ASSUME RunTypes, LogInv, NEW extra \in Seq(NoCompletion), log' = log \o extra,
         \A r \in Requests : stage[r] = "lost" => stage'[r] = "lost",
         Readable(extra) \/ \E r \in Requests : LostNonAscii(r)',
         UNCHANGED <<tag, dispatch, clock>>,
         \A r \in Requests : (stage'[r] = "recorded") = (stage[r] = "recorded"),
         \A k \in DOMAIN ran : k \in DOMAIN ran' /\ ran'[k] = ran[k]
  PROVE  LogInv'
  <1>1. /\ log \in Seq(Lines) /\ extra \in Seq(Lines)
        /\ Len(log) \in Nat /\ Len(extra) \in Nat
    BY DEF LogInv, Lines, NoCompletion
  <1>2. /\ log' \in Seq(Lines) /\ DOMAIN log = 1..Len(log)
        /\ DOMAIN log' = 1..(Len(log) + Len(extra))
        /\ \A i \in DOMAIN log : log'[i] = log[i]
    BY <1>1
  <1>3. ASSUME NEW i \in DOMAIN log', i \notin DOMAIN log PROVE i \notin Completions'
    <2>1. i - Len(log) \in 1..Len(extra) /\ log'[i] = extra[i - Len(log)]
      BY <1>1, <1>2, <1>3
    <2>2. log'[i] \in NoCompletion
      BY <2>1
    <2> QED BY <2>2, NoneCompleted DEF Completions
  <1>4. Completions' = Completions /\ \A i \in Completions : log'[i] = log[i]
    BY <1>1, <1>2, <1>3 DEF Completions
  <1>5. ASSUME NEW i \in Completions, NEW old, old = log[i] PROVE Says(old)'
    <2>1. Says(old) /\ old \in Lines /\ old.event = "request_completed"
      BY <1>5 DEF LogInv, Completions
    <2>2. old.request \in Requests
      BY <2>1 DEF Lines, Remains, ReceptionLines, CompletionLines
    <2> QED BY <2>1, <2>2 DEF Says
  <1>6. \A i \in Completions' : Says(log[i])'
    <2> SUFFICES ASSUME NEW i \in Completions', NEW l, l = log'[i] PROVE Says(l)'
      BY DEF Says
    <2> QED BY <1>4, <1>5
  <1>7. \A i, j \in Completions' : log'[i].request = log'[j].request => i = j
    <2>1. \A i, j \in Completions : log[i].request = log[j].request => i = j
      BY DEF LogInv
    <2> QED BY ONLY <1>4, <2>1
  <1>8. ASSUME NEW q \in Requests, stage'[q] = "recorded"
        PROVE  \E i \in Completions' : log'[i].request = q
    <2>1. PICK i \in Completions : log[i].request = q
      BY <1>8 DEF LogInv
    <2> QED BY ONLY <1>4, <2>1
  <1>9. ASSUME ~ Readable(log') PROVE \E r \in Requests : LostNonAscii(r)'
    <2>1. ASSUME Readable(extra), NEW r \in Requests, LostNonAscii(r) PROVE LostNonAscii(r)'
      BY <2>1 DEF LostNonAscii
    <2>2. Readable(extra) => ~ Readable(log)
      BY <1>1, <1>9, ReadableExtended
    <2> QED BY <2>1, <2>2 DEF LogInv
  <1> QED BY <1>2, <1>6, <1>7, <1>8, <1>9 DEF LogInv

\* The order in which sequences are joined does not matter.
LEMMA JoinedTwice ==
  ASSUME NEW S, NEW a \in Seq(S), NEW b \in Seq(S), NEW c \in Seq(S)
  PROVE  (a \o b) \o c = a \o (b \o c)
  OBVIOUS

\* A gateway that starts logs what it is sent, and what was logged stays true.
LEMMA LogRestarted ==
  ASSUME RunTypes, StagesInv, LogInv, NEW s \in Schedulers, Restart(s) PROVE LogInv'
  <1> DEFINE received == Receptions(Len(ran) + 1, s, clock)
  <1>1. /\ UNCHANGED <<tag, dispatch, clock>>
        /\ \/ log' = log \o received
           \/ \E r \in Requests : \E line \in TornLines(r) :
                stage[r] = "ended" /\ log' = log \o <<line>> \o Tail(received)
    BY DEF Restart
  <1>2. /\ \A r \in Requests : (stage'[r] = "recorded") = (stage[r] = "recorded")
        /\ \A r \in Requests : stage[r] \in {"lost", "ended"} => stage'[r] = "lost"
        /\ \A k \in DOMAIN ran : k \in DOMAIN ran' /\ ran'[k] = ran[k]
        /\ Len(ran) + 1 \in DOMAIN Workloads /\ clock \in Nat
    BY AfterRestart, RequestsSent DEF RunTypes
  <1>3. received \in Seq(ReceptionLines) /\ received # <<>>
    BY <1>2, ReceptionsAre
  <1>4. \A lines \in Seq(ReceptionLines) : Readable(lines)
    BY ReceptionsReadable
  <1> HIDE DEF received
  <1>5. CASE log' = log \o received
    <2>1. received \in Seq(NoCompletion)
      BY <1>3 DEF NoCompletion
    <2> QED BY <1>1, <1>2, <1>3, <1>4, <1>5, <2>1, LogExtended
  <1>6. ASSUME NEW r \in Requests, NEW line \in TornLines(r),
               stage[r] = "ended", log' = log \o <<line>> \o Tail(received)
        PROVE  LogInv'
    <2> DEFINE torn == <<line>>
               rest == Tail(received)
    <2>1. line \in Remains /\ (line.event = "torn" \/ NonAscii \cap {TenantOf[r], ModelOf[r]} # {})
      BY <1>6 DEF TornLines, Remains
    <2>2. rest \in Seq(ReceptionLines)
      BY <1>3
    <2>3. torn \in Seq(NoCompletion) /\ rest \in Seq(NoCompletion)
      BY <2>1, <2>2 DEF NoCompletion
    <2>4. log \in Seq(Lines) /\ torn \in Seq(Lines) /\ rest \in Seq(Lines)
      BY <2>3 DEF LogInv, Lines, NoCompletion
    <2>5. Readable(torn) \/ LostNonAscii(r)'
      BY <1>2, <1>6, <2>1 DEF Readable, LostNonAscii
    <2>6. Readable(rest)
      BY <1>4, <2>2
    <2> HIDE DEF torn, rest
    <2>7. torn \o rest \in Seq(NoCompletion)
      BY ONLY <2>3
    <2>8. Readable(torn) => Readable(torn \o rest)
      BY ONLY <2>3, <2>6, ReadableExtended
    <2>9. (log \o torn) \o rest = log \o (torn \o rest)
      <3>1. PICK S : S = Lines
        OBVIOUS
      <3>2. log \in Seq(S) /\ torn \in Seq(S) /\ rest \in Seq(S)
        BY ONLY <2>4, <3>1
      <3> QED BY ONLY <3>2, JoinedTwice
    <2>10. log' = log \o (torn \o rest)
      BY <1>6, <2>9 DEF torn, rest
    <2> QED BY <1>1, <1>2, <2>5, <2>7, <2>8, <2>10, LogExtended
  <1> QED BY <1>1, <1>5, <1>6

\* Every step leaves the log with one true line for each request recorded.
LEMMA LogStep == ASSUME RunTypes, StagesInv, StampsInv, LogInv, RunNext PROVE LogInv'
  <1>1. ASSUME NEW i \in DOMAIN Workload, Start(i) PROVE LogInv'
    <2>1. PICK r \in Requests : r = Workload[i]
      BY CurrentIs
    <2>2. Step(r, "queued", "started") /\ UNCHANGED <<log, ran, tag, dispatch, clock>>
      BY <1>1, <2>1 DEF Start, gatewayVars
    <2>3. clock \in Nat
      BY DEF RunTypes
    <2> QED BY <2>2, <2>3, Moved, LogKept DEF Steps
  <1>2. ASSUME NEW r \in Requests,
               \/ MarkResidency(r) \/ CallBackend(r) \/ BackendReturns(r) \/ BackendRaises(r)
               \/ TimedOut(r)
        PROVE  LogInv'
    <2>1. \/ Step(r, "started", "marked") \/ Step(r, "marked", "streaming")
          \/ Step(r, "streaming", "ended") \/ Step(r, "marked", "ended")
          \/ Step(r, "ended", "lost")
      BY <1>2 DEF MarkResidency, CallBackend, BackendReturns, BackendRaises, TimedOut
    <2>2. PICK from \in Steps \ {"recorded", "lost"}, to \in Steps \ {"recorded"} : Step(r, from, to)
      BY <2>1 DEF Steps
    <2>3. /\ UNCHANGED <<log, ran>>
          /\ \A q \in Requests : q # r => tag'[q] = tag[q] /\ dispatch'[q] = dispatch[q]
          /\ clock' \in Nat /\ clock <= clock'
      BY <1>2 DEF MarkResidency, CallBackend, BackendReturns, BackendRaises, TimedOut,
                  gatewayVars, Stamp, RunTypes
    <2> QED BY <2>2, <2>3, Moved, LogKept
  <1> QED BY <1>1, <1>2, LogWritten, LogRestarted DEF RunNext

MarkedStages == {"marked", "streaming", "ended", "recorded"}

\* A step that marks and stamps nothing.
LEMMA SerialKept ==
  ASSUME RunTypes, SerialInv, UNCHANGED <<workers, ran, last, tag, dispatch>>,
         \A q \in Requests : /\ Marked(q)' <=> Marked(q)
                             /\ stage'[q] \in MarkedStages => stage[q] \in MarkedStages
  PROVE  SerialInv'
  <1> SUFFICES ASSUME workers = 1 PROVE SerialInv'
    BY DEF SerialInv
  <1>1. Current' = Current /\ Current \subseteq Requests
    BY CurrentIs DEF Current
  <1>2. /\ \A p, q : Earlier(p, q)' <=> Earlier(p, q)
        /\ \A k, p, q : JustBefore(k, p, q)' <=> JustBefore(k, p, q)
    BY DEF Earlier, JustBefore
  <1>3. (last' = NoModel) <=> (\A r \in Current' : ~ Marked(r)')
    BY <1>1 DEF SerialInv
  <1>4. ASSUME last' # NoModel
        PROVE  \E p \in Current' : /\ Marked(p)' /\ last' = ModelOf[p]
                                   /\ \A r \in Current' : Marked(r)' => r = p \/ Earlier(r, p)'
    <2>1. PICK p \in Current : /\ Marked(p) /\ last = ModelOf[p]
                               /\ \A r \in Current : Marked(r) => r = p \/ Earlier(r, p)
      BY <1>4 DEF SerialInv
    <2>2. Marked(p)' /\ last' = ModelOf[p]
      BY <1>1, <2>1
    <2>3. \A r \in Current : Marked(r)' => r = p \/ Earlier(r, p)'
      BY <1>1, <1>2, <2>1
    <2> QED BY <1>1, <2>2, <2>3
  <1>5. ASSUME NEW k \in DOMAIN ran, NEW q \in SentTo(k), stage'[q] \in MarkedStages
        PROVE  /\ tag'[q].cold <=> (\A r \in SentTo(k) : Earlier(r, q)' => ModelOf[r] # ModelOf[q])
               /\ tag'[q].switch
                    <=> (\E p \in SentTo(k) : JustBefore(k, p, q)' /\ ModelOf[p] # ModelOf[q])
    <2>1. q \in Requests /\ stage[q] \in MarkedStages
      BY <1>5, CurrentIs
    <2> QED BY <1>2, <2>1 DEF SerialInv, MarkedStages
  <1>6. ran' = ran
    OBVIOUS
  <1> QED BY <1>3, <1>4, <1>5, <1>6 DEF SerialInv, MarkedStages

\* With one worker, what is stamped when a request is marked is what was marked
\* before it; the tags say of that what the tracker knows.
LEMMA SerialMarked ==
  ASSUME RunTypes, StagesInv, StampsInv, ColdInv, SerialInv, workers = 1,
         NEW r \in Requests, MarkResidency(r)
  PROVE  SerialInv'
  <1>1. /\ stage[r] = "started" /\ stage'[r] = "marked"
        /\ \A q \in Requests : q # r => stage'[q] = stage[q]
    BY Moved DEF MarkResidency, Steps
  <1>2. /\ tag'[r].cold <=> ModelOf[r] \notin seen
        /\ tag'[r].switch <=> last # NoModel /\ last # ModelOf[r]
        /\ last' = ModelOf[r] /\ ModelOf[r] \in Models
        /\ \A q \in Requests : q # r => tag'[q] = tag[q]
    BY MeasuredRunAssumption
       DEF MarkResidency, Tracker!Classify, Tracker!Mark, RunTypes
  <1>3. UNCHANGED <<workers, ran, dispatch>>
    BY DEF MarkResidency, gatewayVars
  <1>4. r \in Current /\ Current' = Current /\ Current \subseteq Requests /\ Len(ran) \in DOMAIN ran
    BY <1>1, <1>3, CurrentIs, RequestsSent DEF StagesInv, Current, RunTypes
  <1>5. /\ \A p, q : Earlier(p, q)' <=> Earlier(p, q)
        /\ \A k, p, q : JustBefore(k, p, q)' <=> JustBefore(k, p, q)
    BY <1>3 DEF Earlier, JustBefore
  <1>6. ASSUME NEW x \in Current PROVE Earlier(x, r) <=> Marked(x)
    <2>1. dispatch[r] = 0 /\ dispatch[x] \in Nat /\ x \in Requests /\ stage[x] \in Steps
      BY <1>1, <1>4 DEF StampsInv, RunTypes
    <2>2. ASSUME Marked(x) PROVE dispatch[x] > 0
      <3>1. x # r
        BY <1>1, <2>2 DEF Marked
      <3>2. stage[x] \notin {"started", "marked", "streaming"}
        BY <1>1, <2>1, <3>1, OneBusy DEF Busy
      <3>3. stage[x] \in {"ended", "recorded", "lost"}
        BY <2>1, <2>2, <3>2 DEF Marked, Steps
      <3>4. began \in Nat
        BY DEF RunTypes
      <3> QED BY <2>1, <3>3, <3>4 DEF StampsInv
    <2>3. ASSUME dispatch[x] > 0 PROVE Marked(x)
      BY <2>1, <2>3 DEF StampsInv, Marked
    <2> QED BY <2>1, <2>2, <2>3 DEF Earlier
  <1>7. \A x \in Current : Marked(x)' <=> Marked(x) \/ x = r
    BY <1>1, <1>4 DEF Marked
  <1>8. /\ last' # NoModel /\ Marked(r)'
        /\ \A x \in Current : Marked(x)' => x = r \/ Earlier(x, r)'
    BY <1>2, <1>4, <1>5, <1>6, <1>7, MeasuredRunAssumption
  <1>9. tag'[r].cold <=> (\A x \in Current : Earlier(x, r) => ModelOf[x] # ModelOf[r])
    <2>1. seen = {ModelOf[q] : q \in {p \in Current : Marked(p)}}
      BY DEF ColdInv
    <2>2. ModelOf[r] \in seen <=> \E x \in Current : Marked(x) /\ ModelOf[x] = ModelOf[r]
      BY <2>1
    <2> QED BY <1>2, <1>6, <2>2
  <1>10. tag'[r].switch
           <=> (\E p \in Current : JustBefore(Len(ran), p, r) /\ ModelOf[p] # ModelOf[r])
    <2>1. ASSUME last # NoModel, last # ModelOf[r]
          PROVE  \E p \in Current : JustBefore(Len(ran), p, r) /\ ModelOf[p] # ModelOf[r]
      <3>1. PICK p \in Current : /\ Marked(p) /\ last = ModelOf[p]
                                 /\ \A x \in Current : Marked(x) => x = p \/ Earlier(x, p)
        BY <2>1 DEF SerialInv
      <3>2. JustBefore(Len(ran), p, r)
        BY <1>6, <3>1 DEF JustBefore, Current
      <3> QED BY <2>1, <3>1, <3>2
    <2>2. ASSUME NEW p \in Current, JustBefore(Len(ran), p, r), ModelOf[p] # ModelOf[r]
          PROVE  last # NoModel /\ last # ModelOf[r]
      <3>1. Earlier(p, r) /\ Marked(p) /\ \A x \in Current : Earlier(x, r) => x = p \/ Earlier(x, p)
        BY <1>6, <2>2 DEF JustBefore, Current
      <3>2. last # NoModel
        BY <3>1 DEF SerialInv
      <3>3. PICK o \in Current : /\ Marked(o) /\ last = ModelOf[o]
                                 /\ \A x \in Current : Marked(x) => x = o \/ Earlier(x, o)
        BY <3>2 DEF SerialInv
      <3>4. (o = p \/ Earlier(o, p)) /\ (p = o \/ Earlier(p, o))
        BY <1>6, <3>1, <3>3
      <3>5. dispatch[o] \in Nat /\ dispatch[p] \in Nat
        BY <1>4 DEF RunTypes
      <3>6. o = p
        BY <3>4, <3>5 DEF Earlier
      <3> QED BY <2>2, <3>2, <3>3, <3>6
    <2> QED BY <1>2, <2>1, <2>2
  <1>11. ASSUME NEW k \in DOMAIN ran, NEW q \in SentTo(k), stage'[q] \in MarkedStages
         PROVE  /\ tag'[q].cold
                     <=> (\A x \in SentTo(k) : Earlier(x, q)' => ModelOf[x] # ModelOf[q])
                /\ tag'[q].switch
                     <=> (\E p \in SentTo(k) : JustBefore(k, p, q)' /\ ModelOf[p] # ModelOf[q])
    <2>1. CASE q = r
      <3>1. k = Len(ran)
        BY <1>4, <2>1, CurrentIs, RequestsSent DEF Current
      <3> QED BY <1>5, <1>9, <1>10, <2>1, <3>1 DEF Current
    <2>2. CASE q # r
      <3>1. q \in Requests /\ stage[q] \in MarkedStages /\ tag'[q] = tag[q]
        BY <1>1, <1>2, <1>11, <2>2, CurrentIs
      <3> QED BY <1>5, <3>1 DEF SerialInv, MarkedStages
    <2> QED BY <2>1, <2>2
  <1>12. ran' = ran /\ workers' = workers
    BY <1>3
  <1>13. (last' = NoModel) <=> (\A x \in Current' : ~ Marked(x)')
    BY <1>4, <1>8
  <1>14. \E p \in Current' : /\ Marked(p)' /\ last' = ModelOf[p]
                             /\ \A x \in Current' : Marked(x)' => x = p \/ Earlier(x, p)'
    BY <1>2, <1>4, <1>8
  <1> QED BY <1>11, <1>12, <1>13, <1>14 DEF SerialInv, MarkedStages

\* With one worker the request stamped is the last one marked.
LEMMA SerialStamped ==
  ASSUME RunTypes, StagesInv, StampsInv, SerialInv, workers = 1,
         NEW r \in Requests, NEW to \in {"streaming", "ended"}, Step(r, "marked", to), Stamp(r),
         UNCHANGED <<workers, ran, last, tag>>
  PROVE  SerialInv'
  <1>1. /\ stage[r] = "marked" /\ stage'[r] = to
        /\ \A q \in Requests : q # r => stage'[q] = stage[q]
    BY Moved DEF Steps
  <1>2. /\ dispatch[r] = 0 /\ dispatch'[r] = clock + 1 /\ clock \in Nat
        /\ \A q \in Requests : /\ dispatch[q] \in Nat /\ dispatch[q] <= clock
                               /\ q # r => dispatch'[q] = dispatch[q]
    BY <1>1 DEF Stamp, RunTypes, StampsInv
  <1>3. r \in Current /\ Current' = Current /\ Current \subseteq Requests
    BY <1>1, CurrentIs DEF StagesInv, Current
  <1>4. \A q \in Requests : Marked(q)' <=> Marked(q)
    BY <1>1 DEF Marked
  <1>5. ASSUME NEW x \in Requests, NEW p \in Requests, p = r \/ dispatch[p] > 0
        PROVE  Earlier(x, p)' <=> Earlier(x, p)
    <2>1. CASE x = r /\ p = r
      BY <1>2, <2>1 DEF Earlier
    <2>2. CASE x = r /\ p # r
      BY <1>2, <1>5, <2>2 DEF Earlier
    <2>3. CASE x # r /\ p = r
      BY <1>2, <2>3 DEF Earlier
    <2>4. CASE x # r /\ p # r
      BY <1>2, <2>4 DEF Earlier
    <2> QED BY <2>1, <2>2, <2>3, <2>4
  <1>6. ASSUME NEW q \in Requests, stage'[q] \in MarkedStages PROVE q = r \/ dispatch[q] > 0
    <2> SUFFICES ASSUME q # r PROVE dispatch[q] > 0
      OBVIOUS
    <2>1. stage[q] \notin {"marked", "streaming"}
      BY <1>1, OneBusy DEF Busy
    <2>2. stage[q] \in {"ended", "recorded"}
      BY <1>1, <1>6, <2>1 DEF MarkedStages
    <2>3. began \in Nat
      BY DEF RunTypes
    <2> QED BY <1>2, <2>2, <2>3 DEF StampsInv
  <1>7. ASSUME NEW k \in DOMAIN ran, NEW q \in SentTo(k), stage'[q] \in MarkedStages
        PROVE  /\ tag'[q].cold
                    <=> (\A x \in SentTo(k) : Earlier(x, q)' => ModelOf[x] # ModelOf[q])
               /\ tag'[q].switch
                    <=> (\E p \in SentTo(k) : JustBefore(k, p, q)' /\ ModelOf[p] # ModelOf[q])
    <2>1. q \in Requests /\ SentTo(k) \subseteq Requests /\ (q = r \/ dispatch[q] > 0)
      BY <1>6, <1>7, CurrentIs
    <2>2. stage[q] \in MarkedStages
      BY <1>1, <1>7, <2>1 DEF MarkedStages
    <2>3. \A x \in SentTo(k) : Earlier(x, q)' <=> Earlier(x, q)
      BY <1>5, <2>1
    <2>4. ASSUME NEW p \in SentTo(k) PROVE JustBefore(k, p, q)' <=> JustBefore(k, p, q)
      <3>1. CASE Earlier(p, q)
        <4>1. dispatch[p] > 0 /\ p \in Requests
          BY <2>1, <3>1 DEF Earlier
        <4>2. \A x \in SentTo(k) : Earlier(x, p)' <=> Earlier(x, p)
          BY <1>5, <2>1, <4>1
        <4> QED BY <2>3, <4>2 DEF JustBefore
      <3>2. CASE ~ Earlier(p, q)
        BY <2>3, <3>2 DEF JustBefore
      <3> QED BY <3>1, <3>2
    <2>5. /\ tag[q].cold
               <=> (\A x \in SentTo(k) : Earlier(x, q) => ModelOf[x] # ModelOf[q])
          /\ tag[q].switch
               <=> (\E p \in SentTo(k) : JustBefore(k, p, q) /\ ModelOf[p] # ModelOf[q])
      BY <2>2 DEF SerialInv, MarkedStages
    <2>6. tag' = tag
      OBVIOUS
    <2> QED BY <2>3, <2>4, <2>5, <2>6
  <1>8. (last' = NoModel) <=> (\A x \in Current' : ~ Marked(x)')
    BY <1>3, <1>4 DEF SerialInv
  <1>9. ASSUME last' # NoModel
        PROVE  \E p \in Current' : /\ Marked(p)' /\ last' = ModelOf[p]
                                   /\ \A x \in Current' : Marked(x)' => x = p \/ Earlier(x, p)'
    <2>1. PICK p \in Current : /\ Marked(p) /\ last = ModelOf[p]
                               /\ \A x \in Current : Marked(x) => x = p \/ Earlier(x, p)
      BY <1>9 DEF SerialInv
    <2>2. Marked(r) /\ ~ Earlier(r, p)
      BY <1>1, <1>2 DEF Marked, Earlier
    <2>3. p = r
      BY <1>3, <2>1, <2>2
    <2>4. \A x \in Current : Marked(x)' => x = p \/ Earlier(x, p)'
      BY <1>3, <1>4, <1>5, <2>1, <2>3
    <2>5. Marked(p)' /\ last' = ModelOf[p]
      BY <1>3, <1>4, <2>1
    <2> QED BY <1>3, <2>4, <2>5
  <1>10. ran' = ran /\ workers' = workers
    OBVIOUS
  <1> QED BY <1>7, <1>8, <1>9, <1>10 DEF SerialInv, MarkedStages

\* A new gateway has marked nothing, and the order of those before it stays.
LEMMA SerialRestarted ==
  ASSUME RunTypes, StagesInv, SerialInv, NEW s \in Schedulers, Restart(s) PROVE SerialInv'
  <1>1. /\ last' = NoModel /\ UNCHANGED <<workers, tag, dispatch>>
        /\ \A r \in Requests : /\ stage'[r] \in {"queued", "recorded", "lost"}
                               /\ stage'[r] # "lost" => stage'[r] = stage[r]
        /\ \A r \in Current' : stage'[r] = "queued"
        /\ Len(ran') = Len(ran) + 1 /\ ran' \in Seq(Schedulers)
    BY AfterRestart DEF Restart
  <1> SUFFICES ASSUME workers = 1 PROVE SerialInv'
    BY <1>1 DEF SerialInv
  <1>2. /\ \A p, q : Earlier(p, q)' <=> Earlier(p, q)
        /\ \A k, p, q : JustBefore(k, p, q)' <=> JustBefore(k, p, q)
    BY <1>1 DEF Earlier, JustBefore
  <1>3. \A x \in Current' : ~ Marked(x)'
    BY <1>1 DEF Marked
  <1>4. ASSUME NEW k \in DOMAIN ran', NEW q \in SentTo(k), stage'[q] \in MarkedStages
        PROVE  /\ tag'[q].cold
                    <=> (\A x \in SentTo(k) : Earlier(x, q)' => ModelOf[x] # ModelOf[q])
               /\ tag'[q].switch
                    <=> (\E p \in SentTo(k) : JustBefore(k, p, q)' /\ ModelOf[p] # ModelOf[q])
    <2>1. k \in DOMAIN ran
      <3>1. /\ Len(ran) \in Nat /\ DOMAIN ran = 1..Len(ran) /\ DOMAIN ran' = 1..(Len(ran) + 1)
        BY <1>1, CurrentIs
      <3>2. k # Len(ran')
        BY <1>1, <1>4 DEF Current, MarkedStages
      <3> QED BY <1>1, <3>1, <3>2
    <2>2. q \in Requests
      BY <2>1, CurrentIs
    <2>3. stage[q] \in MarkedStages
      BY <1>1, <1>4, <2>2 DEF MarkedStages
    <2>4. tag' = tag
      BY <1>1
    <2> QED BY <1>2, <2>1, <2>3, <2>4 DEF SerialInv, MarkedStages
  <1> QED BY <1>1, <1>3, <1>4 DEF SerialInv, MarkedStages

\* Every step keeps the tags of one worker in the order of the stamps.
LEMMA SerialStep ==
  ASSUME RunTypes, StagesInv, StampsInv, ColdInv, SerialInv, RunNext PROVE SerialInv'
  <1>1. workers' = workers
    BY DEF RunNext, Start, MarkResidency, CallBackend, BackendReturns, BackendRaises, TimedOut,
           LogCompleted, Restart, gatewayVars
  <1> SUFFICES ASSUME workers = 1 PROVE SerialInv'
    BY <1>1 DEF SerialInv
  <1>2. ASSUME NEW i \in DOMAIN Workload, Start(i) PROVE SerialInv'
    <2>1. PICK r \in Requests : r = Workload[i]
      BY CurrentIs
    <2>2. Step(r, "queued", "started") /\ UNCHANGED <<workers, ran, last, tag, dispatch>>
      BY <1>2, <2>1 DEF Start, gatewayVars
    <2>3. /\ stage[r] = "queued" /\ stage'[r] = "started"
          /\ \A q \in Requests : q # r => stage'[q] = stage[q]
      BY <2>2, Moved DEF Steps
    <2>4. \A q \in Requests : /\ Marked(q)' <=> Marked(q)
                              /\ stage'[q] \in MarkedStages => stage[q] \in MarkedStages
      BY <2>3 DEF Marked, MarkedStages
    <2> QED BY <2>2, <2>4, SerialKept
  <1>3. ASSUME NEW r \in Requests, BackendReturns(r) \/ TimedOut(r) \/ LogCompleted(r)
        PROVE  SerialInv'
    <2>1. /\ \/ Step(r, "streaming", "ended") \/ Step(r, "ended", "lost")
             \/ Step(r, "ended", "recorded")
          /\ UNCHANGED <<workers, ran, last, tag, dispatch>>
      BY <1>3 DEF BackendReturns, TimedOut, LogCompleted, gatewayVars
    <2>2. PICK from \in {"streaming", "ended"}, to \in {"ended", "lost", "recorded"} :
            Step(r, from, to)
      BY <2>1
    <2>3. /\ stage[r] = from /\ stage'[r] = to
          /\ \A q \in Requests : q # r => stage'[q] = stage[q]
      BY <2>2, Moved DEF Steps
    <2>4. \A q \in Requests : /\ Marked(q)' <=> Marked(q)
                              /\ stage'[q] \in MarkedStages => stage[q] \in MarkedStages
      BY <2>3 DEF Marked, MarkedStages
    <2> QED BY <2>1, <2>4, SerialKept
  <1>4. ASSUME NEW r \in Requests, CallBackend(r) \/ BackendRaises(r) PROVE SerialInv'
    <2>1. PICK to \in {"streaming", "ended"} : Step(r, "marked", to)
      BY <1>4 DEF CallBackend, BackendRaises
    <2>2. Stamp(r) /\ UNCHANGED <<workers, ran, last, tag>>
      BY <1>4 DEF CallBackend, BackendRaises, gatewayVars
    <2> QED BY <2>1, <2>2, SerialStamped
  <1> QED BY <1>2, <1>3, <1>4, SerialMarked, SerialRestarted DEF RunNext

\* The invariant holds at the start,
LEMMA RunInvInit == RunInit => RunInv
  <1> SUFFICES ASSUME RunInit PROVE RunInv
    OBVIOUS
  <1>1. PICK s \in Schedulers : ran = <<s>>
    BY DEF RunInit
  <1>2. /\ stage = [r \in Requests |-> "queued"] /\ dispatch = [r \in Requests |-> 0]
        /\ tag = [r \in Requests |-> [cold |-> FALSE, switch |-> FALSE]]
        /\ clock = 0 /\ began = 0 /\ seen = {} /\ last = NoModel /\ workers \in 1..MaxWorkers
        /\ log = Receptions(1, s, 0)
    BY <1>1 DEF RunInit, Tracker!ResidencyInit
  <1>3. Cardinality(Busy) = 0
    <2>1. Busy = {}
      BY <1>2 DEF Busy
    <2> QED BY <2>1, FS_EmptySet
  <1>4. RunTypes
    <2>1. ran \in Seq(Schedulers) /\ Len(ran) = 1 /\ 1 \in 1..Len(Workloads)
      BY <1>1, RequestsSent
    <2>2. stage \in [Requests -> Steps]
      BY <1>2 DEF Steps
    <2> QED BY <1>2, <1>3, <2>1, <2>2, MeasuredRunAssumption DEF RunTypes
  <1>5. Current \subseteq Requests /\ \A k \in DOMAIN ran : SentTo(k) \subseteq Requests
    BY <1>4, CurrentIs
  <1>6. StagesInv
    BY <1>2, RequestsSent DEF StagesInv
  <1>7. StampsInv
    BY <1>2, <1>5 DEF StampsInv
  <1>8. LogInv
    <2>1. log \in Seq(ReceptionLines)
      <3>1. 1 \in DOMAIN Workloads /\ 0 \in Nat /\ log = Receptions(1, s, 0)
        BY <1>2, RequestsSent
      <3> QED BY <3>1, ReceptionsAre
    <2>2. log \in Seq(Lines) /\ \A i \in DOMAIN log : log[i] \in NoCompletion
      BY <2>1 DEF Lines, NoCompletion
    <2>3. Completions = {}
      BY <2>2, NoneCompleted DEF Completions
    <2>4. Readable(log)
      BY <2>1, ReceptionsReadable
    <2> QED BY <1>2, <2>2, <2>3, <2>4 DEF LogInv
  <1>9. ColdInv
    BY <1>2, <1>5 DEF ColdInv, Marked
  <1>10. SerialInv
    BY <1>2, <1>5 DEF SerialInv, Marked
  <1> QED BY <1>4, <1>6, <1>7, <1>8, <1>9, <1>10 DEF RunInv

\* every step keeps it,
LEMMA RunInvStep == RunInv /\ [RunNext]_runVars => RunInv'
  <1> SUFFICES ASSUME RunInv, [RunNext]_runVars PROVE RunInv'
    OBVIOUS
  <1>1. CASE RunNext
    BY <1>1, TypesStep, StagesStep, StampsStep, LogStep, ColdStep, SerialStep DEF RunInv
  <1>2. CASE UNCHANGED runVars
    <2>1. UNCHANGED <<workers, ran, began, seen, last, tag, stage, clock, dispatch, log>>
      BY <1>2 DEF runVars, gatewayVars
    <2>2. Busy' = Busy /\ Current' = Current /\ Completions' = Completions
      BY <2>1 DEF Busy, Current, Completions
    <2>3. \A r : Marked(r)' <=> Marked(r)
      BY <2>1 DEF Marked
    <2>4. RunTypes'
      BY <2>1, <2>2 DEF RunInv, RunTypes
    <2>5. StagesInv' /\ StampsInv'
      BY <2>1, <2>2 DEF RunInv, StagesInv, StampsInv
    <2>6. LogInv'
      <3>1. \A i \in Completions : Says(log[i])'
        BY <2>1 DEF RunInv, LogInv, Says
      <3>2. log' = log /\ \A r \in Requests : LostNonAscii(r) => LostNonAscii(r)'
        BY <2>1 DEF LostNonAscii
      <3> QED BY <2>1, <2>2, <3>1, <3>2 DEF RunInv, LogInv
    <2>7. ColdInv'
      BY <2>1, <2>2, <2>3 DEF RunInv, ColdInv
    <2>8. SerialInv'
      <3>1. \A q \in Requests : /\ Marked(q)' <=> Marked(q)
                                /\ stage'[q] \in MarkedStages => stage[q] \in MarkedStages
        BY <2>1, <2>3
      <3> QED BY <2>1, <3>1, SerialKept DEF RunInv
    <2> QED BY <2>4, <2>5, <2>6, <2>7, <2>8 DEF RunInv
  <1> QED BY <1>1, <1>2

\* so that it always holds.
LEMMA RunInvariant == RunSpec => []RunInv
  BY RunInvInit, RunInvStep, PTL DEF RunSpec

-----------------------------------------------------------------------------
(* What the analysis makes of the log.                                     *)

\* The reception adds to a completion, and replaces nothing of it.
LEMMA MergedKeeps ==
  ASSUME NEW e, NEW c \in CompletionLines
  PROVE  LET j == Merged(e, c)
         IN  /\ j.tenant = c.tenant /\ j.scheduler = c.scheduler /\ j.model = c.model
             /\ j.arrival = c.arrival /\ j.dispatch = c.dispatch /\ j.finish = c.finish
  <1>1. {"tenant", "scheduler", "model", "arrival", "dispatch", "finish"} \subseteq DOMAIN c
    BY DEF CompletionLines
  <1>2. \A f \in DOMAIN c : Merged(e, c)[f] = c[f]
    BY DEF Merged
  <1> QED BY <1>1, <1>2

\* What is analysed: all the completions in the log, or nothing.
Analysed == {i \in Completions : Readable(log)}

\* The metrics are those of the completions analysed, each at its place.
LEMMA MetricsAre ==
  ASSUME LogInv
  PROVE  /\ DOMAIN Metrics(log) = Analysed
         /\ \A i \in Analysed :
              /\ log[i] \in CompletionLines
              /\ Metrics(log)[i] = request_metrics(log[i])
  <1> DEFINE events == load_events(log)
             joined == join_requests(events)
  <1>1. /\ DOMAIN events = {i \in DOMAIN log : Readable(log) /\ log[i].event # "torn"}
        /\ \A i \in DOMAIN events : events[i] = log[i]
    BY DEF load_events, Restrict
  <1>2. \A i \in Analysed : i \in DOMAIN events /\ log[i] \in CompletionLines
    <2> SUFFICES ASSUME NEW i \in Analysed PROVE i \in DOMAIN events /\ log[i] \in CompletionLines
      OBVIOUS
    <2>1. /\ i \in DOMAIN log /\ log[i] \in Lines /\ log[i].event = "request_completed"
          /\ Readable(log)
      BY DEF LogInv, Analysed, Completions
    <2> QED BY <1>1, <2>1 DEF Lines, Remains, ReceptionLines
  <1>3. {i \in DOMAIN events : events[i].event = "request_completed"} = Analysed
    BY <1>1, <1>2 DEF Analysed, Completions
  <1> HIDE DEF events
  <1>4. DOMAIN joined = Analysed
    BY <1>3 DEF join_requests
  <1>5. ASSUME NEW i \in Analysed
        PROVE  joined[i] = log[i] \/ \E e : joined[i] = Merged(e, log[i])
    BY <1>1, <1>2, <1>3 DEF join_requests
  <1> HIDE DEF joined
  <1>6. ASSUME NEW i \in Analysed PROVE request_metrics(joined[i]) = request_metrics(log[i])
    <2> DEFINE c == log[i]
               j == joined[i]
    <2>1. c \in CompletionLines
      BY <1>2
    <2>2. j = c \/ \E e : j = Merged(e, c)
      BY <1>5
    <2> HIDE DEF c, j
    <2>3. /\ j.tenant = c.tenant /\ j.scheduler = c.scheduler /\ j.model = c.model
          /\ j.arrival = c.arrival /\ j.dispatch = c.dispatch /\ j.finish = c.finish
      BY <2>1, <2>2, MergedKeeps
    <2> QED BY <2>3 DEF request_metrics, c, j
  <1>7. Metrics(log) = [i \in Analysed |-> request_metrics(joined[i])]
    BY <1>4 DEF Metrics, joined, events
  <1> QED BY <1>2, <1>6, <1>7

\* What a record says: whose it is, and when it was.
Recorded(m, i) ==
  LET r == log[i].request
  IN  /\ i \in Analysed /\ r \in Requests /\ stage[r] = "recorded"
      /\ m.model = ModelOf[r] /\ m.tenant = TenantOf[r] /\ m.dispatch = dispatch[r]
      /\ m.arrival \in Nat /\ m.dispatch \in Nat /\ m.finish \in Nat
      /\ m.arrival < m.dispatch /\ m.dispatch < m.finish /\ m.finish <= clock
      /\ m.queue_delay = m.dispatch - m.arrival /\ m.service_time = m.finish - m.dispatch
      /\ log[i].cold = tag[r].cold /\ log[i].switch = tag[r].switch
      /\ m.scheduler = log[i].scheduler
      /\ \E k \in DOMAIN ran : r \in SentTo(k) /\ m.scheduler = ran[k]

\* Every one of the metrics says this of the completion at its place.
LEMMA MetricsRecorded ==
  ASSUME RunInv PROVE \A i \in Analysed : Recorded(Metrics(log)[i], i)
  <1> SUFFICES ASSUME NEW i \in Analysed, NEW c, c = log[i], NEW m, m = Metrics(log)[i]
               PROVE  Recorded(m, i)
    OBVIOUS
  <1>1. LogInv
    BY DEF RunInv
  <1>2. c \in CompletionLines /\ Says(c)
    BY <1>1, MetricsAre DEF LogInv, Analysed
  <1>3. m = request_metrics(c)
    BY <1>1, MetricsAre
  <1>4. /\ c.request \in Requests /\ c.arrival \in Nat /\ c.dispatch \in Nat /\ c.finish \in Nat
    BY <1>2 DEF CompletionLines
  <1>5. /\ m.model = c.model /\ m.tenant = c.tenant /\ m.dispatch = c.dispatch
        /\ m.arrival = c.arrival /\ m.finish = c.finish /\ m.scheduler = c.scheduler
        /\ m.queue_delay = c.dispatch - c.arrival /\ m.service_time = c.finish - c.dispatch
    BY <1>3 DEF request_metrics
  <1> QED BY <1>2, <1>4, <1>5 DEF Recorded, Says

(* proxy.py:168-198 and analyze.py:131-133: no more than max_concurrency   *)
(* requests are under way, and every request analysed was queued and       *)
(* served for some time, and finished in the past.                         *)
THEOREM RunTypesOK == RunSpec => []RunTypeOK
  <1>1. RunInv => RunTypeOK
    <2> SUFFICES ASSUME RunInv PROVE RunTypeOK
      OBVIOUS
    <2>1. RunTypes /\ LogInv
      BY DEF RunInv
    <2>2. ASSUME NEW m \in Range(Metrics(log))
          PROVE  m.queue_delay > 0 /\ m.service_time > 0 /\ m.finish <= clock
      <3>1. PICK i \in Analysed : m = Metrics(log)[i]
        BY <2>1, MetricsAre DEF Range
      <3>2. Recorded(m, i) /\ clock \in Nat
        BY <2>1, <3>1, MetricsRecorded DEF RunTypes
      <3> QED BY <3>2 DEF Recorded
    <2>3. Tracker!ResidencyTypeOK
      BY <2>1 DEF RunTypes, Tracker!ResidencyTypeOK
    <2>4. tag \in [Requests -> Tracker!Tags]
      BY <2>1 DEF RunTypes, Tracker!Tags
    <2> QED BY <2>1, <2>2, <2>3, <2>4 DEF RunTypes, RunTypeOK, Steps
  <1> QED BY <1>1, RunInvariant, PTL

\* The records of a scheduler are the completions of its gateways.
LEMMA RecordsAre ==
  ASSUME RunInv, NEW s
  PROVE  /\ DOMAIN Records(s) = {i \in Analysed : log[i].scheduler = s}
         /\ \A i \in DOMAIN Records(s) : /\ Records(s)[i] = Metrics(log)[i]
                                         /\ Recorded(Records(s)[i], i)
  <1>1. LogInv
    BY DEF RunInv
  <1> DEFINE m == Metrics(log)
             D == {i \in DOMAIN m : m[i].scheduler = s}
  <1>2. DOMAIN Records(s) = D /\ \A i \in D : Records(s)[i] = m[i]
    BY DEF Records, OfScheduler, Restrict
  <1>3. DOMAIN m = Analysed /\ \A i \in Analysed : Recorded(m[i], i)
    BY <1>1, MetricsAre, MetricsRecorded
  <1>4. \A i \in Analysed : m[i].scheduler = log[i].scheduler
    BY <1>3 DEF Recorded
  <1> QED BY <1>2, <1>3, <1>4

\* If the log can be read, every request recorded is in the report of its
\* gateway's scheduler, once.
LEMMA RecordedOnce ==
  ASSUME RunInv, NEW s, NEW r \in Requests, Readable(log)
  PROVE  /\ \A i, j \in DOMAIN Records(s) : log[i].request = log[j].request => i = j
         /\ (\E i \in DOMAIN Records(s) : log[i].request = r)
              <=> (stage[r] = "recorded" /\ \E k \in Gateways(s) : r \in SentTo(k))
  <1>0. DOMAIN ran \subseteq DOMAIN Workloads /\ Analysed = Completions
    BY CurrentIs DEF RunInv, Analysed
  <1>1. \A i, j \in DOMAIN Records(s) : log[i].request = log[j].request => i = j
    BY <1>0, RecordsAre DEF RunInv, LogInv
  <1>2. ASSUME NEW i \in DOMAIN Records(s), log[i].request = r
        PROVE  stage[r] = "recorded" /\ \E k \in Gateways(s) : r \in SentTo(k)
    <2>1. i \in Completions /\ log[i].scheduler = s
      BY <1>0, RecordsAre
    <2>2. Says(log[i])
      BY <2>1 DEF RunInv, LogInv
    <2> QED BY <1>2, <2>1, <2>2 DEF Says, Gateways
  <1>3. ASSUME stage[r] = "recorded", NEW k \in Gateways(s), r \in SentTo(k)
        PROVE  \E i \in DOMAIN Records(s) : log[i].request = r
    <2>1. PICK i \in Completions : log[i].request = r
      BY <1>3 DEF RunInv, LogInv
    <2>2. PICK l \in DOMAIN ran : r \in SentTo(l) /\ log[i].scheduler = ran[l]
      BY <2>1 DEF RunInv, LogInv, Says
    <2>3. k \in DOMAIN ran /\ ran[k] = s
      BY DEF Gateways
    <2>4. k = l
      BY <1>0, <1>3, <2>2, <2>3, RequestsSent
    <2> QED BY <1>0, <2>1, <2>2, <2>3, <2>4, RecordsAre
  <1> QED BY <1>1, <1>2, <1>3

(* load_events() and join_requests() of analyze.py: however many gateways  *)
(* die while they write a line, each completion recorded is analysed once, *)
(* under the scheduler of the gateway it was sent to, and nothing else is, *)
(* unless a line was cut inside a character.  All are missing from the     *)
(* report only if the completion of a tenant or model with a name that is  *)
(* not ASCII was lost.                                                     *)
THEOREM RecordedIsAnalysed == RunSpec => []AnalysedOnce
  <1>1. ASSUME RunInv, Readable(log), NEW s \in Schedulers, NEW r \in Requests
        PROVE  LET analysed == {i \in DOMAIN Records(s) : log[i].request = r}
                   recorded == stage[r] = "recorded" /\ \E k \in Gateways(s) : r \in SentTo(k)
               IN  Cardinality(analysed) = IF recorded THEN 1 ELSE 0
    <2> DEFINE analysed == {i \in DOMAIN Records(s) : log[i].request = r}
               recorded == stage[r] = "recorded" /\ \E k \in Gateways(s) : r \in SentTo(k)
    <2>1. CASE recorded
      <3>1. PICK i \in DOMAIN Records(s) : log[i].request = r
        BY <1>1, <2>1, RecordedOnce
      <3>2. analysed = {i}
        BY <1>1, <3>1, RecordedOnce
      <3> QED BY <2>1, <3>2, FS_Singleton
    <2>2. CASE ~ recorded
      <3>1. analysed = {}
        BY <1>1, <2>2, RecordedOnce
      <3> QED BY <2>2, <3>1, FS_EmptySet
    <2> QED BY <2>1, <2>2
  <1>2. ASSUME RunInv, \A s \in Schedulers : DOMAIN Records(s) = {},
               NEW r \in Requests, stage[r] = "recorded"
        PROVE  \E q \in Requests : LostNonAscii(q)
    <2>1. PICK k \in DOMAIN ran : r \in SentTo(k)
      <3>1. PICK i \in Completions : log[i].request = r
        BY <1>2 DEF RunInv, LogInv
      <3> QED BY <1>2, <3>1 DEF RunInv, LogInv, Says
    <2>2. ran[k] \in Schedulers /\ k \in Gateways(ran[k])
      BY <1>2 DEF RunInv, RunTypes, Gateways
    <2>3. ~ Readable(log)
      BY <1>2, <2>1, <2>2, RecordedOnce
    <2> QED BY <1>2, <2>3 DEF RunInv, LogInv
  <1>3. RunInv => AnalysedOnce
    BY <1>1, <1>2 DEF AnalysedOnce, LostNonAscii
  <1> QED BY <1>3, RunInvariant, PTL

\* A finite set of naturals that is not empty has a greatest element.
LEMMA GreatestNat ==
  ASSUME NEW S \in SUBSET Nat, S # {}, NEW n \in Nat, \A x \in S : x <= n
  PROVE  \E g \in S : \A x \in S : x <= g
  <1> DEFINE R == {n - x : x \in S}
  <1>1. R \in SUBSET Nat /\ R # {}
    <2>1. \A x \in S : n - x \in Nat
      OBVIOUS
    <2>2. \E x \in S : n - x \in R
      OBVIOUS
    <2>3. R \in SUBSET Nat
      BY <2>1
    <2>4. R # {}
      <3> HIDE DEF R
      <3> QED BY <2>2
    <2> QED BY <2>3, <2>4
  <1>2. PICK l \in R : \A y \in R : l <= y
    <2> HIDE DEF R
    <2> QED BY <1>1, LeastNat
  <1>3. PICK g \in S : l = n - g
    OBVIOUS
  <1>4. ASSUME NEW x \in S PROVE x <= g
    <2>1. n - x \in R
      OBVIOUS
    <2> HIDE DEF R
    <2>2. n - g <= n - x
      BY <1>2, <1>3, <2>1
    <2>3. g \in Nat /\ x \in Nat
      OBVIOUS
    <2> QED BY <2>2, <2>3
  <1> QED BY <1>4

\* The maximum of a bounded set.
LEMMA MaxIs ==
  ASSUME NEW S \in SUBSET Nat, S # {}, NEW n \in Nat, \A x \in S : x <= n
  PROVE  Max(S) \in S /\ \A x \in S : x <= Max(S)
  <1>1. PICK g \in S : \A x \in S : x <= g
    BY GreatestNat
  <1>2. \E h \in S : \A y \in S : h >= y
    BY <1>1
  <1>3. Max(S) \in S /\ \A y \in S : Max(S) >= y
    BY <1>2 DEF Max
  <1> QED BY <1>3

\* The minimum of a set of naturals.
LEMMA MinIs ==
  ASSUME NEW S \in SUBSET Nat, S # {}
  PROVE  Min(S) \in S /\ \A x \in S : Min(S) <= x
  <1>1. \E g \in S : \A y \in S : g <= y
    BY LeastNat
  <1> QED BY <1>1 DEF Min

\* Records with the times the code gives them.
Timed(m, n) ==
  /\ DOMAIN m \in SUBSET Nat /\ IsFiniteSet(DOMAIN m)
  /\ \A i \in DOMAIN m : /\ m[i].arrival \in Nat /\ m[i].dispatch \in Nat /\ m[i].finish \in Nat
                         /\ m[i].arrival < m[i].dispatch /\ m[i].dispatch < m[i].finish
                         /\ m[i].finish <= n

\* Sorting by the time of dispatch leaves no two records at one place.
LEMMA BeforeOrders ==
  ASSUME NEW m, NEW n, Timed(m, n), NEW i \in DOMAIN m, NEW j \in DOMAIN m, i # j
  PROVE  Before(m, i, j) \/ Before(m, j, i)
  BY DEF Before, Timed

\* The idle time a switch stands for, and what bounds it.
Idle(m, p) == (m[p[1]].finish + 1)..m[p[2]].dispatch

\* The gap of a switch is the number of its idle moments.
LEMMA SwitchIsIdle ==
  ASSUME NEW m, NEW n, Timed(m, n), NEW p \in Switches(m)
  PROVE  IsFiniteSet(Idle(m, p)) /\ SwitchGap(m, p) = Cardinality(Idle(m, p))
  <1> DEFINE a == m[p[1]].finish
             b == m[p[2]].dispatch
  <1>1. a \in Nat /\ b \in Nat
    BY DEF Timed, Switches
  <1>2. SwitchGap(m, p) = Max({0, b - a}) /\ Idle(m, p) = (a + 1)..b
    BY DEF SwitchGap, Idle
  <1> HIDE DEF a, b
  <1>3. /\ IsFiniteSet((a + 1)..b)
        /\ Cardinality((a + 1)..b) = IF a + 1 > b THEN 0 ELSE b - (a + 1) + 1
    BY <1>1, FS_Interval
  <1>4. Max({0, b - a}) = IF b > a THEN b - a ELSE 0
    <2>1. \E x \in {0, b - a} : \A y \in {0, b - a} : x >= y
      BY <1>1
    <2>2. /\ Max({0, b - a}) \in {0, b - a}
          /\ \A y \in {0, b - a} : Max({0, b - a}) >= y
      BY <2>1 DEF Max
    <2> QED BY <1>1, <2>2
  <1> QED BY <1>1, <1>2, <1>3, <1>4

\* The idle times of two switches are apart, however the requests overlap.
LEMMA IdleApart ==
  ASSUME NEW m, NEW n, Timed(m, n), NEW p \in Switches(m), NEW q \in Switches(m), p # q
  PROVE  Idle(m, p) \cap Idle(m, q) = {}
  <1> DEFINE a == p[1]
             b == p[2]
             c == q[1]
             d == q[2]
  <1>1. /\ a \in DOMAIN m /\ b \in DOMAIN m /\ Previous(m, a, b)
        /\ c \in DOMAIN m /\ d \in DOMAIN m /\ Previous(m, c, d)
        /\ p = <<a, b>> /\ q = <<c, d>>
    BY DEF Switches
  <1> HIDE DEF a, b, c, d
  <1>2. b # d
    <2> SUFFICES ASSUME b = d PROVE FALSE
      OBVIOUS
    <2>1. a # c
      BY <1>1
    <2>2. Before(m, a, c) \/ Before(m, c, a)
      BY <1>1, <2>1, BeforeOrders
    <2> QED BY <1>1, <2>2 DEF Previous
  <1>3. ASSUME NEW e \in DOMAIN m, NEW f \in DOMAIN m, NEW g \in DOMAIN m, NEW h \in DOMAIN m,
               Previous(m, g, h), Before(m, f, h), f # h
        PROVE  ((m[e].finish + 1)..m[f].dispatch) \cap ((m[g].finish + 1)..m[h].dispatch) = {}
    <2>1. f = g \/ Before(m, f, g)
      BY <1>3, BeforeOrders DEF Previous
    <2>2. m[f].dispatch <= m[g].dispatch
      BY <2>1 DEF Before, Timed
    <2>3. /\ m[e].finish \in Nat /\ m[f].dispatch \in Nat /\ m[g].finish \in Nat
          /\ m[h].dispatch \in Nat /\ m[g].dispatch \in Nat /\ m[g].dispatch < m[g].finish
      BY DEF Timed
    <2> QED BY <2>2, <2>3
  <1>4. Idle(m, p) = (m[a].finish + 1)..m[b].dispatch /\ Idle(m, q) = (m[c].finish + 1)..m[d].dispatch
    BY DEF Idle, a, b, c, d
  <1>5. CASE Before(m, b, d)
    BY <1>1, <1>2, <1>3, <1>4, <1>5
  <1>6. CASE Before(m, d, b)
    <2>1. ((m[c].finish + 1)..m[d].dispatch) \cap ((m[a].finish + 1)..m[b].dispatch) = {}
      BY <1>1, <1>2, <1>3, <1>6
    <2> QED BY <1>4, <2>1
  <1> QED BY <1>1, <1>2, <1>5, <1>6, BeforeOrders

\* The gaps of a report add up to no more than it spans.
LEMMA GapsFit ==
  ASSUME NEW m, NEW n \in Nat, Timed(m, n)
  PROVE  GapTotal(m) <= Window(m)
  <1> DEFINE D == DOMAIN m
             S == Switches(m)
             f == [p \in S |-> SwitchGap(m, p)]
             F == [p \in S |-> Idle(m, p)]
             U == UNION {F[p] : p \in S}
  <1>1. IsFiniteSet(S) /\ S \subseteq D \X D
    <2>1. S \in SUBSET (D \X D)
      BY DEF Switches
    <2>2. IsFiniteSet(D \X D)
      BY FS_Product DEF Timed
    <2> HIDE DEF S, D
    <2> QED BY <2>1, <2>2, FS_Subset
  <1>2. IsFiniteSet(U) /\ GapTotal(m) = Cardinality(U)
    <2>1. \A p \in S : IsFiniteSet(F[p]) /\ f[p] = Cardinality(F[p])
      BY SwitchIsIdle
    <2>2. \A p, q \in S : p # q => F[p] \cap F[q] = {}
      BY IdleApart
    <2>3. DOMAIN f = S /\ GapTotal(m) = SumFunction(f)
      BY DEF GapTotal
    <2> HIDE DEF f, F, S
    <2> QED BY <1>1, <2>1, <2>2, <2>3, SumCountsUnion
  <1>3. CASE D = {}
    <2>1. U = {}
      BY <1>1, <1>3
    <2>2. Window(m) = 0
      BY <1>3 DEF Window
    <2> QED BY <1>2, <2>1, <2>2, FS_EmptySet
  <1>4. CASE D # {}
    <2> DEFINE fin == {m[i].finish : i \in D}
               arr == {m[i].arrival : i \in D}
               hi == Max(fin)
               lo == Min(arr)
    <2>1. fin \in SUBSET Nat /\ fin # {} /\ \A x \in fin : x <= n
      BY <1>4 DEF Timed
    <2>2. arr \in SUBSET Nat /\ arr # {}
      BY <1>4 DEF Timed
    <2>3. hi \in fin /\ \A x \in fin : x <= hi
      <3> HIDE DEF fin
      <3> QED BY <2>1, MaxIs
    <2>4. lo \in arr /\ \A x \in arr : lo <= x
      <3> HIDE DEF arr
      <3> QED BY <2>2, MinIs
    <2>5. Window(m) = hi - lo
      BY <1>4 DEF Window
    <2> HIDE DEF hi, lo
    <2>6. hi \in Nat /\ lo \in Nat /\ \A i \in D : m[i].finish <= hi /\ lo <= m[i].arrival
      BY <2>1, <2>2, <2>3, <2>4
    <2>7. lo < hi
      <3>1. PICK i \in D : TRUE
        BY <1>4
      <3> QED BY <2>6, <3>1 DEF Timed
    <2>8. U \in SUBSET ((lo + 1)..hi)
      <3> SUFFICES ASSUME NEW p \in S, NEW x \in Idle(m, p) PROVE x \in (lo + 1)..hi
        OBVIOUS
      <3>1. PICK a \in D, b \in D : p = <<a, b>>
        BY <1>1
      <3>2. x \in (m[a].finish + 1)..m[b].dispatch
        BY <3>1 DEF Idle
      <3>3. /\ m[a].finish \in Nat /\ m[a].arrival \in Nat /\ m[a].arrival < m[a].finish
            /\ m[b].dispatch \in Nat /\ m[b].finish \in Nat /\ m[b].dispatch < m[b].finish
        BY DEF Timed
      <3> QED BY <2>6, <3>2, <3>3
    <2>9. /\ IsFiniteSet((lo + 1)..hi)
          /\ Cardinality((lo + 1)..hi) = IF lo + 1 > hi THEN 0 ELSE hi - (lo + 1) + 1
      BY <2>6, FS_Interval
    <2>10. Cardinality(U) <= Cardinality((lo + 1)..hi)
      <3> HIDE DEF U
      <3> QED BY <2>8, <2>9, FS_Subset
    <2> QED BY <1>2, <2>5, <2>6, <2>7, <2>9, <2>10
  <1> QED BY <1>3, <1>4

\* The completions in the log are finitely many.
LEMMA CompletionsFinite ==
  ASSUME LogInv PROVE Completions \in SUBSET Nat /\ IsFiniteSet(Completions)
  <1>1. DOMAIN log = 1..Len(log) /\ Len(log) \in Nat
    BY DEF LogInv
  <1>2. 0 \in Int /\ 1 \in Int /\ Len(log) \in Int /\ 1..Len(log) \subseteq Nat
    BY <1>1
  <1>3. IsFiniteSet(1..Len(log))
    BY <1>2, FS_Interval
  <1>4. Completions \in SUBSET (1..Len(log))
    BY <1>1 DEF Completions
  <1>5. IsFiniteSet(Completions)
    BY <1>3, <1>4, FS_Subset
  <1> QED BY <1>2, <1>4, <1>5

\* The records of a scheduler, and of a tenant, have these times.
LEMMA RecordsTimed ==
  ASSUME RunInv, NEW s
  PROVE  Timed(Records(s), clock) /\ \A t : Timed(OfTenant(Records(s), t), clock)
  <1> DEFINE m == Records(s)
  <1>1. Completions \in SUBSET Nat /\ IsFiniteSet(Completions)
    BY CompletionsFinite DEF RunInv
  <1>2. DOMAIN m \in SUBSET Completions /\ \A i \in DOMAIN m : Recorded(m[i], i)
    BY RecordsAre DEF Analysed
  <1> HIDE DEF m
  <1>3. ASSUME NEW k, DOMAIN k \in SUBSET DOMAIN m, \A i \in DOMAIN k : k[i] = m[i]
        PROVE  Timed(k, clock)
    <2>1. DOMAIN k \in SUBSET Nat /\ IsFiniteSet(DOMAIN k)
      <3>1. DOMAIN k \in SUBSET Completions
        BY <1>2, <1>3
      <3> QED BY <1>1, <3>1, FS_Subset
    <2>2. \A i \in DOMAIN k : Recorded(k[i], i)
      BY <1>2, <1>3
    <2> QED BY <2>1, <2>2 DEF Timed, Recorded
  <1>4. \A t : /\ DOMAIN OfTenant(m, t) \in SUBSET DOMAIN m
               /\ \A i \in DOMAIN OfTenant(m, t) : OfTenant(m, t)[i] = m[i]
    BY DEF OfTenant, Restrict
  <1>5. Timed(m, clock)
    BY <1>3
  <1>6. \A t : Timed(OfTenant(m, t), clock)
    BY <1>3, <1>4
  <1> QED BY <1>5, <1>6 DEF m

(* analyze.py:81-82, "switch gap": however requests overlap and gateways   *)
(* follow one another, the gaps of a report, of a scheduler or a tenant,   *)
(* add up to no more than the report spans: they are idle times, apart.    *)
THEOREM GapsFitTheWindow == RunSpec => []GapsFitWindow
  <1>1. RunInv => GapsFitWindow
    <2> SUFFICES ASSUME RunInv, NEW s \in Schedulers, NEW t \in Range(TenantOf),
                        NEW items \in {Records(s), OfTenant(Records(s), t)}
                 PROVE  GapTotal(items) <= Window(items)
      BY DEF GapsFitWindow
    <2>1. Timed(items, clock)
      BY RecordsTimed
    <2>2. clock \in Nat
      BY DEF RunInv, RunTypes
    <2> QED BY <2>1, <2>2, GapsFit
  <1> QED BY <1>1, RunInvariant, PTL

\* What a report counts as cold: one request of each model in it.
LEMMA ColdOfModel ==
  ASSUME NEW m, NEW n, Timed(m, n)
  PROVE  /\ \A i, j \in Cold(m) : m[i].model = m[j].model => i = j
         /\ \A j \in DOMAIN m : \E i \in Cold(m) : m[i].model = m[j].model
         /\ IsFiniteSet(Cold(m))
  <1>1. \A i, j \in Cold(m) : m[i].model = m[j].model => i = j
    BY BeforeOrders DEF Cold, FirstOfModel
  <1>2. ASSUME NEW j \in DOMAIN m PROVE \E i \in Cold(m) : m[i].model = m[j].model
    <2> DEFINE S == {i \in DOMAIN m : m[i].model = m[j].model}
               T == {m[i].dispatch : i \in S}
    <2>1. T \in SUBSET Nat /\ m[j].dispatch \in T
      BY DEF Timed
    <2>2. PICK d \in T : \A x \in T : d <= x
      <3> HIDE DEF T
      <3> QED BY <2>1, LeastNat
    <2> DEFINE R == {i \in S : m[i].dispatch = d}
    <2>3. R \in SUBSET Nat /\ R # {}
      BY <2>2 DEF Timed
    <2>4. PICK i \in R : \A k \in R : i <= k
      <3> HIDE DEF R
      <3> QED BY <2>3, LeastNat
    <2>5. ASSUME NEW k \in S PROVE ~ Before(m, k, i)
      <3>1. d <= m[k].dispatch /\ m[i].dispatch = d /\ m[k].dispatch \in Nat /\ d \in Nat /\ k \in Nat /\ i \in Nat
        BY <2>1, <2>2, <2>4 DEF Timed
      <3>2. m[k].dispatch = d => i <= k
        BY <2>4
      <3> QED BY <3>1, <3>2 DEF Before
    <2>6. i \in Cold(m) /\ m[i].model = m[j].model
      BY <2>4, <2>5 DEF Cold, FirstOfModel
    <2> QED BY <2>6
  <1>3. IsFiniteSet(Cold(m))
    <2>1. Cold(m) \in SUBSET DOMAIN m /\ IsFiniteSet(DOMAIN m)
      BY DEF Cold, Timed
    <2> QED BY <2>1, FS_Subset
  <1> QED BY <1>1, <1>2, <1>3

\* A record, the request it is of and the gateway that request was sent to.
LEMMA RecordOf ==
  ASSUME RunInv, NEW s, NEW i \in DOMAIN Records(s)
  PROVE  LET r == log[i].request
         IN  /\ r \in Requests /\ stage[r] = "recorded" /\ dispatch[r] \in Nat \ {0}
             /\ Records(s)[i].model = ModelOf[r] /\ Records(s)[i].dispatch = dispatch[r]
             /\ log[i].cold = tag[r].cold /\ log[i].switch = tag[r].switch
             /\ \E k \in Gateways(s) : r \in SentTo(k)
  <1>1. Recorded(Records(s)[i], i) /\ i \in Completions /\ log[i].scheduler = s
    BY RecordsAre DEF Analysed
  <1>2. Records(s)[i].scheduler = s
    BY <1>1 DEF Recorded
  <1>3. \A r \in Requests : dispatch[r] \in Nat
    BY DEF RunInv, RunTypes
  <1>4. \A r \in Requests : stage[r] = "recorded" => dispatch[r] > 0
    BY DEF RunInv, StampsInv
  <1>5. ASSUME NEW r, r = log[i].request
        PROVE  /\ r \in Requests /\ stage[r] = "recorded" /\ dispatch[r] \in Nat \ {0}
               /\ Records(s)[i].model = ModelOf[r] /\ Records(s)[i].dispatch = dispatch[r]
               /\ log[i].cold = tag[r].cold /\ log[i].switch = tag[r].switch
               /\ \E k \in Gateways(s) : r \in SentTo(k)
    <2>1. /\ r \in Requests /\ stage[r] = "recorded"
          /\ Records(s)[i].model = ModelOf[r] /\ Records(s)[i].dispatch = dispatch[r]
          /\ log[i].cold = tag[r].cold /\ log[i].switch = tag[r].switch
      BY <1>1, <1>5 DEF Recorded
    <2>2. PICK k \in DOMAIN ran : r \in SentTo(k) /\ ran[k] = s
      BY <1>1, <1>2, <1>5 DEF Recorded
    <2>3. dispatch[r] \in Nat /\ dispatch[r] > 0
      BY <1>3, <1>4, <2>1
    <2> QED BY <2>1, <2>2, <2>3 DEF Gateways
  <1> QED BY <1>5

\* The records tagged cold are finitely many.
LEMMA TaggedColdFinite ==
  ASSUME RunInv, NEW s
  PROVE  IsFiniteSet(TaggedCold(s)) /\ Cardinality(TaggedCold(s)) \in Nat
  <1>1. IsFiniteSet(DOMAIN Records(s)) /\ TaggedCold(s) \in SUBSET DOMAIN Records(s)
    BY RecordsTimed DEF Timed, TaggedCold
  <1> QED BY <1>1, FS_Subset, FS_CardinalityType

\* A gateway tags one request of each model, the analysis one for all gateways.
LEMMA NoMoreTagged ==
  ASSUME RunInv, NEW s
  PROVE  Cardinality(TaggedCold(s)) <= Cardinality(Gateways(s)) * Cardinality(Cold(Records(s)))
  <1> DEFINE m == Records(s)
             T == TaggedCold(s)
             C == Cold(m)
             G == Gateways(s)
             model(i) == ModelOf[log[i].request]
             gateway == [i \in T |-> CHOOSE k \in G : log[i].request \in SentTo(k)]
             first == [i \in T |-> CHOOSE c \in C : model(c) = model(i)]
             f == [i \in T |-> <<gateway[i], first[i]>>]
  <1>1. \A i \in T : i \in DOMAIN m /\ tag[log[i].request].cold
    BY RecordOf DEF TaggedCold
  <1>2. \A i \in DOMAIN m : m[i].model = model(i) /\ \E k \in G : log[i].request \in SentTo(k)
    BY RecordOf
  <1>3. IsFiniteSet(C) /\ C \subseteq DOMAIN m
        /\ \A j \in DOMAIN m : \E c \in C : m[c].model = m[j].model
    BY RecordsTimed, ColdOfModel DEF Cold
  <1>4. IsFiniteSet(G) /\ G \subseteq DOMAIN ran
    <2>1. DOMAIN ran = 1..Len(ran) /\ Len(ran) \in Nat
      BY CurrentIs DEF RunInv
    <2>2. IsFiniteSet(1..Len(ran)) /\ G \in SUBSET (1..Len(ran))
      BY <2>1, FS_Interval DEF Gateways
    <2> QED BY <2>1, <2>2, FS_Subset
  <1> HIDE DEF T, C, G, m
  <1>5. ASSUME NEW i \in T
        PROVE  /\ gateway[i] \in G /\ log[i].request \in SentTo(gateway[i])
               /\ first[i] \in C /\ model(first[i]) = model(i)
    <2>1. \E k \in G : log[i].request \in SentTo(k)
      BY <1>1, <1>2
    <2>2. \E c \in C : model(c) = model(i)
      BY <1>1, <1>2, <1>3
    <2> QED BY <2>1, <2>2
  <1> HIDE DEF gateway, first
  <1>6. f \in [T -> G \X C]
    BY <1>5
  <1>7. ASSUME NEW i \in T, NEW j \in T, f[i] = f[j] PROVE i = j
    <2>1. gateway[i] = gateway[j] /\ first[i] = first[j]
      BY <1>7
    <2>2. model(i) = model(j)
      BY <1>5, <2>1
    <2>3. log[i].request = log[j].request
      BY <1>1, <1>4, <1>5, <2>1, <2>2 DEF RunInv, ColdInv
    <2>4. i \in Completions /\ j \in Completions
      BY <1>1, RecordsAre DEF m, Analysed
    <2> QED BY <2>3, <2>4 DEF RunInv, LogInv
  <1>8. IsFiniteSet(G \X C) /\ Cardinality(G \X C) = Cardinality(G) * Cardinality(C)
    BY <1>3, <1>4, FS_Product
  <1> HIDE DEF f
  <1>9. Cardinality(T) <= Cardinality(G \X C)
    BY <1>6, <1>7, <1>8, OneToOne
  <1> QED BY <1>8, <1>9 DEF T, C, G, m

\* When nothing is lost, what the analysis finds of a model was tagged somewhere.
LEMMA NoFewerTagged ==
  ASSUME RunInv, NEW s, Complete(s), Readable(log)
  PROVE  Cardinality(Cold(Records(s))) <= Cardinality(TaggedCold(s))
  <1> DEFINE m == Records(s)
             T == TaggedCold(s)
             C == Cold(m)
             f == [c \in C |-> CHOOSE i \in T : m[i].model = m[c].model]
  <1>1. ASSUME NEW c \in C PROVE \E i \in T : m[i].model = m[c].model
    <2>0. c \in DOMAIN m
      BY DEF Cold
    <2>1. PICK r \in Requests, k \in Gateways(s) :
            r \in SentTo(k) /\ stage[r] = "recorded" /\ m[c].model = ModelOf[r]
      BY <2>0, RecordOf
    <2>2. k \in DOMAIN ran
      BY DEF Gateways
    <2>3. PICK q \in SentTo(k) : tag[q].cold /\ ModelOf[q] = ModelOf[r]
      BY <2>1, <2>2 DEF RunInv, ColdInv
    <2>4. q \in Requests /\ stage[q] = "recorded"
      BY <2>2, CurrentIs DEF Complete, RunInv
    <2>5. PICK i \in DOMAIN m : log[i].request = q
      BY <2>3, <2>4, RecordedOnce
    <2>6. log[i].cold = tag[q].cold /\ m[i].model = ModelOf[q]
      BY <2>5, RecordOf
    <2> QED BY <2>1, <2>3, <2>5, <2>6 DEF TaggedCold
  <1>2. \A i, j \in C : m[i].model = m[j].model => i = j
    BY RecordsTimed, ColdOfModel
  <1>3. IsFiniteSet(T)
    BY TaggedColdFinite
  <1> HIDE DEF m, T, C
  <1>4. f \in [C -> T] /\ \A c \in C : m[f[c]].model = m[c].model
    BY <1>1
  <1> HIDE DEF f
  <1>5. \A i, j \in C : f[i] = f[j] => i = j
    BY <1>2, <1>4
  <1> QED BY <1>3, <1>4, <1>5, OneToOne DEF T, C, m

\* The analysis of one gateway that recorded everything, with one worker.
LEMMA SameTags ==
  ASSUME RunInv, NEW s, Complete(s), workers = 1, Cardinality(Gateways(s)) = 1, Readable(log)
  PROVE  /\ TaggedCold(s) = Cold(Records(s))
         /\ TaggedSwitch(s) = {p[2] : p \in Switches(Records(s))}
  <1> DEFINE m == Records(s)
             D == DOMAIN m
             Q(i) == log[i].request
  <1>1. PICK k : Gateways(s) = {k}
    <2>1. DOMAIN ran = 1..Len(ran) /\ Len(ran) \in Nat
      BY CurrentIs DEF RunInv
    <2>2. IsFiniteSet(1..Len(ran)) /\ Gateways(s) \in SUBSET (1..Len(ran))
      BY <2>1, FS_Interval DEF Gateways
    <2>3. IsFiniteSet(Gateways(s))
      BY <2>2, FS_Subset
    <2> QED BY <2>3, FS_Singleton
  <1>2. k \in DOMAIN ran
    BY <1>1 DEF Gateways
  <1>3. \A i \in D : /\ Q(i) \in SentTo(k) /\ Q(i) \in Requests /\ stage[Q(i)] = "recorded"
                     /\ dispatch[Q(i)] \in Nat \ {0}
                     /\ m[i].dispatch = dispatch[Q(i)] /\ m[i].model = ModelOf[Q(i)]
                     /\ log[i].cold = tag[Q(i)].cold /\ log[i].switch = tag[Q(i)].switch
    BY <1>1, RecordOf
  <1>4. \A r \in SentTo(k) : \E i \in D : Q(i) = r
    <2> SUFFICES ASSUME NEW r \in SentTo(k) PROVE \E i \in D : Q(i) = r
      OBVIOUS
    <2>1. r \in Requests /\ stage[r] = "recorded"
      BY <1>1, <1>2, CurrentIs DEF Complete, RunInv
    <2> QED BY <1>1, <2>1, RecordedOnce
  <1>5. \A i, j \in D : Q(i) = Q(j) => i = j
    <2>1. D \subseteq Completions
      BY RecordsAre DEF Analysed
    <2> QED BY <2>1 DEF RunInv, LogInv
  <1>6. \A r, q \in Requests : dispatch[r] > 0 /\ r # q => dispatch[r] # dispatch[q]
    BY DEF RunInv, StampsInv
  <1>7. \A q \in SentTo(k) : stage[q] = "recorded" =>
          /\ tag[q].cold <=> (\A r \in SentTo(k) : Earlier(r, q) => ModelOf[r] # ModelOf[q])
          /\ tag[q].switch <=> (\E p \in SentTo(k) : JustBefore(k, p, q) /\ ModelOf[p] # ModelOf[q])
    BY <1>2 DEF RunInv, SerialInv
  <1>8. D \in SUBSET Nat
    BY RecordsTimed DEF Timed
  <1> HIDE DEF m, D, Q
  <1>9. ASSUME NEW i \in D, NEW j \in D PROVE Before(m, i, j) <=> Earlier(Q(i), Q(j))
    <2>1. CASE i = j
      BY <1>3, <1>8, <2>1 DEF Before, Earlier
    <2>2. CASE i # j
      <3>1. Q(i) # Q(j)
        BY <1>5, <2>2
      <3>2. dispatch[Q(i)] # dispatch[Q(j)]
        BY <1>3, <1>6, <3>1
      <3> QED BY <1>3, <3>2 DEF Before, Earlier
    <2> QED BY <2>1, <2>2
  <1>10. ASSUME NEW i \in D PROVE FirstOfModel(m, i) <=> log[i].cold
    <2>1. FirstOfModel(m, i) <=> \A j \in D : Earlier(Q(j), Q(i)) => ModelOf[Q(j)] # ModelOf[Q(i)]
      BY <1>3, <1>9 DEF FirstOfModel, D
    <2>2. (\A j \in D : Earlier(Q(j), Q(i)) => ModelOf[Q(j)] # ModelOf[Q(i)])
            <=> (\A r \in SentTo(k) : Earlier(r, Q(i)) => ModelOf[r] # ModelOf[Q(i)])
      BY <1>3, <1>4
    <2> QED BY <1>3, <1>7, <2>1, <2>2
  <1>11. ASSUME NEW i \in D, NEW j \in D PROVE Previous(m, i, j) <=> JustBefore(k, Q(i), Q(j))
    <2>1. Previous(m, i, j) <=> /\ Earlier(Q(i), Q(j))
                                /\ \A c \in D : ~ (Earlier(Q(i), Q(c)) /\ Earlier(Q(c), Q(j)))
      BY <1>9 DEF Previous, D
    <2>2. \A c \in D : ~ Earlier(Q(i), Q(c)) <=> (Q(c) = Q(i) \/ Earlier(Q(c), Q(i)))
      <3> SUFFICES ASSUME NEW c \in D
                   PROVE  ~ Earlier(Q(i), Q(c)) <=> (Q(c) = Q(i) \/ Earlier(Q(c), Q(i)))
        OBVIOUS
      <3>1. Q(c) # Q(i) => dispatch[Q(c)] # dispatch[Q(i)]
        BY <1>3, <1>6
      <3> QED BY <1>3, <3>1 DEF Earlier
    <2>3. (\A c \in D : Earlier(Q(c), Q(j)) => Q(c) = Q(i) \/ Earlier(Q(c), Q(i)))
            <=> (\A r \in SentTo(k) : Earlier(r, Q(j)) => r = Q(i) \/ Earlier(r, Q(i)))
      BY <1>3, <1>4
    <2> QED BY <2>1, <2>2, <2>3 DEF JustBefore
  <1>12. ASSUME NEW j \in D
         PROVE  (\E i \in D : Previous(m, i, j) /\ m[i].model # m[j].model) <=> log[j].switch
    <2>1. (\E i \in D : Previous(m, i, j) /\ m[i].model # m[j].model)
            <=> (\E p \in SentTo(k) : JustBefore(k, p, Q(j)) /\ ModelOf[p] # ModelOf[Q(j)])
      BY <1>3, <1>4, <1>11
    <2> QED BY <1>3, <1>7, <2>1
  <1>13. TaggedCold(s) = Cold(m)
    BY <1>10 DEF TaggedCold, Cold, m, D
  <1>14. {p[2] : p \in Switches(m)}
           = {j \in D : \E i \in D : Previous(m, i, j) /\ m[i].model # m[j].model}
    <2>1. Switches(m) = {p \in D \X D : Previous(m, p[1], p[2]) /\ m[p[1]].model # m[p[2]].model}
      BY DEF Switches, D
    <2>2. ASSUME NEW j \in D, NEW i \in D, Previous(m, i, j), m[i].model # m[j].model
          PROVE  \E p \in Switches(m) : j = p[2]
      <3>1. <<i, j>> \in Switches(m) /\ <<i, j>>[2] = j
        BY <2>1, <2>2
      <3> QED BY <3>1
    <2> QED BY <2>1, <2>2
  <1>15. TaggedSwitch(s) = {j \in D : log[j].switch}
    BY DEF TaggedSwitch, D, m
  <1> QED BY <1>12, <1>13, <1>14, <1>15 DEF m

(* analyze.py:64-83 and residency.py: for every workload, every number of  *)
(* workers and every death, the gateways of a scheduler together tagged    *)
(* cold no more requests than the analysis finds first of their model,     *)
(* times the number of gateways, and no fewer when everything is recorded; *)
(* with one worker and one such gateway the requests are the same, and so  *)
(* are those that switch the model.                                        *)
THEOREM TheTagsAgree == RunSpec => []TagsAgree
  <1>1. ASSUME RunInv, ~ Readable(log), NEW s
        PROVE  /\ TaggedCold(s) = {} /\ Cold(Records(s)) = {}
               /\ TaggedSwitch(s) = {} /\ {p[2] : p \in Switches(Records(s))} = {}
    <2>1. DOMAIN Records(s) = {}
      BY <1>1, RecordsAre DEF Analysed
    <2> QED BY <2>1 DEF TaggedCold, TaggedSwitch, Cold, Switches
  <1>2. RunInv => TagsAgree
    <2> SUFFICES ASSUME RunInv, NEW s \in Schedulers
                 PROVE  LET cold == Cold(Records(s))
                        IN  /\ Cardinality(TaggedCold(s)) <= Cardinality(Gateways(s)) * Cardinality(cold)
                            /\ Complete(s) => Cardinality(cold) <= Cardinality(TaggedCold(s))
                            /\ Complete(s) /\ workers = 1 /\ Cardinality(Gateways(s)) = 1 =>
                                 /\ TaggedCold(s) = cold
                                 /\ TaggedSwitch(s) = {p[2] : p \in Switches(Records(s))}
      BY DEF TagsAgree
    <2>1. CASE Readable(log)
      BY <2>1, NoMoreTagged, NoFewerTagged, SameTags
    <2>2. CASE ~ Readable(log)
      <3>1. Complete(s) => Cardinality(Cold(Records(s))) <= Cardinality(TaggedCold(s))
        BY <1>1, <2>2, FS_EmptySet
      <3> QED BY <1>1, <2>2, <3>1, NoMoreTagged
    <2> QED BY <2>1, <2>2
  <1> QED BY <1>2, RunInvariant, PTL
=============================================================================
