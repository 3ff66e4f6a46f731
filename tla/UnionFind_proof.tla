--------------------------- MODULE UnionFind_proof ---------------------------
(***************************************************************************)
(* Proofs about the three union-find files, for every n.  uf_qf.c: the     *)
(* scan's invariant, that the scanning union implements the atomic one,    *)
(* and what that one connects.  uf_qu.c and uf_wqupc.c: the steps the two  *)
(* share, each of which keeps the type and the forest invariant and is a   *)
(* step of DisjointSets; then each implementation; last the depth of       *)
(* weighted trees.                                                         *)
(***************************************************************************)
EXTENDS MCUnionFind, FiniteSetTheorems, WellFoundedInduction, TLAPS

(***************************************************************************)
(* The labelling a scan is heading for is what has to stay idempotent: id  *)
(* itself is not while the scan is between p's root and the end.           *)
(***************************************************************************)
IInv == QFTypeOK /\ ScanInv /\ Idempotent

LEMMA AnswerParts ==
  ASSUME NEW r \in AnswerType
  PROVE  /\ r.out \in Nat
         /\ Pending(r.out) \in AnswerType
         /\ Refusal(r.out) \in AnswerType
         /\ Pending(r.out).out = r.out
         /\ Refusal(r.out).out = r.out
BY DEF AnswerType, Pending, Refusal, Answer

LEMMA AnswerTypes ==
  ASSUME NEW op \in {"find", "connected", "union"},
         NEW p \in Elem, NEW q \in Elem, NEW out \in Nat
  PROVE  Answer(op, p, q, 0, out) \in AnswerType
BY NAssumption DEF Answer, AnswerType, Elem

LEMMA IInvInit == QFInit => IInv
<1> SUFFICES ASSUME QFInit PROVE IInv
  OBVIOUS
<1>1. Pending(0) \in AnswerType
  BY DEF Pending, Answer, AnswerType
<1>2. QED
  BY <1>1, NAssumption
     DEF QFInit, IInv, QFTypeOK, ScanInv, Elem, Idempotent, UH!Idempotent, UH!Elem, Rep

(***************************************************************************)
(* One cell of the scan: the labelling it is heading for does not move,    *)
(* and the visited part grows by a cell that is not labelled pid.          *)
(***************************************************************************)
LEMMA ScanStep ==
  ASSUME QFTypeOK, ScanInv, Scan
  PROVE  QFTypeOK' /\ ScanInv' /\ Rep' = Rep
<1> USE NAssumption DEF QFTypeOK, ScanInv, Scan
<1>1. i \in Elem /\ pid \in Elem /\ qid \in Elem /\ pid # qid
  BY DEF Elem
<1>2. id' = [x \in Elem |-> IF x = i /\ id[x] = pid THEN qid ELSE id[x]]
  BY <1>1 DEF Relabel
<1>3. id' \in [Elem -> Elem]
  BY <1>1, <1>2
<1>4. Rep' = Rep
  BY <1>1, <1>2, <1>3 DEF Rep, Merged
<1>5. \A x \in Elem : x < i' => id'[x] # pid
  <2> SUFFICES ASSUME NEW x \in Elem, x < i' PROVE id'[x] # pid
    OBVIOUS
  <2>1. x < i \/ x = i
    BY DEF Elem
  <2>2. QED
    BY <1>1, <1>2, <2>1
<1>6. id'[qid] = qid
  BY <1>1, <1>2
<1>7. i' \in 0 .. N
  OBVIOUS
<1>8. QED
  BY <1>1, <1>3, <1>4, <1>5, <1>6, <1>7

LEMMA IInvStep == IInv /\ [QFNext]_qfvars => IInv'
<1> SUFFICES ASSUME IInv, [QFNext]_qfvars PROVE IInv'
  OBVIOUS
<1> USE NAssumption DEF IInv, QFTypeOK
<1>1. /\ qfres.out \in Nat
      /\ Refusal(qfres.out) \in AnswerType
      /\ Pending(qfres.out) \in AnswerType
  BY AnswerParts
<1>2. ASSUME UNCHANGED <<id, qfpc, pid, qid, i, qfcall>>,
             asked' \subseteq SUBSET Elem, qfres' \in AnswerType
      PROVE  IInv'
  BY <1>2 DEF ScanInv, Idempotent, UH!Idempotent, UH!Elem, Rep
<1>3. ASSUME NEW p \in Index, NEW q \in Index, NEW null \in BOOLEAN, QFReject(p, q, null)
      PROVE  IInv'
  BY <1>1, <1>2, <1>3 DEF QFReject
<1>4. ASSUME NEW p \in Index, Find(p) PROVE IInv'
  <2>1. id[p] \in Nat
    BY <1>4 DEF Find, Elem
  <2>2. qfres' \in AnswerType
    BY <1>4, <2>1, AnswerTypes DEF Find
  <2>3. QED
    BY <1>2, <1>4, <2>2 DEF Find
<1>5. ASSUME NEW p \in Index, NEW q \in Index, Connected(p, q) PROVE IInv'
  <2>1. qfres' \in AnswerType
    BY <1>5, AnswerTypes DEF Connected, AsBit
  <2>2. QED
    BY <1>2, <1>5, <2>1 DEF Connected
<1>6. ASSUME NEW p \in Index, NEW q \in Index, UnionSame(p, q) PROVE IInv'
  <2>1. qfres' \in AnswerType
    BY <1>1, <1>6, AnswerTypes DEF UnionSame
  <2>2. QED
    BY <1>2, <1>6, <2>1 DEF UnionSame, Asks
<1>7. ASSUME NEW p \in Index, NEW q \in Index, UnionBegin(p, q) PROVE IInv'
  <2>1. \A x \in Elem : id[id[x]] = id[x]
    BY <1>7 DEF UnionBegin, Idempotent, UH!Idempotent, UH!Elem, Elem, Rep
  <2>2. p \in Elem /\ q \in Elem /\ p \in Nat /\ q \in Nat
    BY <1>7 DEF UnionBegin, Elem
  <2>3. /\ pid' = id[p] /\ qid' = id[q] /\ id[p] # id[q] /\ id' = id
        /\ qfpc' = "scan" /\ i' = 0 /\ qfcall' = <<p, q>>
    BY <1>7 DEF UnionBegin
  <2>4. QFTypeOK'
    <3>1. id[p] \in Nat /\ id[q] \in Nat /\ 0 \in 0 .. N
      BY <2>2 DEF Elem
    <3>2. asked' \subseteq SUBSET Elem
      BY <1>7, <2>2 DEF UnionBegin, Asks
    <3>3. qfres' \in AnswerType
      BY <1>1, <1>7 DEF UnionBegin
    <3>4. QED
      BY <2>2, <2>3, <3>1, <3>2, <3>3
  <2>5. ScanInv'
    BY <2>1, <2>2, <2>3 DEF ScanInv, Elem
  <2>6. Idempotent'
    BY <2>1, <2>2, <2>3 DEF Idempotent, UH!Idempotent, UH!Elem, Elem, Rep, Merged
  <2>7. QED
    BY <2>4, <2>5, <2>6
<1>8. CASE Scan
  BY <1>8, ScanStep DEF Idempotent, UH!Idempotent, UH!Elem
<1>9. CASE ScanReturn
  <2>1. qfres' \in AnswerType
    BY <1>1, <1>9, AnswerTypes DEF ScanReturn, ScanInv
  <2>2. Rep' = Rep
    BY <1>9 DEF ScanReturn, Rep, ScanInv, Merged, Elem
  <2>3. QED
    BY <1>9, <2>1, <2>2 DEF ScanReturn, ScanInv, Idempotent, UH!Idempotent, UH!Elem
<1>10. CASE UNCHANGED qfvars
  BY <1>2, <1>10 DEF qfvars
<1>11. QED
  BY <1>3, <1>4, <1>5, <1>6, <1>7, <1>8, <1>9, <1>10 DEF QFNext, QFRequest, QFWork

(***************************************************************************)
(* Every value of n: indices stay in range during and between scans, and   *)
(* a scan never overtakes its own relabelling.                             *)
(***************************************************************************)
THEOREM QuickFindInvariant == QFSpec => [](QFTypeOK /\ ScanInv /\ Idempotent)
<1>1. QED
  BY IInvInit, IInvStep, PTL DEF QFSpec, IInv

\* Cells, cursor and the caller's answers keep their types, for every n.
THEOREM QuickFindTypes == QFSpec => []QFTypeOK
<1>1. QED
  BY QuickFindInvariant, PTL

(***************************************************************************)
(* The label a scan gives out always names itself: for every n, find never *)
(* answers with an element that would itself be found elsewhere.           *)
(***************************************************************************)
THEOREM QuickFindIdempotent == QFSpec => []Idempotent
<1>1. QED
  BY QuickFindInvariant, PTL

LEMMA HistoryInit == QFInit => UH!HInit
BY DEF QFInit, UH!HInit, UH!Init, UH!Elem, Elem, Rep, Res, Pending, UH!Pending,
       Answer, UH!Answer

(***************************************************************************)
(* A union takes effect at the step that begins its scan; the scan and the *)
(* return stutter.                                                         *)
(***************************************************************************)
LEMMA HistoryStep == IInv /\ [QFNext]_qfvars => [UH!HNext]_(UH!hvars)
<1> SUFFICES ASSUME IInv, [QFNext]_qfvars PROVE [UH!HNext]_(UH!hvars)
  OBVIOUS
<1> USE DEF UH!Elem, UH!Answer, UH!Asks, UH!AsBit, Elem, Answer, Asks, AsBit
<1>1. ASSUME NEW p \in Index, NEW q \in Index, NEW null \in BOOLEAN, QFReject(p, q, null)
      PROVE  UH!Reject(p, q, null) /\ UNCHANGED asked
  BY <1>1 DEF QFReject, UH!Reject, Refused, UH!Refused, Refusal, UH!Refusal, Rep, Res
<1>2. ASSUME NEW p \in Index, Find(p) PROVE UH!Find(p) /\ UNCHANGED asked
  BY <1>2 DEF Find, UH!Find, Rep, Res
<1>3. ASSUME NEW p \in Index, NEW q \in Index, Connected(p, q)
      PROVE  UH!Connected(p, q) /\ UNCHANGED asked
  BY <1>3 DEF Connected, UH!Connected, Rep, Res
<1>4. ASSUME NEW p \in Index, NEW q \in Index, UnionSame(p, q)
      PROVE  UH!HUnion(p, q)
  <2>1. Rep' = UH!Merged(Rep, Rep[p], Rep[q])
    BY <1>4 DEF UnionSame, Rep, UH!Merged, IInv, QFTypeOK
  <2>2. QED
    BY <1>4, <2>1 DEF UnionSame, UH!HUnion, UH!Union, Res
<1>5. ASSUME NEW p \in Index, NEW q \in Index, UnionBegin(p, q)
      PROVE  UH!HUnion(p, q)
  <2>1. Rep' = UH!Merged(Rep, Rep[p], Rep[q])
    BY <1>5 DEF UnionBegin, Rep, Merged, UH!Merged
  <2>2. Res' = Answer("union", p, q, 0, Res.out)
    BY <1>5 DEF UnionBegin, Res, Pending
  <2>3. QED
    BY <1>5, <2>1, <2>2 DEF UnionBegin, UH!HUnion, UH!Union
<1>6. CASE Scan
  BY <1>6, ScanStep DEF IInv, Scan, Res, UH!hvars, UH!vars
<1>7. CASE ScanReturn
  <2>1. Rep' = Rep
    <3>1. qfpc = "scan" /\ qfpc' = "idle" /\ id' = id /\ id \in [Elem -> Elem]
      BY <1>7 DEF ScanReturn, IInv, QFTypeOK
    <3>2. i \in 0 .. N /\ i >= N
      BY <1>7 DEF ScanReturn, IInv, QFTypeOK
    <3>3. \A x \in Elem : x < i
      BY <3>2, NAssumption
    <3>4. \A x \in Elem : id[x] # pid
      BY <3>1, <3>3 DEF IInv, ScanInv
    <3>5. QED
      BY <3>1, <3>4 DEF Rep, Merged
  <2>2. QED
    BY <1>7, <2>1 DEF ScanReturn, Res, UH!hvars, UH!vars
<1>8. CASE UNCHANGED qfvars
  BY <1>8 DEF qfvars, Rep, Res, UH!hvars, UH!vars
<1>9. QED
  BY <1>1, <1>2, <1>3, <1>4, <1>5, <1>6, <1>7, <1>8 DEF QFNext, QFRequest, QFWork, UH!HNext

(***************************************************************************)
(* uf_qf.c implements the atomic union-find with its history, for every n. *)
(***************************************************************************)
THEOREM QuickFindImplements == QFSpec => QFImplements
<1>1. QED
  BY IInvInit, IInvStep, HistoryInit, HistoryStep, PTL
     DEF QFSpec, QFImplements, UH!HSpec

-----------------------------------------------------------------------------
(***************************************************************************)
(* The abstract union-find with its history, which says what the labels    *)
(* have to mean.  Rep and Res stay unexpanded: nothing below depends on    *)
(* how uf_qf.c represents them.                                            *)
(***************************************************************************)
HInv == UH!TypeOK /\ UH!HistoryType /\ UH!Idempotent /\ UH!Connectivity

LEMMA HAnswerTypes ==
  ASSUME NEW out \in Nat, NEW p \in UH!Elem, NEW q \in UH!Elem
  PROVE  /\ UH!Pending(out) \in UH!AnswerType
         /\ UH!Refusal(out) \in UH!AnswerType
         /\ UH!Answer("union", p, q, 0, out) \in UH!AnswerType
         /\ UH!Answer("find", p, p, 0, out) \in UH!AnswerType
         /\ \A b \in BOOLEAN :
              UH!Answer("connected", p, q, 0, UH!AsBit(b)) \in UH!AnswerType
BY NAssumption DEF UH!Pending, UH!Refusal, UH!Answer, UH!AnswerType, UH!AsBit, UH!Elem

(***************************************************************************)
(* Merging the classes of p and q, in either direction, keeps a labelling  *)
(* idempotent, puts p and q together, and joins two elements only if they  *)
(* were together already or lie one in each of the two classes.            *)
(***************************************************************************)
LEMMA MergedClasses ==
  ASSUME NEW f, f \in [UH!Elem -> UH!Elem], \A x \in UH!Elem : f[f[x]] = f[x],
         NEW p \in UH!Elem, NEW q \in UH!Elem,
         NEW g, g \in {UH!Merged(f, f[p], f[q]), UH!Merged(f, f[q], f[p])}
  PROVE  /\ g \in [UH!Elem -> UH!Elem]
         /\ \A x \in UH!Elem : g[g[x]] = g[x]
         /\ g[p] = g[q]
         /\ \A x, y \in UH!Elem : f[x] = f[y] => g[x] = g[y]
         /\ \A x, y \in UH!Elem : g[x] = g[y] =>
              \/ f[x] = f[y]
              \/ f[x] = f[p] /\ f[y] = f[q]
              \/ f[x] = f[q] /\ f[y] = f[p]
BY DEF UH!Merged

LEMMA UnionKeepsConnectivity ==
  ASSUME HInv, NEW p \in UH!Elem, NEW q \in UH!Elem, UH!HUnion(p, q)
  PROVE  HInv'
<1> USE DEF HInv, UH!TypeOK, UH!HistoryType, UH!Idempotent
<1>1. /\ Rep' \in [UH!Elem -> UH!Elem]
      /\ UH!Idempotent'
      /\ Rep'[p] = Rep'[q]
      /\ \A x, y \in UH!Elem : Rep[x] = Rep[y] => Rep'[x] = Rep'[y]
      /\ \A x, y \in UH!Elem : Rep'[x] = Rep'[y] =>
           \/ Rep[x] = Rep[y]
           \/ Rep[x] = Rep[p] /\ Rep[y] = Rep[q]
           \/ Rep[x] = Rep[q] /\ Rep[y] = Rep[p]
  <2>1. Rep \in [UH!Elem -> UH!Elem] /\ \A x \in UH!Elem : Rep[Rep[x]] = Rep[x]
    OBVIOUS
  <2>2. Rep' \in {UH!Merged(Rep, Rep[p], Rep[q]), UH!Merged(Rep, Rep[q], Rep[p])}
    BY DEF UH!HUnion, UH!Union
  <2> HIDE DEF HInv, UH!TypeOK, UH!HistoryType
  <2>3. PICK f \in [UH!Elem -> UH!Elem] : f = Rep
    BY <2>1
  <2>4. PICK g : g = Rep'
    OBVIOUS
  <2>5. \A x \in UH!Elem : f[f[x]] = f[x]
    BY <2>1, <2>3
  <2>6. g \in {UH!Merged(f, f[p], f[q]), UH!Merged(f, f[q], f[p])}
    BY <2>2, <2>3, <2>4
  <2>7. /\ g \in [UH!Elem -> UH!Elem]
        /\ \A x \in UH!Elem : g[g[x]] = g[x]
        /\ g[p] = g[q]
        /\ \A x, y \in UH!Elem : f[x] = f[y] => g[x] = g[y]
        /\ \A x, y \in UH!Elem : g[x] = g[y] =>
             \/ f[x] = f[y]
             \/ f[x] = f[p] /\ f[y] = f[q]
             \/ f[x] = f[q] /\ f[y] = f[p]
    BY ONLY <2>5, <2>6, MergedClasses, f \in [UH!Elem -> UH!Elem]
  <2>8. QED
    BY <2>3, <2>4, <2>7 DEF UH!Idempotent
<1>2. asked' = asked \cup UH!Asks(p, q)
  BY DEF UH!HUnion
<1>3. UH!HistoryType'
  BY <1>2 DEF UH!Asks
<1>4. Res' \in UH!AnswerType
  <2>1. Res.out \in Nat
    BY DEF UH!AnswerType
  <2>2. QED
    BY <2>1, HAnswerTypes DEF UH!HUnion, UH!Union
<1>5. UH!Joined'
  <2> SUFFICES ASSUME NEW e \in asked', NEW x \in e, NEW y \in e
               PROVE  Rep'[x] = Rep'[y]
    BY DEF UH!Joined, UH!Respects
  <2>1. CASE e \in asked
    BY <2>1, <1>1 DEF UH!Connectivity, UH!Joined, UH!Respects
  <2>2. CASE e \in UH!Asks(p, q)
    BY <2>2, <1>1 DEF UH!Asks
  <2>3. QED
    BY <1>2, <2>1, <2>2
<1>6. UH!NothingElse'
  <2> SUFFICES ASSUME NEW f \in [UH!Elem -> UH!Elem], UH!Respects(f)',
                      NEW x \in UH!Elem, NEW y \in UH!Elem, Rep'[x] = Rep'[y]
               PROVE  f[x] = f[y]
    BY DEF UH!NothingElse
  <2>1. \A e \in asked' : \A u, v \in e : f[u] = f[v]
    BY DEF UH!Respects
  <2>2. UH!Respects(f)
    BY <2>1, <1>2 DEF UH!Respects
  <2>3. \A u, v \in UH!Elem : Rep[u] = Rep[v] => f[u] = f[v]
    BY <2>2 DEF UH!Connectivity, UH!NothingElse
  <2>4. f[p] = f[q]
    <3>1. CASE p = q
      BY <3>1
    <3>2. CASE p # q
      <4>1. {p, q} \in asked'
        BY <3>2, <1>2 DEF UH!Asks
      <4>2. QED
        BY <4>1, <2>1
    <3>3. QED
      BY <3>1, <3>2
  <2>5. QED
    BY <1>1, <2>3, <2>4
<1>7. QED
  BY <1>1, <1>3, <1>4, <1>5, <1>6 DEF UH!Connectivity

LEMMA HInvInit == UH!HInit => HInv
<1> SUFFICES ASSUME UH!HInit PROVE HInv
  OBVIOUS
<1>1. UH!Pending(0) \in UH!AnswerType
  BY DEF UH!Pending, UH!Answer, UH!AnswerType
<1>2. QED
  BY <1>1 DEF UH!HInit, UH!Init, HInv, UH!TypeOK, UH!HistoryType, UH!Idempotent,
              UH!Connectivity, UH!Joined, UH!Respects, UH!NothingElse

LEMMA HInvStep == HInv /\ [UH!HNext]_(UH!hvars) => HInv'
<1> SUFFICES ASSUME HInv, [UH!HNext]_(UH!hvars) PROVE HInv'
  OBVIOUS
<1> USE DEF HInv, UH!TypeOK
<1>1. ASSUME UNCHANGED <<Rep, asked>>, Res' \in UH!AnswerType PROVE HInv'
  BY <1>1 DEF UH!HistoryType, UH!Idempotent, UH!Connectivity, UH!Joined, UH!Respects, UH!NothingElse
<1>2. Res.out \in Nat
  BY DEF UH!AnswerType
<1>3. CASE UH!Begin /\ UNCHANGED asked
  <2>1. Res' \in UH!AnswerType
    BY <1>2, <1>3 DEF UH!Begin, UH!Pending, UH!Answer, UH!AnswerType
  <2>2. QED
    BY <1>1, <1>3, <2>1 DEF UH!Begin
<1>4. ASSUME NEW p \in Index, NEW q \in Index, NEW null \in BOOLEAN,
             UH!Reject(p, q, null), UNCHANGED asked
      PROVE  HInv'
  <2>1. Res' \in UH!AnswerType
    BY <1>2, <1>4 DEF UH!Reject, UH!Refusal, UH!Answer, UH!AnswerType
  <2>2. QED
    BY <1>1, <1>4, <2>1 DEF UH!Reject
<1>5. ASSUME NEW p \in Index, UH!Find(p), UNCHANGED asked PROVE HInv'
  <2>1. Rep[p] \in Nat
    BY <1>5, NAssumption DEF UH!Find, UH!Elem
  <2>2. Res' \in UH!AnswerType
    BY <1>5, <2>1, HAnswerTypes DEF UH!Find
  <2>3. QED
    BY <1>1, <1>5, <2>2 DEF UH!Find
<1>6. ASSUME NEW p \in Index, NEW q \in Index, UH!Connected(p, q), UNCHANGED asked
      PROVE  HInv'
  <2>1. Res' \in UH!AnswerType
    BY <1>6, <1>2, HAnswerTypes DEF UH!Connected
  <2>2. QED
    BY <1>1, <1>6, <2>1 DEF UH!Connected
<1>7. ASSUME NEW p \in Index, NEW q \in Index, UH!HUnion(p, q) PROVE HInv'
  BY <1>7, UnionKeepsConnectivity DEF UH!HUnion, UH!Union
<1>8. CASE UNCHANGED UH!hvars
  BY <1>1, <1>8 DEF UH!hvars, UH!vars
<1>9. QED
  BY <1>3, <1>4, <1>5, <1>6, <1>7, <1>8 DEF UH!HNext

(***************************************************************************)
(* Whatever n and whatever sequence of calls, the representatives describe *)
(* the least equivalence that contains the accepted unions.                *)
(***************************************************************************)
THEOREM HistoryConnectivity == UH!HSpec => [](UH!Connectivity /\ UH!Idempotent)
<1>1. HInv => UH!Connectivity /\ UH!Idempotent
  BY DEF HInv
<1>2. QED
  BY HInvInit, HInvStep, <1>1, PTL DEF UH!HSpec

(***************************************************************************)
(* Once connected, connected for good: no call ever splits a class.        *)
(***************************************************************************)
ClassesOnlyGrow == \A x, y \in UH!Elem : Rep[x] = Rep[y] => Rep'[x] = Rep'[y]

\* No call of the abstract union-find ever splits a class.
THEOREM HistoryNeverSplits == UH!HSpec => [][ClassesOnlyGrow]_(UH!hvars)
<1>1. HInv /\ [UH!HNext]_(UH!hvars) => [ClassesOnlyGrow]_(UH!hvars)
  <2> SUFFICES ASSUME HInv, UH!HNext PROVE ClassesOnlyGrow
    OBVIOUS
  <2>1. CASE UNCHANGED Rep
    BY <2>1 DEF ClassesOnlyGrow
  <2>2. ASSUME NEW p \in Index, NEW q \in Index, UH!HUnion(p, q)
        PROVE  ClassesOnlyGrow
    BY <2>2, MergedClasses DEF UH!HUnion, UH!Union, HInv, UH!TypeOK, UH!Idempotent, ClassesOnlyGrow
  <2>3. QED
    BY <2>1, <2>2 DEF UH!HNext, UH!Begin, UH!Reject, UH!Find, UH!Connected
<1>2. QED
  BY HInvInit, HInvStep, <1>1, PTL DEF UH!HSpec

-----------------------------------------------------------------------------
(***************************************************************************)
(* Hence what uf_qf.c calls connected is exactly what its callers' unions  *)
(* ask for.                                                                *)
(***************************************************************************)
THEOREM QuickFindConnectivity == QFSpec => []Connectivity
<1>1. QED
  BY QuickFindImplements, HistoryConnectivity, PTL DEF QFImplements, Connectivity

(***************************************************************************)
(* And no step of uf_qf.c, a cell of a scan included, ever separates two   *)
(* elements that were connected.                                           *)
(***************************************************************************)
THEOREM QuickFindNeverSplits == QFSpec => [][ClassesOnlyGrow]_(UH!hvars)
<1>1. QED
  BY QuickFindImplements, HistoryNeverSplits, PTL DEF QFImplements

-----------------------------------------------------------------------------
(***************************************************************************)
(* The forests of uf_qu.c and uf_wqupc.c.                                  *)
(***************************************************************************)
Good == TypeOK /\ ForestInv

LEMMA GoodInit == Init => Good
<1> SUFFICES ASSUME Init PROVE Good
  OBVIOUS
<1>1. Pending(0) \in AnswerType
  BY DEF Pending, Answer, AnswerType
<1>2. QED
  BY <1>1 DEF Init, Good, TypeOK, ForestInv, LinksInv, ClimbInv, NoCall

LEMMA ImplementsInit == Init => DS!Init
BY DEF Init, DS!Init, Elem, DS!Elem, Pending, DS!Pending, Answer, DS!Answer

\* Between calls only the links have to be right.
LEMMA GoodReturn ==
  ASSUME Good, LinksInv', parent' \in [Elem -> Elem], rep' \in [Elem -> Elem],
         pc' = "idle", call' = NoCall, cur' = 0, root_p' = 0, res' \in AnswerType
  PROVE  Good'
BY DEF Good, TypeOK, ForestInv, ClimbInv, NoCall

\* Two roots climbed to: what the second return knows.
LEMMA TwoRoots ==
  ASSUME Good, pc = "climb_q", AtRoot
  PROVE  /\ call.p \in Elem /\ call.q \in Elem /\ cur \in Elem /\ root_p \in Elem
         /\ rep[call.q] = cur /\ rep[call.p] = root_p
         /\ parent[root_p] = root_p /\ rep[root_p] = root_p
         /\ parent[cur] = cur /\ rep[cur] = cur
BY DEF Good, TypeOK, ForestInv, LinksInv, ClimbInv, AtRoot

LEMMA PassiveKeepsGood ==
  ASSUME Good, Passive
  PROVE  Good'
<1> USE DEF Good, TypeOK
<1>1. /\ res.out \in Nat
      /\ Refusal(res.out) \in AnswerType
      /\ Pending(res.out) \in AnswerType
  BY AnswerParts
<1>2. ASSUME NEW p \in Index, NEW q \in Index, NEW null \in BOOLEAN, Reject(p, q, null)
      PROVE  Good'
  BY <1>1, <1>2 DEF Reject, forest, ctl, ForestInv, LinksInv, ClimbInv
<1>3. ASSUME NEW p \in Index, NEW q \in Index,
             NEW op \in {"find", "connected", "union"}, Call(op, p, q)
      PROVE  Good'
  <2>1. p \in Elem /\ q \in Elem /\ p \in Nat /\ q \in Nat
    BY <1>3 DEF Call, Elem
  <2>2. call' \in [op : {"none", "find", "connected", "union"}, p : Nat, q : Nat]
    BY <1>3, <2>1 DEF Call
  <2>3. TypeOK'
    BY <1>1, <1>3, <2>1, <2>2 DEF Call, forest
  <2>4. ForestInv'
    BY <1>3, <2>1 DEF Call, forest, ForestInv, LinksInv, ClimbInv
  <2>5. QED
    BY <2>3, <2>4
<1>4. CASE SecondRoot
  BY <1>4, NAssumption
     DEF SecondRoot, forest, ForestInv, LinksInv, ClimbInv, AtRoot, Elem
<1>5. CASE FindReturn
  <2>1. call.p \in Elem /\ cur \in Nat
    BY <1>5 DEF FindReturn, ForestInv, ClimbInv
  <2>2. res' \in AnswerType
    BY <1>5, <2>1, AnswerTypes DEF FindReturn, Return
  <2>3. LinksInv'
    BY <1>5 DEF FindReturn, forest, ForestInv, LinksInv
  <2>4. QED
    BY <1>5, <2>2, <2>3, GoodReturn DEF FindReturn, Return, forest
<1>6. CASE ConnectedReturn
  <2>1. res' \in AnswerType
    BY <1>6, TwoRoots, AnswerTypes DEF ConnectedReturn, Return, AsBit
  <2>2. LinksInv'
    BY <1>6 DEF ConnectedReturn, forest, ForestInv, LinksInv
  <2>3. QED
    BY <1>6, <2>1, <2>2, GoodReturn DEF ConnectedReturn, Return, forest
<1>7. CASE SameTree
  <2>1. res' \in AnswerType
    BY <1>1, <1>7, TwoRoots, AnswerTypes DEF SameTree, UnionReturn, Return
  <2>2. LinksInv'
    BY <1>7 DEF SameTree, ForestInv, LinksInv
  <2>3. QED
    BY <1>7, <2>1, <2>2, GoodReturn DEF SameTree, UnionReturn, Return
<1>8. QED
  BY <1>2, <1>3, <1>4, <1>5, <1>6, <1>7 DEF Passive, Request

(***************************************************************************)
(* Neither the start of a call nor a climb shows in the abstract state but *)
(* for the answer that is pending; the returns answer from it.             *)
(***************************************************************************)
LEMMA PassiveImplements ==
  ASSUME Good, Passive
  PROVE  [DS!Next]_(DS!vars)
<1> USE DEF Good, TypeOK, DS!Elem, Elem, DS!Answer, Answer, AsBit, DS!AsBit
<1>1. ASSUME NEW p \in Index, NEW q \in Index, NEW null \in BOOLEAN, Reject(p, q, null)
      PROVE  DS!Reject(p, q, null)
  BY <1>1 DEF Reject, DS!Reject, Refused, DS!Refused, Refusal, DS!Refusal, forest
<1>2. ASSUME NEW p \in Index, NEW q \in Index,
             NEW op \in {"find", "connected", "union"}, Call(op, p, q)
      PROVE  DS!Begin
  BY <1>2 DEF Call, DS!Begin, Pending, DS!Pending, forest
<1>3. CASE SecondRoot
  BY <1>3 DEF SecondRoot, forest, DS!vars
<1>4. CASE FindReturn
  <2>1. call.p \in Elem \cap Index /\ rep[call.p] = cur
    BY <1>4 DEF FindReturn, ForestInv, LinksInv, ClimbInv, AtRoot
  <2>2. DS!Find(call.p)
    BY <1>4, <2>1 DEF FindReturn, Return, forest, DS!Find
  <2>3. QED
    BY <2>1, <2>2 DEF DS!Next
<1>5. CASE ConnectedReturn
  <2>1. call.p \in Index /\ call.q \in Index
    BY <1>5 DEF ConnectedReturn, ForestInv, ClimbInv
  <2>2. DS!Connected(call.p, call.q)
    BY <1>5, TwoRoots DEF ConnectedReturn, Return, forest, DS!Connected
  <2>3. QED
    BY <2>1, <2>2 DEF DS!Next
<1>6. CASE SameTree
  <2>1. call.p \in Index /\ call.q \in Index
    BY <1>6 DEF SameTree, UnionReturn, ForestInv, ClimbInv
  <2>2. rep' = DS!Merged(rep, rep[call.p], rep[call.q])
    BY <1>6, TwoRoots DEF SameTree, UnionReturn, DS!Merged
  <2>3. DS!Union(call.p, call.q)
    BY <1>6, <2>2, TwoRoots DEF SameTree, UnionReturn, Return, DS!Union
  <2>4. QED
    BY <2>1, <2>3 DEF DS!Next
<1>7. QED
  BY <1>1, <1>2, <1>3, <1>4, <1>5, <1>6 DEF Passive, Request, DS!Next

(***************************************************************************)
(* A link between the two roots, whichever goes under the other.           *)
(***************************************************************************)
Linked(under, over) ==
  /\ UnionReturn
  /\ root_p # cur
  /\ <<under, over>> \in {<<root_p, cur>>, <<cur, root_p>>}
  /\ parent' = [parent EXCEPT ![under] = over]
  /\ rep' = Merged(rep, under, over)

LEMMA LinkStep ==
  ASSUME Good, NEW under, NEW over, Linked(under, over)
  PROVE  Good' /\ DS!Next
<1> USE DEF Good, TypeOK
<1>1. /\ under \in Elem /\ over \in Elem /\ under # over
      /\ parent[under] = under /\ parent[over] = over
      /\ rep[under] = under /\ rep[over] = over
      /\ <<under, over>> \in {<<rep[call.p], rep[call.q]>>, <<rep[call.q], rep[call.p]>>}
  BY TwoRoots DEF Linked, UnionReturn
<1>2. parent' = [x \in Elem |-> IF x = under THEN over ELSE parent[x]]
  BY <1>1 DEF Linked
<1>3. rep' = [x \in Elem |-> IF rep[x] = under THEN over ELSE rep[x]]
  BY <1>1 DEF Linked, Merged
<1>4. LinksInv'
  BY <1>1, <1>2, <1>3 DEF ForestInv, LinksInv
<1>5. res' \in AnswerType
  BY AnswerParts, TwoRoots, AnswerTypes DEF Linked, UnionReturn, Return
<1>6. Good'
  BY <1>1, <1>2, <1>3, <1>4, <1>5, GoodReturn DEF Linked, UnionReturn, Return
<1>7. call.p \in Elem \cap Index /\ call.q \in Elem \cap Index
  BY DEF Linked, UnionReturn, ForestInv, ClimbInv
<1>8. rep' \in {DS!Merged(rep, rep[call.p], rep[call.q]),
                DS!Merged(rep, rep[call.q], rep[call.p])}
  BY <1>1, <1>3 DEF DS!Merged, DS!Elem, Elem
<1>9. DS!Union(call.p, call.q)
  BY <1>7, <1>8 DEF Linked, UnionReturn, Return, DS!Union, DS!Elem, Elem,
                    Answer, DS!Answer
<1>10. QED
  BY <1>6, <1>7, <1>9 DEF DS!Next

-----------------------------------------------------------------------------
\* uf_qu.c

LEMMA ClimbStep ==
  ASSUME Good, Climb
  PROVE  Good' /\ UNCHANGED DS!vars
<1> USE DEF Good, TypeOK
<1>1. cur \in Elem /\ pc \in {"climb_p", "climb_q"}
  BY DEF Climb, Climbing, ForestInv, ClimbInv
<1>2. cur' = parent[cur] /\ cur' \in Elem /\ rep[cur'] = rep[cur] /\ cur' \in Nat
  BY <1>1, NAssumption DEF Climb, ForestInv, LinksInv, Elem
<1>3. QED
  BY <1>1, <1>2 DEF Climb, forest, ForestInv, LinksInv, ClimbInv, DS!vars

LEMMA GoodStep == Good /\ [Next]_vars => Good' /\ [DS!Next]_(DS!vars)
<1> SUFFICES ASSUME Good, [Next]_vars PROVE Good' /\ [DS!Next]_(DS!vars)
  OBVIOUS
<1>1. CASE Passive
  BY <1>1, PassiveKeepsGood, PassiveImplements
<1>2. CASE Climb
  BY <1>2, ClimbStep
<1>3. CASE LinkRoots
  <2>1. Linked(root_p, cur)
    BY <1>3 DEF LinkRoots, Linked
  <2>2. QED
    BY <2>1, LinkStep
<1>4. CASE UNCHANGED vars
  BY <1>4 DEF vars, forest, ctl, Good, TypeOK, ForestInv, LinksInv, ClimbInv, DS!vars
<1>5. QED
  BY <1>1, <1>2, <1>3, <1>4 DEF Next

(***************************************************************************)
(* Every value of n: root() never reads outside the array and never leaves *)
(* the class it started in.                                                *)
(***************************************************************************)
THEOREM QuickUnionInvariant == Spec => [](TypeOK /\ ForestInv)
<1>1. QED
  BY GoodInit, GoodStep, PTL DEF Spec, Good

\* Links, cursors and the caller's answers keep their types, for every n.
THEOREM QuickUnionTypes == Spec => []TypeOK
<1>1. QED
  BY QuickUnionInvariant, PTL

(***************************************************************************)
(* uf_qu.c answers as the atomic union-find does, for every n.             *)
(***************************************************************************)
THEOREM QuickUnionImplements == Spec => Implements
<1>1. QED
  BY GoodInit, GoodStep, ImplementsInit, PTL DEF Spec, Implements, DS!Spec

-----------------------------------------------------------------------------
\* uf_wqupc.c

WInv == Good /\ SizeType /\ SizeInv

(***************************************************************************)
(* Classes are finite, those of two roots are disjoint, and a merge adds   *)
(* one to the other, so it adds their cardinalities.                       *)
(***************************************************************************)
LEMMA ElemFinite == IsFiniteSet(Elem) /\ Cardinality(Elem) = N
BY FS_Interval, NAssumption DEF Elem

LEMMA DisjointSum ==
  ASSUME NEW S, NEW T, IsFiniteSet(S), IsFiniteSet(T), S \cap T = {}
  PROVE  Cardinality(S \cup T) = Cardinality(S) + Cardinality(T)
<1>1. Cardinality(S \cap T) = 0
  BY FS_EmptySet
<1>2. Cardinality(S) \in Nat /\ Cardinality(T) \in Nat
  BY FS_CardinalityType
<1>3. Cardinality(S \cup T) = Cardinality(S) + Cardinality(T) - Cardinality(S \cap T)
  BY FS_Union
<1>4. QED
  BY <1>1, <1>2, <1>3

LEMMA WInvInit == WInit => WInv
<1> SUFFICES ASSUME WInit PROVE WInv
  OBVIOUS
<1>1. Good
  BY GoodInit DEF WInit
<1>2. SizeType
  BY NAssumption DEF WInit, SizeType, Elem
<1>3. SizeCounts
  <2> SUFFICES ASSUME NEW r \in Elem PROVE Cardinality(Class(r)) = 1
    BY DEF SizeCounts, WInit
  <2>1. Class(r) = {r}
    BY DEF WInit, Init, Class
  <2>2. QED
    BY <2>1, FS_Singleton
<1>4. SizeGrows
  BY DEF WInit, Init, SizeGrows
<1>5. QED
  BY <1>1, <1>2, <1>3, <1>4 DEF WInv, SizeInv

(***************************************************************************)
(* Path halving: sizes grow along the links, so a grandparent is neither   *)
(* the element itself nor of another class, and no root moves.             *)
(***************************************************************************)
LEMMA HalvingStep ==
  ASSUME WInv, WClimb
  PROVE  WInv' /\ UNCHANGED DS!vars /\ size[cur] < size'[cur']
<1> USE DEF WInv, Good, TypeOK, SizeType
<1> DEFINE up == parent[cur]
           upup == parent[parent[cur]]
<1>1. cur \in Elem /\ pc \in {"climb_p", "climb_q"} /\ up \in Elem /\ upup \in Elem
  BY DEF WClimb, Climbing, ForestInv, ClimbInv
<1>2. up # cur
  BY DEF WClimb, Climbing, AtRoot
<1>3. size[cur] < size[up] /\ (up # upup => size[up] < size[upup])
  BY <1>1, <1>2 DEF SizeInv, SizeGrows
<1>4. size[cur] < size[upup]
  <2>1. size[cur] \in Int /\ size[up] \in Int /\ size[upup] \in Int
    <3>1. \A x \in Elem : size[x] \in Int
      BY NAssumption
    <3>2. QED
      BY <1>1, <3>1
  <2>2. size[up] <= size[upup]
    BY <1>3, <2>1
  <2>3. QED
    BY <1>3, <2>1, <2>2
<1>5. upup # cur
  BY <1>1, <1>4, NAssumption
<1>6. /\ parent' = [x \in Elem |-> IF x = cur THEN upup ELSE parent[x]]
      /\ cur' = upup
      /\ UNCHANGED <<rep, pc, call, root_p, res, size>>
  BY <1>1 DEF WClimb
<1>7. rep[upup] = rep[cur] /\ parent[rep[cur]] = rep[cur] /\ rep[cur] # cur
  BY <1>1, <1>2 DEF ForestInv, LinksInv
<1>8. LinksInv'
  BY <1>1, <1>5, <1>6, <1>7 DEF ForestInv, LinksInv
<1>9. ClimbInv'
  BY <1>1, <1>6, <1>7 DEF ForestInv, ClimbInv
<1>10. TypeOK'
  <2>1. upup \in Nat
    BY <1>1, NAssumption DEF Elem
  <2>2. parent' \in [Elem -> Elem]
    BY <1>1, <1>6
  <2>3. QED
    BY <1>1, <1>6, <2>1, <2>2
<1>11. SizeCounts'
  BY <1>1, <1>5, <1>6 DEF SizeInv, SizeCounts, Class
<1>12. SizeGrows'
  BY <1>1, <1>4, <1>6 DEF SizeInv, SizeGrows
<1>13. QED
  BY <1>4, <1>6, <1>8, <1>9, <1>10, <1>11, <1>12 DEF ForestInv, SizeInv, DS!vars

(***************************************************************************)
(* A link, whichever way it goes: the surviving root's size is the sum.    *)
(***************************************************************************)
LEMMA HangStep ==
  ASSUME WInv, NEW under, NEW over, Linked(under, over),
         size' = [size EXCEPT ![over] = @ + size[under]]
  PROVE  WInv' /\ DS!Next
<1> USE DEF WInv, SizeType
<1>1. Good' /\ DS!Next
  BY LinkStep
<1>2. /\ under \in Elem /\ over \in Elem /\ under # over
      /\ parent[under] = under /\ parent[over] = over
      /\ rep[under] = under /\ rep[over] = over
  BY TwoRoots DEF Linked, UnionReturn
<1>3. /\ parent' = [x \in Elem |-> IF x = under THEN over ELSE parent[x]]
      /\ rep' = [x \in Elem |-> IF rep[x] = under THEN over ELSE rep[x]]
      /\ size' = [x \in Elem |-> IF x = over THEN size[over] + size[under] ELSE size[x]]
  BY <1>2 DEF Linked, Merged, Good, TypeOK
<1>4. size[under] = Cardinality(Class(under)) /\ size[over] = Cardinality(Class(over))
  BY <1>2 DEF SizeInv, SizeCounts
<1>5. \A r \in Elem : IsFiniteSet(Class(r))
  BY ElemFinite, FS_Subset DEF Class
<1>6. Class(over)' = Class(over) \cup Class(under)
  BY <1>2, <1>3 DEF Class
<1>7. Class(over) \cap Class(under) = {}
  BY <1>2 DEF Class
<1>8. Cardinality(Class(over)') = size[over] + size[under]
  BY <1>2, <1>4, <1>5, <1>6, <1>7, DisjointSum
<1>9. Cardinality(Class(over)') <= N
  BY ElemFinite, FS_Subset DEF Class
<1>10. SizeType'
  BY <1>2, <1>3, <1>8, <1>9, NAssumption
<1>11. SizeCounts'
  <2> SUFFICES ASSUME NEW r \in Elem, parent'[r] = r
               PROVE  size'[r] = Cardinality(Class(r)')
    BY DEF SizeCounts
  <2>1. r # under /\ parent[r] = r
    BY <1>2, <1>3
  <2>2. CASE r = over
    BY <1>2, <1>3, <1>8, <2>2
  <2>3. CASE r # over
    <3>1. Class(r)' = Class(r)
      BY <1>2, <1>3, <2>1, <2>3 DEF Class
    <3>2. QED
      BY <1>3, <2>1, <2>3, <3>1 DEF SizeInv, SizeCounts
  <2>4. QED
    BY <2>2, <2>3
<1>12. SizeGrows'
  <2> SUFFICES ASSUME NEW x \in Elem, parent'[x] # x
               PROVE  size'[x] < size'[parent'[x]]
    BY DEF SizeGrows
  <2>1. x # over /\ size'[x] = size[x] /\ size[x] \in 1 .. N
    BY <1>2, <1>3
  <2>2. size[over] \in 1 .. N /\ size[under] \in 1 .. N
    BY <1>2
  <2>3. CASE x = under
    BY <1>2, <1>3, <2>1, <2>2, <2>3, NAssumption
  <2>4. CASE x # under
    <3>1. parent'[x] = parent[x] /\ parent[x] \in Elem /\ size[x] < size[parent[x]]
      BY <1>3, <2>4 DEF Good, TypeOK, SizeInv, SizeGrows
    <3>2. size[parent[x]] <= size'[parent[x]]
      BY <1>3, <2>2, <3>1, NAssumption
    <3>3. QED
      BY <1>2, <1>3, <2>1, <2>2, <3>1, <3>2, NAssumption
  <2>5. QED
    BY <2>3, <2>4
<1>13. QED
  BY <1>1, <1>10, <1>11, <1>12 DEF SizeInv

LEMMA WInvStep == WInv /\ [WNext]_wvars => WInv' /\ [DS!Next]_(DS!vars)
<1> SUFFICES ASSUME WInv, [WNext]_wvars PROVE WInv' /\ [DS!Next]_(DS!vars)
  OBVIOUS
<1>1. ASSUME UNCHANGED <<parent, rep, size>> PROVE SizeType' /\ SizeInv'
  BY <1>1 DEF WInv, SizeType, SizeInv, SizeCounts, SizeGrows, Class
<1>2. CASE Passive /\ UNCHANGED size
  <2>1. UNCHANGED <<parent, rep>>
    BY <1>2 DEF Passive, Request, Reject, Call, SecondRoot, FindReturn,
                ConnectedReturn, SameTree, forest
  <2>2. QED
    BY <1>1, <1>2, <2>1, PassiveKeepsGood, PassiveImplements DEF WInv
<1>3. CASE WClimb
  BY <1>3, HalvingStep
<1>4. CASE LinkSmaller
  <2>1. CASE size[root_p] < size[cur]
    <3>1. Linked(root_p, cur) /\ size' = [size EXCEPT ![cur] = @ + size[root_p]]
      BY <1>4, <2>1 DEF LinkSmaller, Hang, Linked
    <3>2. QED
      BY <3>1, HangStep
  <2>2. CASE ~(size[root_p] < size[cur])
    <3>1. Linked(cur, root_p) /\ size' = [size EXCEPT ![root_p] = @ + size[cur]]
      BY <1>4, <2>2 DEF LinkSmaller, Hang, Linked
    <3>2. QED
      BY <3>1, HangStep
  <2>3. QED
    BY <2>1, <2>2
<1>5. CASE UNCHANGED wvars
  BY <1>1, <1>5 DEF wvars, forest, ctl, WInv, Good, TypeOK, ForestInv, LinksInv,
                    ClimbInv, DS!vars
<1>6. QED
  BY <1>2, <1>3, <1>4, <1>5 DEF WNext, Step

(***************************************************************************)
(* For every n the links are the classes and the sizes count them, through *)
(* every interleaving of halving climbs and links that calls can make.     *)
(***************************************************************************)
THEOREM WeightedInvariant == WSpec => [](TypeOK /\ ForestInv /\ SizeType /\ SizeInv)
<1>1. QED
  BY WInvInit, WInvStep, PTL DEF WSpec, WInv, Good

(***************************************************************************)
(* uf_wqupc.c answers as the atomic union-find does, for every n: halving  *)
(* and the choice of the larger tree are invisible.                        *)
(***************************************************************************)
THEOREM WeightedImplements == WSpec => Implements
<1>1. WInit => DS!Init
  BY ImplementsInit DEF WInit
<1>2. QED
  BY WInvInit, WInvStep, <1>1, PTL DEF WSpec, Implements, DS!Spec

(***************************************************************************)
(* The bound on root(): sizes lie in 1 .. n and each climb strictly        *)
(* increases the one under the cursor.                                     *)
(***************************************************************************)
THEOREM WeightedClimbGrows == WSpec => [][ClimbGrows]_wvars
<1>1. WInv /\ [WNext]_wvars => [ClimbGrows]_wvars
  BY HalvingStep DEF ClimbGrows
<1>2. QED
  BY WInvInit, WInvStep, <1>1, PTL DEF WSpec

-----------------------------------------------------------------------------
(***************************************************************************)
(* Induction on the natural numbers, for a set: there is no least number   *)
(* outside.                                                                *)
(***************************************************************************)
LEMMA Induction ==
  ASSUME NEW S, 0 \in S, \A n \in Nat : n \in S => n + 1 \in S
  PROVE  Nat \subseteq S
<1> DEFINE wrong == Nat \ S
<1>1. ASSUME wrong # {} PROVE FALSE
  <2>1. PICK n \in wrong : \A m \in wrong : ~(<<m, n>> \in OpToRel(<, Nat))
    <3> HIDE DEF wrong
    <3>1. wrong \subseteq Nat
      BY DEF wrong
    <3>2. QED
      BY <1>1, <3>1, NatLessThanWellFounded, WFMin
  <2>2. n \in Nat /\ n \notin S /\ \A m \in wrong : ~(m < n)
    BY <2>1 DEF OpToRel
  <2>3. n - 1 \in Nat /\ n - 1 < n /\ (n - 1) + 1 = n
    BY <2>2
  <2>4. QED
    BY <2>2, <2>3
<1>2. QED
  BY <1>1

\* The powers of two exist, as the recursion in TwoTo has a solution.
Power(n, f) == f = [d \in 0 .. n |-> IF d = 0 THEN 1 ELSE 2 * f[d - 1]]

LEMMA PowersExist == \A n \in Nat : \E f : Power(n, f)
<1> DEFINE S == {n \in Nat : \E f : Power(n, f)}
<1>1. 0 \in S
  <2>1. Power(0, [d \in 0 .. 0 |-> 1])
    BY DEF Power
  <2>2. QED
    BY <2>1
<1>2. ASSUME NEW n \in Nat, n \in S PROVE n + 1 \in S
  <2>1. PICK f : Power(n, f)
    BY <1>2
  <2> DEFINE g == [d \in 0 .. n + 1 |-> IF d = n + 1 THEN 2 * f[n] ELSE f[d]]
  <2>2. \A d \in 0 .. n : f[d] = (IF d = 0 THEN 1 ELSE 2 * f[d - 1])
    BY <2>1 DEF Power
  <2>3. \A d \in 0 .. n + 1 : g[d] = (IF d = 0 THEN 1 ELSE 2 * g[d - 1])
    <3> SUFFICES ASSUME NEW d \in 0 .. n + 1
                 PROVE  g[d] = (IF d = 0 THEN 1 ELSE 2 * g[d - 1])
      OBVIOUS
    <3>1. CASE d = n + 1
      <4>1. n \in 0 .. n + 1 /\ g[n] = f[n] /\ d - 1 = n
        BY <3>1
      <4>2. QED
        BY <3>1, <4>1
    <3>2. CASE d \in 0 .. n
      <4>1. g[d] = f[d] /\ (d # 0 => g[d - 1] = f[d - 1])
        BY <3>2
      <4>2. QED
        BY <2>2, <3>2, <4>1
    <3>3. QED
      BY <3>1, <3>2
  <2>4. Power(n + 1, g)
    BY <2>3 DEF Power
  <2>5. QED
    BY <2>4
<1> HIDE DEF S
<1>3. Nat \subseteq S
  BY <1>1, <1>2, Induction
<1>4. QED
  BY <1>3 DEF S

LEMMA TwoToIs == \A d \in 0 .. N : TwoTo[d] = IF d = 0 THEN 1 ELSE 2 * TwoTo[d - 1]
<1>1. \E f : Power(N, f)
  BY PowersExist, NAssumption
<1>2. TwoTo = CHOOSE f : Power(N, f)
  BY DEF TwoTo, Power
<1>3. Power(N, TwoTo)
  BY <1>1, <1>2
<1>4. QED
  BY <1>3 DEF Power

\* Doubling outruns counting.
LEMMA TwoToGrows == \A d \in 0 .. N : TwoTo[d] \in Nat /\ d < TwoTo[d]
<1> DEFINE S == {d \in Nat : d \in 0 .. N => TwoTo[d] \in Nat /\ d < TwoTo[d]}
<1>1. 0 \in S
  BY TwoToIs
<1>2. ASSUME NEW d \in Nat, d \in S PROVE d + 1 \in S
  <2> SUFFICES ASSUME d + 1 \in 0 .. N PROVE TwoTo[d + 1] \in Nat /\ d + 1 < TwoTo[d + 1]
    OBVIOUS
  <2>1. d \in 0 .. N /\ (d + 1) - 1 = d
    BY NAssumption
  <2>2. TwoTo[d] \in Nat /\ d < TwoTo[d]
    BY <1>2, <2>1
  <2>3. TwoTo[d + 1] = 2 * TwoTo[d]
    BY <2>1, TwoToIs
  <2>4. QED
    BY <2>2, <2>3
<1> HIDE DEF S
<1>3. Nat \subseteq S
  BY <1>1, <1>2, Induction
<1>4. QED
  BY <1>3, NAssumption DEF S

-----------------------------------------------------------------------------
FInv == WInv /\ LogDepth

LEMMA LevelsInit == WInit => LogDepth
<1> SUFFICES ASSUME WInit PROVE LogDepth
  OBVIOUS
<1> DEFINE level == [x \in Elem |-> 0]
<1>1. level \in [Elem -> 0 .. N - 1] /\ TwoTo[0] = 1
  BY TwoToIs, NAssumption DEF Elem
<1>2. Levels(level) /\ \A x \in Elem : TwoTo[level[x]] <= size[rep[x]]
  BY <1>1 DEF WInit, Init, Levels
<1>3. QED
  BY <1>1, <1>2 DEF LogDepth

(***************************************************************************)
(* Halving passes over a link: a grandparent's level is lower still.       *)
(***************************************************************************)
LEMMA HalvingLevels ==
  ASSUME FInv, WClimb
  PROVE  LogDepth'
<1> USE DEF FInv, WInv, Good, TypeOK
<1>1. PICK level \in [Elem -> 0 .. N - 1] :
        Levels(level) /\ \A x \in Elem : TwoTo[level[x]] <= size[rep[x]]
  BY DEF LogDepth
<1>2. /\ cur \in Elem /\ parent[cur] \in Elem /\ parent[parent[cur]] \in Elem
      /\ parent[cur] # cur
      /\ parent' = [x \in Elem |-> IF x = cur THEN parent[parent[cur]] ELSE parent[x]]
      /\ UNCHANGED <<rep, size>>
  BY DEF WClimb, Climbing, AtRoot, ForestInv, ClimbInv
<1>3. level[parent[cur]] < level[cur]
  BY <1>1, <1>2 DEF Levels
<1>4. /\ level[cur] \in Int /\ level[parent[cur]] \in Int
      /\ level[parent[parent[cur]]] \in Int
  <2>1. \A x \in Elem : level[x] \in Int
    BY <1>1, NAssumption
  <2>2. QED
    BY <1>2, <2>1
<1>5. level[parent[parent[cur]]] < level[cur]
  <2>1. parent[parent[cur]] # parent[cur] =>
          level[parent[parent[cur]]] < level[parent[cur]]
    BY <1>1, <1>2 DEF Levels
  <2>2. CASE parent[parent[cur]] = parent[cur]
    BY <1>3, <2>2
  <2>3. CASE parent[parent[cur]] # parent[cur]
    BY <1>3, <1>4, <2>1, <2>3
  <2>4. QED
    BY <2>2, <2>3
<1>6. Levels(level)'
  <2>1. parent[parent[cur]] # cur
    BY <1>4, <1>5
  <2>2. QED
    BY <1>1, <1>2, <1>5, <2>1 DEF Levels
<1>7. QED
  BY <1>1, <1>2, <1>6 DEF LogDepth

(***************************************************************************)
(* A link lowers one class by a level, and that class joins one that is at *)
(* least as large: what it stands in has doubled.                          *)
(***************************************************************************)
LEMMA HangLevels ==
  ASSUME FInv, NEW under, NEW over, Linked(under, over),
         size' = [size EXCEPT ![over] = @ + size[under]], size[under] <= size[over]
  PROVE  LogDepth'
<1> USE DEF FInv, WInv
<1>1. PICK level \in [Elem -> 0 .. N - 1] :
        Levels(level) /\ \A x \in Elem : TwoTo[level[x]] <= size[rep[x]]
  BY DEF LogDepth
<1>2. /\ under \in Elem /\ over \in Elem /\ under # over
      /\ parent[under] = under /\ parent[over] = over
      /\ rep[under] = under /\ rep[over] = over
  BY TwoRoots DEF Linked, UnionReturn
<1>3. /\ parent' = [x \in Elem |-> IF x = under THEN over ELSE parent[x]]
      /\ rep' = [x \in Elem |-> IF rep[x] = under THEN over ELSE rep[x]]
      /\ size' = [x \in Elem |-> IF x = over THEN size[over] + size[under] ELSE size[x]]
  BY <1>2 DEF Linked, Merged, Good, TypeOK, SizeType
<1>4. size'[over] = size[over] + size[under] /\ size'[over] <= N
  <2>1. SizeType'
    BY HangStep
  <2>2. QED
    BY <1>2, <1>3, <2>1, NAssumption DEF SizeType
<1>5. \A x \in Elem : parent[x] \in Elem /\ rep[x] \in Elem /\ rep[parent[x]] = rep[x]
                      /\ size[x] \in Nat
  BY NAssumption DEF Good, TypeOK, ForestInv, LinksInv, SizeType
<1>6. PICK moved :
         moved = [x \in Elem |-> IF rep[x] = under THEN level[x] + 1 ELSE level[x]]
  OBVIOUS
<1>7. ASSUME NEW x \in Elem
      PROVE  moved[x] \in 0 .. N - 1 /\ TwoTo[moved[x]] <= size'[rep'[x]]
  <2>1. level[x] \in 0 .. N - 1 /\ TwoTo[level[x]] <= size[rep[x]]
    BY <1>1
  <2>2. CASE rep[x] = under
    <3>1. moved[x] = level[x] + 1 /\ moved[x] \in 0 .. N /\ rep'[x] = over
      BY <1>3, <1>6, <2>1, <2>2, NAssumption
    <3>2. TwoTo[moved[x]] = 2 * TwoTo[level[x]]
      BY <2>1, <3>1, TwoToIs
    <3>3. TwoTo[level[x]] \in Nat /\ moved[x] < TwoTo[moved[x]]
      BY <2>1, <3>1, TwoToGrows, NAssumption
    <3>4. TwoTo[moved[x]] <= size'[over]
      BY <1>2, <1>4, <1>5, <2>1, <2>2, <3>2, <3>3
    <3>5. QED
      BY <1>4, <1>5, <1>2, <3>1, <3>2, <3>3, <3>4, NAssumption
  <2>3. CASE rep[x] = over
    <3>1. moved[x] = level[x] /\ rep'[x] = over
      BY <1>2, <1>3, <1>6, <2>3
    <3>2. TwoTo[level[x]] \in Nat
      BY <2>1, TwoToGrows, NAssumption
    <3>3. QED
      BY <1>2, <1>4, <1>5, <2>1, <2>3, <3>1, <3>2
  <2>4. CASE rep[x] # under /\ rep[x] # over
    BY <1>3, <1>5, <1>6, <2>1, <2>4
  <2>5. QED
    BY <2>2, <2>3, <2>4
<1>8. Levels(moved)'
  <2> SUFFICES ASSUME NEW x \in Elem
               PROVE  IF parent'[x] = x THEN moved[x] = 0 ELSE moved[parent'[x]] < moved[x]
    BY DEF Levels
  <2>1. \A y \in Elem : level[y] \in Int /\ (parent[y] = y => level[y] = 0)
    BY <1>1, NAssumption DEF Levels
  <2>2. CASE x = under
    BY <1>2, <1>3, <1>6, <2>1, <2>2
  <2>3. CASE x # under
    <3>1. parent'[x] = parent[x] /\ rep[parent[x]] = rep[x] /\ parent[x] \in Elem
      BY <1>3, <1>5, <2>3
    <3>2. CASE parent[x] = x
      <4>1. rep[x] # under
        <5>1. rep[x] = x
          BY <3>2 DEF Good, ForestInv, LinksInv
        <5>2. QED
          BY <2>3, <5>1
      <4>2. QED
        BY <1>6, <2>1, <3>1, <3>2, <4>1
    <3>3. CASE parent[x] # x
      <4>1. level[parent[x]] < level[x]
        BY <1>1, <3>3 DEF Levels
      <4>2. QED
        BY <1>6, <2>1, <3>1, <3>3, <4>1
    <3>4. QED
      BY <3>2, <3>3
  <2>4. QED
    BY <2>2, <2>3
<1>9. moved \in [Elem -> 0 .. N - 1] /\ \A x \in Elem : TwoTo[moved[x]] <= size'[rep'[x]]
  BY <1>6, <1>7
<1>10. QED
  BY <1>6, <1>8, <1>9 DEF LogDepth

LEMMA FInvStep == FInv /\ [WNext]_wvars => FInv'
<1> SUFFICES ASSUME FInv, [WNext]_wvars PROVE LogDepth'
  BY WInvStep DEF FInv
<1>1. ASSUME UNCHANGED <<parent, rep, size>> PROVE LogDepth'
  BY <1>1 DEF FInv, LogDepth, Levels
<1>2. CASE Passive /\ UNCHANGED size
  BY <1>1, <1>2 DEF Passive, Request, Reject, Call, SecondRoot, FindReturn,
                    ConnectedReturn, SameTree, forest
<1>3. CASE WClimb
  BY <1>3, HalvingLevels
<1>4. CASE LinkSmaller
  <2>1. size[root_p] \in Int /\ size[cur] \in Int
    BY <1>4, TwoRoots, NAssumption DEF LinkSmaller, UnionReturn, FInv, WInv, SizeType
  <2>2. CASE size[root_p] < size[cur]
    <3>1. Linked(root_p, cur) /\ size' = [size EXCEPT ![cur] = @ + size[root_p]]
      BY <1>4, <2>2 DEF LinkSmaller, Hang, Linked
    <3>2. size[root_p] <= size[cur]
      BY <2>1, <2>2
    <3>3. QED
      BY <3>1, <3>2, HangLevels
  <2>3. CASE ~(size[root_p] < size[cur])
    <3>1. Linked(cur, root_p) /\ size' = [size EXCEPT ![root_p] = @ + size[cur]]
      BY <1>4, <2>3 DEF LinkSmaller, Hang, Linked
    <3>2. size[cur] <= size[root_p]
      BY <2>1, <2>3
    <3>3. QED
      BY <3>1, <3>2, HangLevels
  <2>4. QED
    BY <2>2, <2>3
<1>5. CASE UNCHANGED wvars
  BY <1>1, <1>5 DEF wvars, forest
<1>6. QED
  BY <1>2, <1>3, <1>4, <1>5 DEF WNext, Step

(***************************************************************************)
(* For every n, uf_wqupc's trees stay flat: a path from an element to its  *)
(* root has at most log2 n links.                                          *)
(***************************************************************************)
THEOREM WeightedLogDepth == WSpec => []LogDepth
<1>1. FInv => LogDepth
  BY DEF FInv
<1>2. WInit => FInv
  BY WInvInit, LevelsInit DEF FInv
<1>3. QED
  BY FInvStep, <1>1, <1>2, PTL DEF WSpec

-----------------------------------------------------------------------------
(***************************************************************************)
(* The three implementations side by side, as the model checker runs them. *)
(* The forest stays as it was in a behaviour of quick-find.                *)
(***************************************************************************)
MCInv ==
  /\ impl \in {"qf", "qu", "wqupc"}
  /\ Good
  /\ impl = "wqupc" => FInv

LEMMA MCInvInit == MCInit => MCInv
BY GoodInit, WInvInit, LevelsInit DEF MCInit, MCInv, WInit, FInv

LEMMA MCInvStep == MCInv /\ [MCNext]_mcvars => MCInv' /\ [DS!Next]_(DS!vars)
<1> SUFFICES ASSUME MCInv, [MCNext]_mcvars PROVE MCInv' /\ [DS!Next]_(DS!vars)
  OBVIOUS
<1>1. impl' = impl
  BY DEF MCNext, mcvars
<1>2. CASE impl \in {"qf", "qu"}
  <2>1. [Next]_vars
    BY <1>2 DEF MCNext, mcvars, wvars, vars
  <2>2. QED
    BY <1>1, <1>2, <2>1, GoodStep DEF MCInv
<1>3. CASE impl = "wqupc"
  <2>1. [WNext]_wvars
    BY <1>3 DEF MCNext, mcvars
  <2>2. FInv' /\ [DS!Next]_(DS!vars)
    BY <1>3, <2>1, FInvStep, WInvStep DEF MCInv, FInv
  <2>3. QED
    BY <1>1, <1>3, <2>2 DEF MCInv, FInv, WInv
<1>4. QED
  BY <1>2, <1>3 DEF MCInv

(***************************************************************************)
(* The weights of uf_wqupc, in the specification that the three            *)
(* implementations share: for every n, sizes count the classes at the      *)
(* roots and grow along every link, however paths were halved.             *)
(***************************************************************************)
THEOREM ForestsWeights == MCSpec => []Weights
<1>1. MCInv => Weights
  BY DEF MCInv, FInv, WInv, Weights
<1>2. QED
  BY MCInvInit, MCInvStep, <1>1, PTL DEF MCSpec

\* The depth bound of uf_wqupc, in that specification, for every n.
THEOREM ForestsFlat == MCSpec => []FlatTrees
<1>1. MCInv => FlatTrees
  BY DEF MCInv, FInv, FlatTrees
<1>2. QED
  BY MCInvInit, MCInvStep, <1>1, PTL DEF MCSpec

\* And the abstract union-find, which both forests implement.
THEOREM ForestsImplement == MCSpec => Implements
<1>1. MCInit => DS!Init
  BY ImplementsInit DEF MCInit, WInit
<1>2. QED
  BY MCInvInit, MCInvStep, <1>1, PTL DEF MCSpec, Implements, DS!Spec
=============================================================================
