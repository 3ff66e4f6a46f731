------------------------------ MODULE QuickFind ------------------------------
(***************************************************************************)
(* uf_qf.c: id[x] is the component id of x.  find and connected read it;   *)
(* union copies the two ids and then relabels the whole array, one cell    *)
(* per step of the scan.                                                   *)
(***************************************************************************)
EXTENDS UnionFind

VARIABLES
  id,         \* uf->id
  pid, qid,   \* union's locals: the ids read before the loop; 0 between calls
  i,          \* union's loop index
  qfpc,       \* "idle", or "scan" when a union is in its loop
  qfcall,     \* that union's arguments
  qfres,      \* last answer
  asked       \* history: pairs of the accepted unions

qfvars == <<id, qfpc, pid, qid, i, qfcall, asked, qfres>>

QFInit ==
  /\ id = [x \in Elem |-> x]
  /\ qfpc = "idle"
  /\ pid = 0 /\ qid = 0 /\ i = 0
  /\ qfcall = <<0, 0>>
  /\ asked = {}
  /\ qfres = Pending(0)

QFReject(p, q, null) ==
  /\ qfpc = "idle"
  /\ Refused(p, q, null)
  /\ qfres' = Refusal(qfres.out)
  /\ UNCHANGED <<id, qfpc, pid, qid, i, qfcall, asked>>

Find(p) ==
  /\ qfpc = "idle"
  /\ p \in Elem
  /\ qfres' = Answer("find", p, p, 0, id[p])
  /\ UNCHANGED <<id, qfpc, pid, qid, i, qfcall, asked>>

Connected(p, q) ==
  /\ qfpc = "idle"
  /\ p \in Elem /\ q \in Elem
  /\ qfres' = Answer("connected", p, q, 0, AsBit(id[p] = id[q]))
  /\ UNCHANGED <<id, qfpc, pid, qid, i, qfcall, asked>>

\* union returns at once when the ids are equal.
UnionSame(p, q) ==
  /\ qfpc = "idle"
  /\ p \in Elem /\ q \in Elem
  /\ id[p] = id[q]
  /\ asked' = asked \cup Asks(p, q)
  /\ qfres' = Answer("union", p, q, 0, qfres.out)
  /\ UNCHANGED <<id, qfpc, pid, qid, i, qfcall>>

UnionBegin(p, q) ==
  /\ qfpc = "idle"
  /\ p \in Elem /\ q \in Elem
  /\ id[p] # id[q]
  /\ pid' = id[p] /\ qid' = id[q]
  /\ i' = 0
  /\ qfcall' = <<p, q>>
  /\ qfpc' = "scan"
  /\ asked' = asked \cup Asks(p, q)
  /\ qfres' = Pending(qfres.out)
  /\ UNCHANGED id

\* A plausible slip: test against the live id[p] instead of the copy of it.
RelabelLive(x) == IF id[x] = id[qfcall[1]] THEN qid ELSE id[x]

\* A plausible slip: relabel p's component with the index q, not with q's id.
RelabelIndex(x) == IF id[x] = pid THEN qfcall[2] ELSE id[x]

Relabel(x) == IF id[x] = pid THEN qid ELSE id[x]

\* A plausible slip: the loop that starts at 1.
ScanFromOne ==
  /\ qfpc = "scan"
  /\ i < N
  /\ id' = [id EXCEPT ![i] = IF i = 0 THEN @ ELSE Relabel(i)]
  /\ i' = i + 1
  /\ UNCHANGED <<qfpc, pid, qid, qfcall, asked, qfres>>

\* A plausible slip: the loop that runs to i <= n.
ScanPastEnd ==
  /\ qfpc = "scan"
  /\ i <= N
  /\ id' = [id EXCEPT ![i] = IF i = N THEN qid ELSE Relabel(i)]
  /\ i' = i + 1
  /\ UNCHANGED <<qfpc, pid, qid, qfcall, asked, qfres>>

\* A plausible slip: an index type too narrow for n, which wraps before n.
ScanNarrow ==
  /\ qfpc = "scan"
  /\ i < N
  /\ id' = [id EXCEPT ![i] = Relabel(i)]
  /\ i' = (i + 1) % N
  /\ UNCHANGED <<qfpc, pid, qid, qfcall, asked, qfres>>

Scan ==
  /\ qfpc = "scan"
  /\ i < N
  /\ id' = [id EXCEPT ![i] = Relabel(i)]
  /\ i' = i + 1
  /\ UNCHANGED <<qfpc, pid, qid, qfcall, asked, qfres>>

ScanReturn ==
  /\ qfpc = "scan"
  /\ i >= N
  /\ qfpc' = "idle"
  /\ pid' = 0 /\ qid' = 0 /\ i' = 0
  /\ qfcall' = <<0, 0>>
  /\ qfres' = Answer("union", qfcall[1], qfcall[2], 0, qfres.out)
  /\ UNCHANGED <<id, asked>>

QFRequest ==
  \E p, q \in Index :
    \/ \E null \in BOOLEAN : QFReject(p, q, null)
    \/ Find(p)
    \/ Connected(p, q)
    \/ UnionSame(p, q)
    \/ UnionBegin(p, q)

QFWork == Scan \/ ScanReturn

QFNext == QFRequest \/ QFWork

\* A call that has begun runs to its end: the library never waits.
QFSpec == QFInit /\ [][QFNext]_qfvars /\ WF_qfvars(QFWork)

-----------------------------------------------------------------------------
QFTypeOK ==
  /\ id \in [Elem -> Elem]
  /\ qfpc \in {"idle", "scan"}
  /\ pid \in Nat /\ qid \in Nat
  /\ i \in 0 .. N
  /\ qfcall \in Nat \X Nat
  /\ asked \subseteq SUBSET Elem
  /\ qfres \in AnswerType

(***************************************************************************)
(* The abstraction.  A union takes effect when its scan begins: from then  *)
(* on its caller can only see the labelling the scan is heading for.       *)
(***************************************************************************)
Rep == IF qfpc = "scan" THEN Merged(id, pid, qid) ELSE id

Res == IF qfpc = "scan" THEN Answer("union", qfcall[1], qfcall[2], 0, qfres.out)
                      ELSE qfres

UH == INSTANCE UnionHistory WITH rep <- Rep, res <- Res

(***************************************************************************)
(* In the middle of the scan the cells already visited are relabelled and  *)
(* the target id is a different one that names itself, so the scan can     *)
(* neither revisit its own output nor chase a moving id.                   *)
(***************************************************************************)
ScanInv ==
  qfpc = "scan" =>
    /\ qfcall \in Elem \X Elem
    /\ pid \in Elem /\ qid \in Elem
    /\ pid # qid
    /\ id[qid] = qid
    /\ \A x \in Elem : x < i => id[x] # pid

\* Between calls an id is an element of the component it names.
Idempotent == UH!Idempotent

\* Connectivity is exactly what the accepted unions ask for (uf_qf_union).
Connectivity == UH!Connectivity

\* The scanning implementation answers as an atomic union-find does.
QFImplements == UH!HSpec

\* Every union comes back: its scan ends whatever the labels are.
QFReturns == (qfpc = "scan") ~> (qfpc = "idle")
=============================================================================
