--------------------------- MODULE WriteGateProofs ---------------------------
(***************************************************************************)
(* WriteGate for every set of paths and callers: the promise chains give   *)
(* mutual exclusion, keep the map exact, and implement PathLocks.          *)
(*                                                                         *)
(* The argument: the calls that joined a path's chain stand in a line.     *)
(* The state holds only links (who waits behind whom, who is the tail);    *)
(* the invariant says that the links are those of some order of arrival,   *)
(* in which the owner is first, the tail is last and nobody stands between *)
(* a waiting call and the one it waits behind.                             *)
(***************************************************************************)
EXTENDS WriteGate, TLAPS

(* <<c, d>> \in A[p]: on path p, c arrived before d. *)
Arrivals == [Path -> SUBSET (Caller \X Caller)]

(* A orders the calls of each chain, and the links of the state follow it. *)
Lined(A) ==
  /\ \A p \in Path : \A c, d \in Caller :
       (c # d /\ p \in Joined(c) /\ p \in Joined(d))
         => (<<c, d>> \in A[p] <=> <<d, c>> \notin A[p])
  /\ \A p \in Path : \A c \in Caller :
       (p \in Joined(c) /\ c # tail[p]) => <<c, tail[p]>> \in A[p]
  /\ \A p \in Path : \A c, d \in Caller :
       (Owns(c, p) /\ p \in Joined(d) /\ c # d) => <<c, d>> \in A[p]
  /\ \A c, d \in Caller :
       behind[c] # None =>
         /\ <<behind[c], c>> \in A[at[c]]
         /\ (at[c] \in Joined(d) /\ d # c /\ d # behind[c])
              => (<<d, behind[c]>> \in A[at[c]] \/ <<c, d>> \in A[at[c]])

LineInv == \E A \in Arrivals : Lined(A)

(* The map entry of a path is a call that joined its chain, and there is   *)
(* one as soon as any call joined.                                         *)
TailInv ==
  \A p \in Path :
    /\ tail[p] # None => p \in Joined(tail[p])
    /\ tail[p] = None => \A c \in Caller : p \notin Joined(c)

(* Whoever waits, waits in the chain it joined last, behind another call   *)
(* of that chain.                                                          *)
WaitInv ==
  \A c \in Caller :
    behind[c] # None =>
      /\ at[c] \in Joined(c)
      /\ behind[c] # c
      /\ at[c] \in Joined(behind[c])

(* Paths are joined in ascending order. *)
OrderInv ==
  \A c \in Caller :
    pc[c] = "acquiring" =>
      /\ at[c] \in Path
      /\ \A p \in Joined(c) : p <= at[c]
      /\ \A q \in todo[c] : at[c] < q

IInv == TypeOK /\ TailInv /\ WaitInv /\ LineInv /\ OrderInv

-----------------------------------------------------------------------------
LEMMA InitIInv == Init => IInv
<1> SUFFICES ASSUME Init PROVE IInv
  OBVIOUS
<1>1. TypeOK /\ TailInv /\ WaitInv /\ OrderInv
  BY PathAssumption, NoneAssumption
     DEF Init, TypeOK, TailInv, WaitInv, OrderInv, Joined, NoPath
<1>2. Lined([p \in Path |-> {}])
  BY DEF Init, Lined, Joined, Owns
<1>3. [p \in Path |-> {}] \in Arrivals
  BY DEF Arrivals
<1> QED
  BY <1>1, <1>2, <1>3 DEF IInv, LineInv

(* A call joins a chain it has not joined before: what Call and Proceed    *)
(* share.                                                                  *)
LEMMA JoinStep ==
  ASSUME IInv, NEW c \in Caller, NEW p \in Path, NEW R \in SUBSET Path,
         behind[c] = None,
         need' \in [Caller -> SUBSET Path],
         \A d \in Caller \ {c} : need'[d] = need[d],
         p \in need'[c], p \notin R, R \subseteq need'[c],
         \A q \in R : p < q,
         \A q \in need'[c] \ (R \cup {p}) : q <= p,
         Joined(c) = need'[c] \ (R \cup {p}),
         Join(c, p, R)
  PROVE  IInv'
<1> USE PathAssumption, NoneAssumption
<1>1. TypeOK'
  BY DEF IInv, TypeOK, Join, NoPath
<1>2. /\ p \notin Joined(c)
      /\ Joined(c)' = Joined(c) \cup {p}
      /\ \A d \in Caller \ {c} : Joined(d)' = Joined(d)
  BY DEF IInv, TypeOK, Join, Joined
<1>3. /\ \A q \in Path : tail'[q] = IF q = p THEN c ELSE tail[q]
      /\ \A d \in Caller :
           /\ behind'[d] = IF d = c THEN tail[p] ELSE behind[d]
           /\ at'[d] = IF d = c THEN p ELSE at[d]
  BY DEF Join, IInv, TypeOK
<1>4. tail[p] # c
  BY <1>2 DEF IInv, TailInv, TypeOK
<1>5. TailInv'
  BY <1>2, <1>3 DEF IInv, TypeOK, TailInv
<1>6. WaitInv'
  BY <1>2, <1>3, <1>4 DEF IInv, TypeOK, TailInv, WaitInv
<1>7. /\ Owns(c, p)' => \A d \in Caller : p \notin Joined(d)
      /\ \A q \in Path \ {p} : Owns(c, q)' => Owns(c, q)
      /\ \A d \in Caller \ {c} : \A q \in Path : Owns(d, q)' => Owns(d, q)
  BY <1>2, <1>3 DEF Owns, IInv, TypeOK, TailInv
<1>8. LineInv'
  <2>1. PICK A \in Arrivals : Lined(A)
    BY DEF IInv, LineInv
  <2>2. PICK B \in Arrivals :
          B = [A EXCEPT ![p] =
                 {a \in A[p] : a[1] # c /\ a[2] # c}
                   \cup {a \in Caller \X Caller : a[1] # c /\ a[2] = c}]
    BY DEF Arrivals
  <2>3. /\ \A q \in Path \ {p} : B[q] = A[q]
        /\ \A d, e \in Caller :
             <<d, e>> \in B[p] <=>
               \/ d # c /\ e # c /\ <<d, e>> \in A[p]
               \/ d # c /\ e = c
    BY <2>2 DEF Arrivals
  <2>4. ASSUME NEW q \in Path, NEW d \in Caller, NEW e \in Caller, d # e,
               (q \in Joined(d))', (q \in Joined(e))'
        PROVE  <<d, e>> \in B[q] <=> <<e, d>> \notin B[q]
    BY <2>1, <2>3, <2>4, <1>2 DEF Lined
  <2>5. ASSUME NEW q \in Path, NEW d \in Caller, (q \in Joined(d))',
               d # tail'[q]
        PROVE  <<d, tail'[q]>> \in B[q]
    BY <2>1, <2>3, <2>5, <1>2, <1>3 DEF Lined
  <2>6. ASSUME NEW q \in Path, NEW d \in Caller, NEW e \in Caller,
               Owns(d, q)', (q \in Joined(e))', d # e
        PROVE  <<d, e>> \in B[q]
    <3>1. CASE d = c /\ q = p
      BY <3>1, <2>6, <1>2, <1>7
    <3>2. CASE d = c /\ q # p
      BY <3>2, <2>1, <2>3, <2>6, <1>2, <1>7 DEF Lined
    <3>3. CASE d # c
      BY <3>3, <2>1, <2>3, <2>6, <1>2, <1>7 DEF Lined
    <3> QED
      BY <3>1, <3>2, <3>3
  <2>7. ASSUME NEW d \in Caller, NEW e \in Caller, behind'[d] # None
        PROVE  /\ <<behind'[d], d>> \in B[at'[d]]
               /\ ((at[d] \in Joined(e))' /\ e # d /\ e # behind'[d])
                    => \/ <<e, behind'[d]>> \in B[at'[d]]
                       \/ <<d, e>> \in B[at'[d]]
    <3>1. CASE d = c
      BY <3>1, <2>1, <2>3, <2>7, <1>2, <1>3, <1>4 DEF Lined, IInv, TypeOK
    <3>2. CASE d # c
      <4>1. behind[d] # None /\ behind'[d] = behind[d] /\ at'[d] = at[d]
        BY <3>2, <2>7, <1>3
      <4>2. /\ at[d] \in Path /\ behind[d] \in Caller
            /\ at[d] \in Joined(d) /\ at[d] \in Joined(behind[d])
            /\ (at[d] = p => behind[d] # c)
        BY <4>1, <1>2 DEF IInv, TypeOK, WaitInv, Joined
      <4>3. <<behind[d], d>> \in B[at[d]]
        BY <4>1, <4>2, <3>2, <2>1, <2>3 DEF Lined
      <4>4. ASSUME (at[d] \in Joined(e))', e # d, e # behind[d]
            PROVE  <<e, behind[d]>> \in B[at[d]] \/ <<d, e>> \in B[at[d]]
        <5>1. (at[d] \in Joined(e))' <=>
                (at[d] \in Joined(e) \/ (e = c /\ at[d] = p))
          BY <4>1, <1>2
        <5>2. CASE e = c /\ at[d] = p
          BY <5>2, <3>2, <2>3
        <5>3. CASE at[d] \in Joined(e) /\ ~(e = c /\ at[d] = p)
          BY <5>3, <4>1, <4>2, <4>4, <3>2, <2>1, <2>3 DEF Lined
        <5> QED
          BY <5>1, <5>2, <5>3, <4>4
      <4> QED
        BY <4>1, <4>3, <4>4
    <3> QED
      BY <3>1, <3>2
  <2>8. Lined(B)'
    BY <2>4, <2>5, <2>6, <2>7 DEF Lined
  <2> QED
    BY <2>8 DEF LineInv, Arrivals
<1>9. OrderInv'
  <2> SUFFICES ASSUME NEW d \in Caller, pc'[d] = "acquiring"
               PROVE  /\ at'[d] \in Path
                      /\ \A q \in Joined(d)' : q <= at'[d]
                      /\ \A q \in todo'[d] : at'[d] < q
    BY DEF OrderInv
  <2>1. CASE d = c
    <3>1. at'[d] = p /\ todo'[d] = R
      BY <2>1, <1>3 DEF Join, IInv, TypeOK
    <3>2. \A q \in Joined(d)' : q <= p
      BY <2>1, <1>2
    <3> QED
      BY <3>1, <3>2
  <2>2. CASE d # c
    <3>1. /\ at'[d] = at[d] /\ todo'[d] = todo[d] /\ pc[d] = "acquiring"
          /\ Joined(d)' = Joined(d)
      BY <2>2, <1>2, <1>3 DEF Join, IInv, TypeOK
    <3> QED
      BY <3>1 DEF IInv, OrderInv
  <2> QED
    BY <2>1, <2>2
<1> QED
  BY <1>1, <1>5, <1>6, <1>8, <1>9 DEF IInv

(* The last await is over: nothing of the chains changes. *)
LEMMA StartStep ==
  ASSUME IInv, NEW c \in Caller, behind[c] = None, todo[c] = {},
         pc[c] = "acquiring", UNCHANGED need, Start(c)
  PROVE  IInv'
<1>1. TypeOK'
  BY DEF IInv, TypeOK, Start
<1>2. TailInv' /\ WaitInv' /\ LineInv'
  BY DEF IInv, TailInv, WaitInv, LineInv, Lined, Owns, Joined, Start, Arrivals
<1>3. OrderInv'
  BY DEF IInv, OrderInv, Joined, Start, TypeOK
<1> QED
  BY <1>1, <1>2, <1>3 DEF IInv

LEMMA CallStep ==
  ASSUME IInv, NEW c \in Caller, NEW P \in SUBSET Path, Call(c, P)
  PROVE  IInv'
<1>1. PICK p \in P : IsNext(p, P) /\ Join(c, p, P \ {p})
  BY DEF Call
<1>2. /\ behind[c] = None
      /\ need[c] = {}
      /\ need' = [need EXCEPT ![c] = P]
  BY DEF Call, IInv, TypeOK
<1>3. \A q \in P \ {p} : p < q
  BY <1>1, PathAssumption DEF IsNext
<1>4. Joined(c) = {} /\ need'[c] = P
  BY <1>2 DEF Joined, IInv, TypeOK
<1>5. need' \in [Caller -> SUBSET Path]
      /\ \A d \in Caller \ {c} : need'[d] = need[d]
  BY <1>2 DEF IInv, TypeOK
<1> QED
  BY <1>1, <1>2, <1>3, <1>4, <1>5, JoinStep

LEMMA ProceedStep ==
  ASSUME IInv, NEW c \in Caller, Proceed(c)
  PROVE  IInv'
<1>1. pc[c] = "acquiring" /\ behind[c] = None /\ need' = need
  BY DEF Proceed, Resolved
<1>2. ASSUME NEW p \in todo[c], IsNext(p, todo[c]), Join(c, p, todo[c] \ {p})
      PROVE  IInv'
  <2>1. p \in Path /\ todo[c] \in SUBSET Path /\ todo[c] \subseteq need[c]
    BY <1>2 DEF IInv, TypeOK
  <2>2. \A q \in todo[c] \ {p} : p < q
    <3> SUFFICES ASSUME NEW q \in todo[c] \ {p} PROVE p < q
      OBVIOUS
    <3>1. p \in Nat /\ q \in Nat /\ p <= q
      BY <1>2, <2>1, PathAssumption DEF IsNext
    <3> QED
      BY <3>1
  <2>3. \A q \in Joined(c) : q <= p
    <3> SUFFICES ASSUME NEW q \in Joined(c) PROVE q <= p
      OBVIOUS
    <3>1. q <= at[c] /\ at[c] < p /\ at[c] \in Path
      BY <1>1, <1>2 DEF IInv, OrderInv
    <3>2. q \in Path
      BY DEF IInv, TypeOK, Joined
    <3>3. p \in Nat /\ q \in Nat /\ at[c] \in Nat
      BY <3>1, <3>2, <2>1, PathAssumption
    <3> QED
      BY <3>1, <3>3
  <2>4. Joined(c) = need'[c] \ ((todo[c] \ {p}) \cup {p})
    BY <1>1, <2>1 DEF Joined
  <2>5. need' \in [Caller -> SUBSET Path]
    BY <1>1 DEF IInv, TypeOK
  <2> QED
    BY <1>1, <1>2, <2>1, <2>2, <2>3, <2>4, <2>5, JoinStep
<1>3. CASE todo[c] = {} /\ Start(c)
  BY <1>1, <1>3, StartStep
<1> QED
  BY <1>2, <1>3 DEF Proceed

(* The owner leaves; the call right behind it, if any, becomes the owner.  *)
LEMMA ReleaseStep ==
  ASSUME IInv, NEW c \in Caller, Release(c)
  PROVE  IInv'
<1> USE PathAssumption, NoneAssumption
<1>1. TypeOK'
  BY DEF IInv, TypeOK, Release, NoPath
<1>2. /\ Joined(c)' = {}
      /\ \A d \in Caller \ {c} : Joined(d)' = Joined(d)
      /\ \A d \in Caller \ {c} : at'[d] = at[d]
      /\ \A d \in Caller : behind'[d] =
            IF behind[d] = c THEN None ELSE behind[d]
      /\ \A p \in Path : tail'[p] =
            IF p \in Joined(c) /\ tail[p] = c THEN None ELSE tail[p]
      /\ behind[c] = None
      /\ pc[c] = "inside" /\ todo[c] = {}
  BY DEF IInv, TypeOK, Release, Joined, LastOf
<1>3. \A p \in Joined(c) : Owns(c, p)
  BY <1>2 DEF Owns
<1>4. PICK A \in Arrivals : Lined(A)
  BY DEF IInv, LineInv
<1>5. ASSUME NEW p \in Path, tail[p] = c, NEW d \in Caller \ {c}
      PROVE  p \notin Joined(d)
  <2>1. p \in Joined(c)
    BY <1>5 DEF IInv, TailInv
  <2> QED
    BY <2>1, <1>3, <1>4, <1>5 DEF Lined
<1>6. TailInv'
  BY <1>2, <1>5 DEF IInv, TypeOK, TailInv
<1>7. WaitInv'
  BY <1>2 DEF IInv, TypeOK, TailInv, WaitInv
<1>8. Lined(A)'
  <2>1. ASSUME NEW q \in Path, NEW d \in Caller, NEW e \in Caller, d # e,
               (q \in Joined(d))', (q \in Joined(e))'
        PROVE  <<d, e>> \in A[q] <=> <<e, d>> \notin A[q]
    BY <2>1, <1>2, <1>4 DEF Lined
  <2>2. ASSUME NEW q \in Path, NEW d \in Caller, (q \in Joined(d))',
               d # tail'[q]
        PROVE  <<d, tail'[q]>> \in A[q]
    BY <2>2, <1>2, <1>4, <1>5 DEF Lined
  <2>3. ASSUME NEW q \in Path, NEW d \in Caller, NEW e \in Caller,
               Owns(d, q)', (q \in Joined(e))', d # e
        PROVE  <<d, e>> \in A[q]
    <3>1. d # c /\ e # c /\ q \in Joined(d) /\ q \in Joined(e)
      BY <2>3, <1>2 DEF Owns
    <3>2. CASE Owns(d, q)
      BY <3>1, <3>2, <2>3, <1>4 DEF Lined
    <3>3. CASE ~Owns(d, q)
      <4>1. at[d] = q /\ behind[d] = c
        BY <3>1, <3>3, <2>3, <1>2 DEF Owns
      <4>2. Owns(c, q)
        BY <4>1, <1>3 DEF IInv, WaitInv
      <4>3. <<c, e>> \in A[q] /\ <<e, c>> \notin A[q]
        BY <4>2, <3>1, <1>4 DEF Lined, Owns
      <4> QED
        BY <4>1, <4>3, <3>1, <2>3, <1>4 DEF Lined
    <3> QED
      BY <3>2, <3>3
  <2>4. ASSUME NEW d \in Caller, NEW e \in Caller, behind'[d] # None
        PROVE  /\ <<behind'[d], d>> \in A[at'[d]]
               /\ ((at[d] \in Joined(e))' /\ e # d /\ e # behind'[d])
                    => \/ <<e, behind'[d]>> \in A[at'[d]]
                       \/ <<d, e>> \in A[at'[d]]
    <3>1. d # c /\ behind[d] # None /\ behind'[d] = behind[d] /\ at'[d] = at[d]
      BY <2>4, <1>2
    <3>2. (at[d] \in Joined(e))' => at[d] \in Joined(e)
      BY <3>1, <1>2
    <3> QED
      BY <3>1, <3>2, <1>4 DEF Lined
  <2> QED
    BY <2>1, <2>2, <2>3, <2>4 DEF Lined
<1>9. LineInv'
  BY <1>8 DEF LineInv, Arrivals
<1>10. OrderInv'
  BY <1>2 DEF IInv, TypeOK, OrderInv, Release, Joined
<1> QED
  BY <1>1, <1>6, <1>7, <1>9, <1>10 DEF IInv

LEMMA NextIInv == IInv /\ [Next]_vars => IInv'
<1> SUFFICES ASSUME IInv, [Next]_vars PROVE IInv'
  OBVIOUS
<1>1. ASSUME NEW c \in Caller, NEW P \in SUBSET Path, Call(c, P)
      PROVE  IInv'
  BY <1>1, CallStep
<1>2. ASSUME NEW c \in Caller, Proceed(c) PROVE IInv'
  BY <1>2, ProceedStep
<1>3. ASSUME NEW c \in Caller, Release(c) PROVE IInv'
  BY <1>3, ReleaseStep
<1>4. CASE UNCHANGED vars
  BY <1>4 DEF vars, IInv, TypeOK, TailInv, WaitInv, LineInv, Lined, Arrivals,
              OrderInv, Joined, Owns
<1> QED
  BY <1>1, <1>2, <1>3, <1>4 DEF Next

(* The inductive invariant holds in every behaviour of the gate. *)
THEOREM GateInvariant == Spec => []IInv
BY InitIInv, NextIInv, PTL DEF Spec

LEMMA IInvImplies ==
  IInv => TypeOK /\ MutualExclusion /\ NoLeakedEntry /\ WaitsUpward
<1> SUFFICES ASSUME IInv
             PROVE  TypeOK /\ MutualExclusion /\ NoLeakedEntry /\ WaitsUpward
  OBVIOUS
<1>1. PICK A \in Arrivals : Lined(A)
  BY DEF IInv, LineInv
<1>2. MutualExclusion
  <2> SUFFICES ASSUME NEW c \in Caller, NEW d \in Caller, c # d,
                      pc[c] = "inside", pc[d] = "inside",
                      NEW p \in need[c], p \in need[d]
               PROVE  FALSE
    BY DEF MutualExclusion
  <2>1. Owns(c, p) /\ Owns(d, p) /\ p \in Path
    BY DEF Owns, Joined, IInv, TypeOK
  <2> QED
    BY <2>1, <1>1 DEF Lined, Owns
<1>3. NoLeakedEntry
  BY DEF IInv, TypeOK, TailInv, NoLeakedEntry
<1>4. WaitsUpward
  BY DEF IInv, TypeOK, WaitInv, OrderInv, WaitsUpward
<1> QED
  BY <1>2, <1>3, <1>4 DEF IInv

(* The state of the gate is always well formed (write-gate.ts). *)
THEOREM GateTypeOK == Spec => []TypeOK
BY GateInvariant, IInvImplies, PTL

(* Two bodies never run together on a common path, whatever paths they     *)
(* name and however many callers there are (WriteGate.withLock).           *)
THEOREM GateMutualExclusion == Spec => []MutualExclusion
BY GateInvariant, IInvImplies, PTL

(* The chains map never leaks an entry nor loses one (the deletion guard   *)
(* in the release closure of WriteGate.acquire).                           *)
THEOREM GateNoLeakedEntry == Spec => []NoLeakedEntry
BY GateInvariant, IInvImplies, PTL

(* A waiting call waits at a path at or above everything it holds, behind  *)
(* a call of the same chain (the sort in WriteGate.withLock).              *)
THEOREM GateWaitsUpward == Spec => []WaitsUpward
BY GateInvariant, IInvImplies, PTL

-----------------------------------------------------------------------------
LEMMA PrimedImplies == IInv' => MutualExclusion'
BY IInvImplies, PTL

LEMMA InitRefines == Init => Locks!Init
BY DEF Init, Locks!Init, status

LEMMA StepRefines == IInv /\ IInv' /\ [Next]_vars => [Locks!Next]_(Locks!vars)
<1> SUFFICES ASSUME IInv, IInv', [Next]_vars
             PROVE  [Locks!Next]_(Locks!vars)
  OBVIOUS
<1>1. ASSUME NEW c \in Caller, NEW P \in SUBSET Path, Call(c, P)
      PROVE  Locks!Request(c, P)
  <2>1. PICK p \in P : Join(c, p, P \ {p})
    BY <1>1 DEF Call
  <2>2. pc[c] = "idle" /\ pc' = [pc EXCEPT ![c] = "acquiring"]
    BY <1>1, <2>1 DEF Call, Join
  <2>3. status[c] = "idle" /\ status' = [status EXCEPT ![c] = "waiting"]
    BY <2>2 DEF status, IInv, TypeOK
  <2> QED
    BY <1>1, <2>3 DEF Call, Locks!Request
<1>2. ASSUME NEW c \in Caller, Proceed(c), pc'[c] = "inside"
      PROVE  Locks!Enter(c)
  <2>1. Start(c) /\ need' = need /\ pc[c] = "acquiring"
    BY <1>2 DEF Proceed, Join, IInv, TypeOK
  <2>2. /\ status[c] = "waiting"
        /\ status' = [status EXCEPT ![c] = "inside"]
    BY <2>1 DEF Start, status, IInv, TypeOK
  <2>3. ASSUME NEW d \in Caller, status[d] = "inside"
        PROVE  need[d] \cap need[c] = {}
    <3>1. pc[d] = "inside" /\ d # c
      BY <2>1, <2>3 DEF status
    <3>2. pc'[d] = "inside"
      BY <3>1, <2>1 DEF Start, IInv, TypeOK
    <3>3. (need[d] \cap need[c] = {})'
      BY <3>1, <3>2, <1>2, PrimedImplies DEF MutualExclusion
    <3> QED
      BY <3>3, <2>1
  <2> QED
    BY <2>1, <2>2, <2>3 DEF Locks!Enter
<1>3. ASSUME NEW c \in Caller, Proceed(c), pc'[c] # "inside"
      PROVE  UNCHANGED Locks!vars
  BY <1>3 DEF Proceed, Join, Start, Locks!vars, status, IInv, TypeOK
<1>4. ASSUME NEW c \in Caller, Release(c)
      PROVE  Locks!Leave(c)
  BY <1>4 DEF Release, Locks!Leave, status, IInv, TypeOK
<1>5. CASE UNCHANGED vars
  BY <1>5 DEF vars, Locks!vars, status
<1> QED
  BY <1>1, <1>2, <1>3, <1>4, <1>5 DEF Next, Locks!Next

(* The promise chains implement the abstract lock that Transaction is      *)
(* built on (its safety part; fairness is model-checked).                  *)
THEOREM GateImplementsPathLocks == Spec => Locks!Safety
<1>1. Spec => []IInv
  BY GateInvariant
<1>2. Init => Locks!Init
  BY InitRefines
<1> QED
  BY <1>1, <1>2, StepRefines, PTL DEF Spec, Locks!Safety
=============================================================================
