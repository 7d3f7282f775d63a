-------------------------- MODULE SdeFenceProofs ---------------------------
(***************************************************************************)
(* Proofs about SdeFence, for any number of fences, any offsets, and       *)
(* counters of any width that holds the bounds (FenceConstants).           *)
(***************************************************************************)
EXTENDS SdeFence, FiniteSetTheorems, TLAPS

-----------------------------------------------------------------------------
(* The inductive invariant.                                                *)

Listed(f) == f \in list \/ \E t \in Threads : f \in local[t]

\* no fence is on two lists, and a trigger's cursor is on its own list
ListsDisjoint ==
    /\ \A t \in Threads : local[t] \cap list = {}
    /\ \A t, u \in Threads : t # u => local[t] \cap local[u] = {}
    /\ \A t \in Threads : pc[t] \in {"put", "moveback"} => cur[t] \in local[t]
    /\ \A t \in Threads : pc[t] \in {"idle", "create", "trigger"} => local[t] = {}

\* a reference for the list, one for the fd; a live fence is always listed
RefsExact ==
    /\ \A f \in Fences :
         /\ fence[f].phase = "free" => fence[f] = FreeFence /\ ~Listed(f)
         /\ fence[f].phase = "live" => Listed(f)
         /\ fence[f].refs = (IF Listed(f) THEN 1 ELSE 0) + (IF fence[f].fd THEN 1 ELSE 0)
         /\ fence[f].phase # "free" => fence[f].refs > 0
    /\ \A t \in Threads : pc[t] = "put" => fence[cur[t]].phase = "signaled"

\* the counters and the points of the live fences are close to each other
Close ==
    /\ Diff(commit_count, done_count) \in 0 .. MaxLag
    /\ pc["ioctl"] = "create" => Diff(seqno, commit_count) \in Offsets
    /\ \A f \in Fences : fence[f].phase = "live" =>
         Diff(commit_count, fence[f].seqno) \in (-MaxOffset) .. MaxAge

IInv == TypeOK /\ ListsDisjoint /\ RefsExact /\ Close
-----------------------------------------------------------------------------
(* Arithmetic of the wrapping counters.                                    *)

\* Add stays within the counter's range.
LEMMA AddType ==
    ASSUME NEW a \in Counter, NEW n \in 0 .. Half
    PROVE  Add(a, n) \in Counter
BY FenceConstants DEF Add, Counter, Modulus

\* The signed difference of two counters.
LEMMA DiffType ==
    ASSUME NEW a \in Counter, NEW b \in Counter
    PROVE  Diff(a, b) \in (-Half) .. (Half - 1)
BY FenceConstants DEF Diff, Counter, Modulus

\* Incrementing the first operand increments the difference, unless it overflows.
LEMMA DiffAddLeft ==
    ASSUME NEW a \in Counter, NEW b \in Counter, NEW n \in 0 .. Half,
           Diff(a, b) + n < Half
    PROVE  Diff(Add(a, n), b) = Diff(a, b) + n
BY FenceConstants DEF Diff, Add, Counter, Modulus

\* The difference is antisymmetric, except at its least value.
LEMMA DiffSwap ==
    ASSUME NEW a \in Counter, NEW b \in Counter, Diff(a, b) > -Half
    PROVE  Diff(b, a) = - Diff(a, b)
BY FenceConstants DEF Diff, Counter, Modulus

\* Differences add up while the sum is in range.
LEMMA DiffTriangle ==
    ASSUME NEW a \in Counter, NEW b \in Counter, NEW c \in Counter,
           Diff(a, b) + Diff(b, c) < Half, Diff(a, b) + Diff(b, c) >= -Half
    PROVE  Diff(a, c) = Diff(a, b) + Diff(b, c)
BY FenceConstants DEF Diff, Counter, Modulus

\* A counter differs from itself by nothing.
LEMMA DiffSelf ==
    ASSUME NEW a \in Counter
    PROVE  Diff(a, a) = 0
BY FenceConstants DEF Diff, Counter, Modulus
-----------------------------------------------------------------------------
(* Every step preserves the inductive invariant, part by part.             *)

\* Types: the reference count stays in range because RefsExact holds.
LEMMA TypeStep ==
    IInv /\ [Next]_vars => TypeOK'
<1> SUFFICES ASSUME IInv, [Next]_vars PROVE TypeOK'
  OBVIOUS
<1> USE DEF IInv
<1>0. /\ 0 \in Counter /\ 1 \in 0 .. Half
      /\ \A offset \in Offsets : offset \in 0 .. Half
      /\ Errors \subseteq BOOLEAN /\ {TRUE, FALSE} \subseteq BOOLEAN
  BY FenceConstants DEF Counter, Modulus
<1>1. CASE sde_fence_prepare
  <2>1. commit_count' \in Counter
    BY <1>0, <1>1, AddType DEF sde_fence_prepare, TypeOK
  <2> QED
    BY <1>1, <2>1 DEF sde_fence_prepare, TypeOK
<1>2. ASSUME NEW offset \in Offsets, sde_fence_create(offset) PROVE TypeOK'
  <2>1. seqno' \in Counter
    BY <1>0, <1>2, AddType DEF sde_fence_create, TypeOK
  <2> QED
    BY <1>2, <2>1 DEF sde_fence_create, TypeOK, ctxvars
<1>3. ASSUME NEW f \in Fences, _sde_fence_create_fd(f) PROVE TypeOK'
  <2>1. [phase |-> "live", seqno |-> seqno, error |-> FALSE, fd |-> TRUE, refs |-> 2]
          \in FenceType
    BY DEF TypeOK, FenceType
  <2>2. fence' \in [Fences -> FenceType]
    BY <1>3, <2>1 DEF _sde_fence_create_fd, TypeOK
  <2>3. err' \in [Threads -> BOOLEAN]
    BY <1>0, <1>3, Zenon DEF _sde_fence_create_fd, TypeOK
  <2> QED
    BY <1>0, <1>3, <2>2, <2>3 DEF _sde_fence_create_fd, TypeOK, ctxvars
<1>4. CASE sde_fence_create_fails
  BY <1>0, <1>4 DEF sde_fence_create_fails, TypeOK, ctxvars
<1>5. ASSUME NEW error \in Errors, sde_fence_signal(error) PROVE TypeOK'
  <2>1. done_count' \in Counter
    BY <1>0, <1>5, AddType DEF sde_fence_signal, TypeOK
  <2>2. err' \in [Threads -> BOOLEAN]
    BY <1>0, <1>5, Zenon DEF sde_fence_signal, TypeOK
  <2> QED
    BY <1>5, <2>1, <2>2 DEF sde_fence_signal, TypeOK
<1>6. CASE sde_fence_reset_timeline
  BY <1>0, <1>6 DEF sde_fence_reset_timeline, TypeOK
<1>7. ASSUME NEW t \in Threads, TriggerTake(t) PROVE TypeOK'
  BY <1>7 DEF TriggerTake, TypeOK, ctxvars
<1>8. ASSUME NEW t \in Threads, TriggerEmpty(t) PROVE TypeOK'
  BY <1>8 DEF TriggerEmpty, TypeOK, ctxvars
<1>9. ASSUME NEW t \in Threads, NEW f \in Fences, TriggerCheck(t, f) PROVE TypeOK'
  <2>1. fence[f] \in FenceType /\ err[t] \in BOOLEAN
    BY DEF TypeOK
  <2>2. ASSUME NEW p \in {"free", "live", "signaled"}
        PROVE  [fence[f] EXCEPT !.error = err[t], !.phase = p] \in FenceType
    BY <2>1, Zenon DEF FenceType
  <2>3. PICK p \in {"free", "live", "signaled"} :
          fence' = [fence EXCEPT ![f] = [fence[f] EXCEPT !.error = err[t], !.phase = p]]
    <3> DEFINE p == IF fence[f].phase = "signaled" \/ sde_fence_signaled(fence[f].seqno)
                    THEN "signaled" ELSE fence[f].phase
    <3>1. p \in {"free", "live", "signaled"}
      BY <2>1 DEF FenceType
    <3>2. fence' = [fence EXCEPT ![f] = [fence[f] EXCEPT !.error = err[t], !.phase = p]]
      BY <1>9, Zenon DEF TriggerCheck
    <3> QED
      BY <3>1, <3>2, Zenon
  <2>4. fence' \in [Fences -> FenceType]
    BY <2>2, <2>3, Zenon DEF TypeOK
  <2> QED
    BY <1>9, <2>4 DEF TriggerCheck, TypeOK, ctxvars
<1>10. ASSUME NEW t \in Threads, TriggerPut(t) PROVE TypeOK'
  <2>1. /\ cur[t] \in Fences
        /\ fence[cur[t]] \in FenceType /\ fence[cur[t]].refs > 0
    BY <1>10 DEF TriggerPut, TypeOK, ListsDisjoint, RefsExact, Listed, FenceType
  <2>2. Put(fence[cur[t]]) \in FenceType
    BY <1>0, <2>1 DEF Put, FenceType, FreeFence
  <2>3. fence' \in [Fences -> FenceType]
    BY <1>10, <2>1, <2>2 DEF TriggerPut, TypeOK
  <2>4. ctxRefs' \in Int
    BY <1>10 DEF TriggerPut, CtxRefsAfterPut, TypeOK
  <2>5. err' \in [Threads -> BOOLEAN]
    BY <1>10 DEF TriggerPut, Advance, TypeOK
  <2> QED
    BY <1>10, <2>3, <2>4, <2>5 DEF TriggerPut, Advance, TypeOK, ctxvars
<1>11. ASSUME NEW t \in Threads, TriggerMoveBack(t) PROVE TypeOK'
  <2>1. cur[t] \in Fences
    BY <1>11 DEF TriggerMoveBack, TypeOK, ListsDisjoint
  <2>2. err' \in [Threads -> BOOLEAN]
    BY <1>11 DEF TriggerMoveBack, Advance, TypeOK
  <2> QED
    BY <1>11, <2>1, <2>2 DEF TriggerMoveBack, Advance, TypeOK, ctxvars
<1>12. ASSUME NEW f \in Fences, sde_sync_wait(f) PROVE TypeOK'
  <2>1. fence' \in [Fences -> FenceType]
    BY <1>12 DEF sde_sync_wait, TypeOK, FenceType
  <2> QED
    BY <1>12, <2>1 DEF sde_sync_wait, TypeOK, ctxvars
<1>13. ASSUME NEW f \in Fences, sde_sync_put(f) PROVE TypeOK'
  <2>1. fence[f] \in FenceType /\ fence[f].refs > 0
    BY <1>13 DEF sde_sync_put, TypeOK, RefsExact, FenceType
  <2> DEFINE closed == [fence[f] EXCEPT !.fd = FALSE]
  <2>5. closed \in FenceType /\ closed.refs = fence[f].refs
    BY <2>1 DEF FenceType
  <2>2. Put(closed) \in FenceType
    <3> HIDE DEF closed
    <3> QED BY <1>0, <2>1, <2>5 DEF Put, FenceType, FreeFence
  <2>3. fence' \in [Fences -> FenceType]
    BY <1>13, <2>2 DEF sde_sync_put, TypeOK
  <2>4. ctxRefs' \in Int
    BY <1>13 DEF sde_sync_put, CtxRefsAfterPut, TypeOK
  <2> QED
    BY <1>13, <2>3, <2>4 DEF sde_sync_put, TypeOK, ctxvars
<1>14. CASE sde_fence_deinit
  <2>1. owner' \in BOOLEAN
    BY <1>14 DEF sde_fence_deinit
  <2> QED
    BY <1>14, <2>1 DEF sde_fence_deinit, TypeOK, ctxvars
<1>15. CASE UNCHANGED vars
  BY <1>15 DEF vars, TypeOK
<1> QED
  BY <1>1, <1>2, <1>3, <1>4, <1>5, <1>6, <1>7, <1>8, <1>9, <1>10, <1>11, <1>12, <1>13,
       <1>14, <1>15 DEF Next, Create, Trigger

\* The lists stay disjoint.
LEMMA ListsStep ==
    IInv /\ [Next]_vars => ListsDisjoint'
<1> SUFFICES ASSUME IInv, [Next]_vars PROVE ListsDisjoint'
  OBVIOUS
<1> USE FenceConstants DEF IInv
<1>1. CASE sde_fence_prepare
  BY <1>1 DEF sde_fence_prepare, ctxvars, TypeOK, ListsDisjoint, RefsExact, Listed,
       Threads, NoFence
<1>2. ASSUME NEW offset \in Offsets, sde_fence_create(offset) PROVE ListsDisjoint'
  BY <1>2 DEF sde_fence_create, ctxvars, TypeOK, ListsDisjoint, RefsExact, Listed,
       Threads, NoFence
<1>3. ASSUME NEW f \in Fences, _sde_fence_create_fd(f) PROVE ListsDisjoint'
  BY <1>3 DEF _sde_fence_create_fd, ctxvars, TypeOK, ListsDisjoint, RefsExact, Listed,
       Threads, NoFence
<1>4. CASE sde_fence_create_fails
  BY <1>4 DEF sde_fence_create_fails, ctxvars, TypeOK, ListsDisjoint, RefsExact,
       Listed, Threads, NoFence
<1>5. ASSUME NEW error \in Errors, sde_fence_signal(error) PROVE ListsDisjoint'
  BY <1>5 DEF sde_fence_signal, ctxvars, TypeOK, ListsDisjoint, RefsExact, Listed,
       Threads, NoFence
<1>6. CASE sde_fence_reset_timeline
  BY <1>6 DEF sde_fence_reset_timeline, ctxvars, TypeOK, ListsDisjoint, RefsExact,
       Listed, Threads, NoFence
<1>7. ASSUME NEW t \in Threads, TriggerTake(t) PROVE ListsDisjoint'
  BY <1>7 DEF TriggerTake, ctxvars, TypeOK, ListsDisjoint, RefsExact, Listed, Threads,
       NoFence
<1>8. ASSUME NEW t \in Threads, TriggerEmpty(t) PROVE ListsDisjoint'
  BY <1>8 DEF TriggerEmpty, ctxvars, TypeOK, ListsDisjoint, RefsExact, Listed, Threads,
       NoFence
<1>9. ASSUME NEW t \in Threads, NEW f \in Fences, TriggerCheck(t, f) PROVE ListsDisjoint'
  BY <1>9 DEF TriggerCheck, ctxvars, TypeOK, ListsDisjoint, RefsExact, Listed, Threads,
       NoFence
<1>10. ASSUME NEW t \in Threads, TriggerPut(t) PROVE ListsDisjoint'
  BY <1>10 DEF TriggerPut, Put, Advance, ctxvars, TypeOK, ListsDisjoint, RefsExact,
       Listed, Threads, NoFence
<1>11. ASSUME NEW t \in Threads, TriggerMoveBack(t) PROVE ListsDisjoint'
  BY <1>11 DEF TriggerMoveBack, Advance, ctxvars, TypeOK, ListsDisjoint, RefsExact,
       Listed, Threads, NoFence
<1>12. ASSUME NEW f \in Fences, sde_sync_wait(f) PROVE ListsDisjoint'
  BY <1>12 DEF sde_sync_wait, ctxvars, TypeOK, ListsDisjoint, RefsExact, Listed,
       Threads, NoFence
<1>13. ASSUME NEW f \in Fences, sde_sync_put(f) PROVE ListsDisjoint'
  BY <1>13 DEF sde_sync_put, Put, ctxvars, TypeOK, ListsDisjoint, RefsExact, Listed,
       Threads, NoFence
<1>14. CASE sde_fence_deinit
  BY <1>14 DEF sde_fence_deinit, ctxvars, TypeOK, ListsDisjoint, RefsExact, Listed,
       Threads, NoFence
<1>15. CASE UNCHANGED vars
  BY <1>15 DEF vars, ctxvars, TypeOK, ListsDisjoint, RefsExact, Listed, Threads, NoFence
<1> QED
  BY <1>1, <1>2, <1>3, <1>4, <1>5, <1>6, <1>7, <1>8, <1>9, <1>10, <1>11, <1>12, <1>13,
       <1>14, <1>15 DEF Next, Create, Trigger

\* A check of a trigger changes at most the phase and the error of its fence.
LEMMA CheckEffect ==
    ASSUME TypeOK, NEW t \in Threads, NEW f \in Fences, TriggerCheck(t, f)
    PROVE  /\ \A g \in Fences \ {f} : fence'[g] = fence[g]
           /\ fence'[f].refs = fence[f].refs /\ fence'[f].fd = fence[f].fd
           /\ fence'[f].seqno = fence[f].seqno
           /\ \/ fence'[f].phase = "signaled" /\ pc'[t] = "put"
                 /\ (fence[f].phase = "signaled" \/ sde_fence_signaled(fence[f].seqno))
              \/ fence'[f].phase = fence[f].phase /\ pc'[t] = "moveback"
<1> DEFINE reached == fence[f].phase = "signaled" \/ sde_fence_signaled(fence[f].seqno)
           p == IF reached THEN "signaled" ELSE fence[f].phase
           new == [fence[f] EXCEPT !.error = err[t], !.phase = p]
<1>1. fence' = [fence EXCEPT ![f] = new] /\ pc'[t] = (IF reached THEN "put" ELSE "moveback")
  BY Zenon DEF TriggerCheck, TypeOK
<1>2. fence[f] \in FenceType
  BY DEF TypeOK
<1>3. /\ new.refs = fence[f].refs /\ new.fd = fence[f].fd /\ new.seqno = fence[f].seqno
      /\ new.phase = p
  BY <1>2 DEF FenceType
<1>4. fence'[f] = new /\ \A g \in Fences \ {f} : fence'[g] = fence[g]
  BY <1>1, Zenon DEF TypeOK
<1> QED
  BY <1>1, <1>3, <1>4

\* Dropping a reference frees the fence or changes its count alone.
LEMMA PutEffect ==
    ASSUME NEW rec \in FenceType, rec.refs > 0
    PROVE  \/ rec.refs = 1 /\ Put(rec) = FreeFence
           \/ /\ rec.refs = 2 /\ Put(rec).refs = 1 /\ Put(rec).phase = rec.phase
              /\ Put(rec).fd = rec.fd /\ Put(rec).seqno = rec.seqno
BY DEF Put, FenceType

\* References: the list's and the fd's, dropped once each.
LEMMA RefsStep ==
    IInv /\ [Next]_vars => RefsExact'
<1> SUFFICES ASSUME IInv, [Next]_vars PROVE RefsExact'
  OBVIOUS
<1> USE DEF IInv
<1>1. CASE sde_fence_prepare
  BY <1>1 DEF sde_fence_prepare, RefsExact, Listed
<1>2. ASSUME NEW offset \in Offsets, sde_fence_create(offset) PROVE RefsExact'
  BY <1>2 DEF sde_fence_create, TypeOK, RefsExact, Listed, Threads
<1>3. ASSUME NEW f \in Fences, _sde_fence_create_fd(f) PROVE RefsExact'
  BY <1>3 DEF _sde_fence_create_fd, TypeOK, ListsDisjoint, RefsExact, Listed, FreeFence,
              Threads
<1>4. CASE sde_fence_create_fails
  BY <1>4 DEF sde_fence_create_fails, TypeOK, RefsExact, Listed, Threads
<1>5. ASSUME NEW error \in Errors, sde_fence_signal(error) PROVE RefsExact'
  BY <1>5 DEF sde_fence_signal, TypeOK, RefsExact, Listed, Threads
<1>6. CASE sde_fence_reset_timeline
  BY <1>6 DEF sde_fence_reset_timeline, TypeOK, RefsExact, Listed, Threads
<1>7. ASSUME NEW t \in Threads, TriggerTake(t) PROVE RefsExact'
  BY <1>7 DEF TriggerTake, TypeOK, ListsDisjoint, RefsExact, Listed
<1>8. ASSUME NEW t \in Threads, TriggerEmpty(t) PROVE RefsExact'
  BY <1>8 DEF TriggerEmpty, TypeOK, RefsExact, Listed
<1>9. ASSUME NEW t \in Threads, NEW f \in Fences, TriggerCheck(t, f) PROVE RefsExact'
  <2>1. local' = local /\ list' = list /\ cur' = [cur EXCEPT ![t] = f] /\ f \in local[t]
        /\ \A u \in Threads \ {t} : pc'[u] = pc[u]
    BY <1>9 DEF TriggerCheck, TypeOK
  <2>2. fence[f].phase # "free"
    BY <2>1 DEF RefsExact, Listed
  <2> QED
    BY <1>9, <2>1, <2>2, CheckEffect DEF TypeOK, ListsDisjoint, RefsExact, Listed
<1>10. ASSUME NEW t \in Threads, TriggerPut(t) PROVE RefsExact'
  <2>0. PICK f \in Fences : f = cur[t]
    BY <1>10 DEF TriggerPut, TypeOK, ListsDisjoint
  <2>1. /\ pc[t] = "put" /\ f \in local[t] /\ fence[f].phase = "signaled"
        /\ fence[f] \in FenceType /\ fence[f].refs > 0
    BY <1>10, <2>0 DEF TriggerPut, TypeOK, ListsDisjoint, RefsExact
  <2>2. /\ list' = list /\ local' = [local EXCEPT ![t] = @ \ {f}]
        /\ fence' = [fence EXCEPT ![f] = Put(fence[f])]
        /\ pc'[t] # "put" /\ \A u \in Threads \ {t} : pc'[u] = pc[u] /\ cur'[u] = cur[u]
    BY <1>10, <2>0 DEF TriggerPut, Advance, TypeOK
  <2>3. ~Listed(f)' /\ Listed(f) /\ \A g \in Fences \ {f} : Listed(g)' <=> Listed(g)
    <3>1. \A u \in Threads : local'[u] = IF u = t THEN local[t] \ {f} ELSE local[u]
      BY <2>2 DEF TypeOK
    <3>2. f \notin list /\ \A u \in Threads \ {t} : f \notin local[u]
      BY <2>1 DEF ListsDisjoint
    <3> QED
      BY <2>1, <2>2, <3>1, <3>2 DEF Listed
  <2>4. fence'[f] = Put(fence[f]) /\ \A g \in Fences \ {f} : fence'[g] = fence[g]
    BY <2>1, <2>2 DEF TypeOK
  <2>5. \A u \in Threads : pc'[u] = "put" =>
          cur'[u] # f /\ cur'[u] \in Fences /\ fence[cur'[u]].phase = "signaled"
    BY <2>1, <2>2 DEF ListsDisjoint, RefsExact, TypeOK
  <2>6. \A u \in Threads : pc'[u] = "put" => fence'[cur'[u]].phase = "signaled"
    BY <2>4, <2>5
  <2>7. ASSUME NEW g \in Fences \ {f}
        PROVE  /\ fence'[g].phase = "free" => fence'[g] = FreeFence /\ ~Listed(g)'
               /\ fence'[g].phase = "live" => Listed(g)'
               /\ fence'[g].refs = (IF Listed(g)' THEN 1 ELSE 0)
                                   + (IF fence'[g].fd THEN 1 ELSE 0)
               /\ fence'[g].phase # "free" => fence'[g].refs > 0
    BY <2>3, <2>4, <2>7 DEF RefsExact
  <2>8. /\ fence'[f].phase = "free" => fence'[f] = FreeFence /\ ~Listed(f)'
        /\ fence'[f].phase = "live" => Listed(f)'
        /\ fence'[f].refs = (IF Listed(f)' THEN 1 ELSE 0) + (IF fence'[f].fd THEN 1 ELSE 0)
        /\ fence'[f].phase # "free" => fence'[f].refs > 0
    <3>1. fence[f].refs = 1 + (IF fence[f].fd THEN 1 ELSE 0)
      BY <2>1, <2>3 DEF RefsExact
    <3>2. CASE fence[f].refs = 1
      <4>1. Put(fence[f]) = FreeFence
        BY <3>2 DEF Put
      <4>2. FreeFence.phase = "free" /\ FreeFence.refs = 0 /\ ~FreeFence.fd
        BY DEF FreeFence
      <4> QED
        BY <2>3, <2>4, <4>1, <4>2
    <3>3. CASE fence[f].refs = 2
      BY <2>1, <2>3, <2>4, <3>1, <3>3, PutEffect
    <3> QED
      BY <3>1, <3>2, <3>3
  <2> QED
    BY <2>6, <2>7, <2>8 DEF RefsExact, Listed
<1>11. ASSUME NEW t \in Threads, TriggerMoveBack(t) PROVE RefsExact'
  BY <1>11 DEF TriggerMoveBack, Advance, TypeOK, ListsDisjoint, RefsExact, Listed
<1>12. ASSUME NEW f \in Fences, sde_sync_wait(f) PROVE RefsExact'
  BY <1>12 DEF sde_sync_wait, TypeOK, FenceType, ListsDisjoint, RefsExact, Listed
<1>13. ASSUME NEW f \in Fences, sde_sync_put(f) PROVE RefsExact'
  <2> DEFINE closed == [fence[f] EXCEPT !.fd = FALSE]
  <2>1. /\ fence[f] \in FenceType /\ fence[f].fd /\ fence[f].phase # "free"
        /\ fence[f].refs = (IF Listed(f) THEN 1 ELSE 0) + 1
    BY <1>13 DEF sde_sync_put, TypeOK, RefsExact, FreeFence
  <2>2. /\ closed \in FenceType /\ closed.refs = fence[f].refs
        /\ closed.phase = fence[f].phase /\ ~closed.fd
    BY <2>1 DEF FenceType
  <2>3. /\ list' = list /\ local' = local /\ pc' = pc /\ cur' = cur
        /\ fence' = [fence EXCEPT ![f] = Put(closed)]
    BY <1>13 DEF sde_sync_put
  <2> HIDE DEF closed
  <2>4. fence'[f] = Put(closed) /\ \A g \in Fences \ {f} : fence'[g] = fence[g]
    BY <2>3 DEF TypeOK
  <2>5. CASE Listed(f)
    <3>1. fence'[f].refs = 1 /\ fence'[f].phase = fence[f].phase /\ ~fence'[f].fd
      BY <2>1, <2>2, <2>4, <2>5, PutEffect
    <3> QED
      BY <2>1, <2>3, <2>4, <2>5, <3>1 DEF RefsExact, Listed, ListsDisjoint, TypeOK
  <2>6. CASE ~Listed(f)
    <3>1. fence'[f] = FreeFence
      BY <2>1, <2>2, <2>4, <2>6 DEF Put
    <3>2. FreeFence.phase = "free" /\ FreeFence.refs = 0 /\ ~FreeFence.fd
      BY DEF FreeFence
    <3>3. \A u \in Threads : pc[u] = "put" => cur[u] # f
      BY <2>6 DEF Listed, ListsDisjoint
    <3> QED
      BY <2>1, <2>3, <2>4, <2>6, <3>1, <3>2, <3>3 DEF RefsExact, Listed, ListsDisjoint,
           TypeOK
  <2> QED
    BY <2>5, <2>6
<1>14. CASE sde_fence_deinit
  BY <1>14 DEF sde_fence_deinit, RefsExact, Listed
<1>15. CASE UNCHANGED vars
  BY <1>15 DEF vars, RefsExact, Listed
<1> QED
  BY <1>1, <1>2, <1>3, <1>4, <1>5, <1>6, <1>7, <1>8, <1>9, <1>10, <1>11, <1>12, <1>13,
       <1>14, <1>15 DEF Next, Create, Trigger

\* Outside create, prepare and the counters, a step may only end a fence's life.
LEMMA CloseKept ==
    ASSUME IInv, commit_count' = commit_count, done_count' = done_count,
           pc'["ioctl"] = "create" => pc["ioctl"] = "create" /\ seqno' = seqno,
           \A f \in Fences : fence'[f].phase = "live" =>
               fence[f].phase = "live" /\ fence'[f].seqno = fence[f].seqno
    PROVE  Close'
BY DEF IInv, Close

\* The fences change as CloseKept asks when a reference is dropped.
LEMMA PutEnds ==
    ASSUME IInv, NEW f \in Fences, NEW rec \in FenceType, rec.refs > 0,
           rec.phase = fence[f].phase, rec.seqno = fence[f].seqno,
           fence' = [fence EXCEPT ![f] = Put(rec)]
    PROVE  \A g \in Fences : fence'[g].phase = "live" =>
               fence[g].phase = "live" /\ fence'[g].seqno = fence[g].seqno
<1>1. fence'[f] = Put(rec) /\ \A g \in Fences \ {f} : fence'[g] = fence[g]
  BY DEF IInv, TypeOK
<1>2. FreeFence.phase = "free"
  BY DEF FreeFence
<1> QED
  BY <1>1, <1>2, PutEffect

\* The counters and the points of live fences stay close.
LEMMA CloseStep ==
    IInv /\ [Next]_vars => Close'
<1> SUFFICES ASSUME IInv, [Next]_vars PROVE Close'
  OBVIOUS
<1> USE FenceConstants
<1>0. /\ commit_count \in Counter /\ done_count \in Counter /\ seqno \in Counter
      /\ \A f \in Fences : fence[f] \in FenceType /\ fence[f].seqno \in Counter
      /\ Diff(commit_count, done_count) \in 0 .. MaxLag
      /\ Diff(commit_count, done_count) \in Int
      /\ \A f \in Fences : fence[f].phase = "live" =>
           Diff(commit_count, fence[f].seqno) \in (-MaxOffset) .. MaxAge
  BY DEF IInv, TypeOK, Close, FenceType
<1>1. CASE sde_fence_prepare
  <2>1. Diff(commit_count', done_count) = Diff(commit_count, done_count) + 1
    BY <1>0, <1>1, DiffAddLeft DEF sde_fence_prepare
  <2>2. ASSUME NEW f \in Fences, fence[f].phase = "live"
        PROVE  Diff(commit_count', fence[f].seqno) \in (-MaxOffset) .. MaxAge
    <3>1. Diff(commit_count, fence[f].seqno) < MaxAge
      BY <1>1, <2>2 DEF sde_fence_prepare, Live
    <3>2. Diff(commit_count', fence[f].seqno) = Diff(commit_count, fence[f].seqno) + 1
      BY <1>0, <1>1, <2>2, <3>1, DiffAddLeft DEF sde_fence_prepare
    <3> QED
      BY <1>0, <2>2, <3>1, <3>2
  <2> QED
    BY <1>0, <1>1, <2>1, <2>2 DEF sde_fence_prepare, Close
<1>2. ASSUME NEW offset \in Offsets, sde_fence_create(offset) PROVE Close'
  <2>1. Diff(commit_count, commit_count) = 0
    BY <1>0, DiffSelf
  <2>2. Diff(Add(commit_count, offset), commit_count) = 0 + offset
    <3>1. offset \in 0 .. Half /\ offset \in Int /\ 0 + offset < Half
      OBVIOUS
    <3> QED
      BY <1>0, <2>1, <3>1, DiffAddLeft
  <2> QED
    BY <1>0, <1>2, <2>2 DEF sde_fence_create, Close, ctxvars, IInv, TypeOK, Threads
<1>3. ASSUME NEW f \in Fences, _sde_fence_create_fd(f) PROVE Close'
  <2>1. Diff(seqno, commit_count) \in 1 .. MaxOffset
    BY <1>3 DEF _sde_fence_create_fd, IInv, Close
  <2>2. Diff(commit_count, seqno) = - Diff(seqno, commit_count)
    BY <1>0, <2>1, DiffSwap
  <2>3. fence'[f].seqno = seqno /\ \A g \in Fences \ {f} : fence'[g] = fence[g]
    BY <1>3 DEF _sde_fence_create_fd, IInv, TypeOK
  <2>4. pc'["ioctl"] = "trigger" /\ commit_count' = commit_count /\ done_count' = done_count
    BY <1>3 DEF _sde_fence_create_fd, IInv, TypeOK, ctxvars, Threads
  <2> QED
    BY <1>0, <2>1, <2>2, <2>3, <2>4 DEF Close
<1>4. CASE sde_fence_create_fails
  BY <1>4, CloseKept DEF sde_fence_create_fails, ctxvars, IInv, TypeOK, Threads
<1>5. ASSUME NEW error \in Errors, sde_fence_signal(error) PROVE Close'
  <2>1. Diff(done_count, commit_count) = - Diff(commit_count, done_count)
    BY <1>0, DiffSwap
  <2>2. done_count' \in Counter
    BY <1>0, <1>5, AddType DEF sde_fence_signal
  <2>3. Diff(done_count', commit_count) = Diff(done_count, commit_count) + 1
    BY <1>0, <1>5, <2>1, DiffAddLeft DEF sde_fence_signal
  <2>4. Diff(commit_count, done_count') = - Diff(done_count', commit_count)
    BY <1>0, <2>1, <2>2, <2>3, DiffSwap
  <2>5. Diff(commit_count, done_count') \in 0 .. MaxLag
    BY <1>0, <1>5, <2>1, <2>3, <2>4 DEF sde_fence_signal
  <2> QED
    BY <1>5, <2>5 DEF sde_fence_signal, IInv, Close, TypeOK, Threads
<1>6. CASE sde_fence_reset_timeline
  <2>1. Diff(commit_count, done_count') = 0
    BY <1>0, <1>6, DiffSelf DEF sde_fence_reset_timeline
  <2> QED
    BY <1>6, <2>1 DEF sde_fence_reset_timeline, IInv, Close, TypeOK, Threads
<1>7. ASSUME NEW t \in Threads, TriggerTake(t) PROVE Close'
  BY <1>7, CloseKept DEF TriggerTake, ctxvars, IInv, TypeOK
<1>8. ASSUME NEW t \in Threads, TriggerEmpty(t) PROVE Close'
  BY <1>8, CloseKept DEF TriggerEmpty, ctxvars, IInv, TypeOK
<1>9. ASSUME NEW t \in Threads, NEW f \in Fences, TriggerCheck(t, f) PROVE Close'
  <2>1. /\ commit_count' = commit_count /\ done_count' = done_count /\ seqno' = seqno
        /\ pc'["ioctl"] = "create" => pc["ioctl"] = "create"
    BY <1>9 DEF TriggerCheck, ctxvars, IInv, TypeOK
  <2> QED
    BY <1>9, <2>1, CheckEffect, CloseKept DEF IInv
<1>10. ASSUME NEW t \in Threads, TriggerPut(t) PROVE Close'
  <2>1. PICK f \in Fences : f = cur[t]
    BY <1>10 DEF TriggerPut, IInv, TypeOK, ListsDisjoint
  <2>2. fence[f].refs > 0
    BY <1>10, <2>1 DEF TriggerPut, IInv, RefsExact
  <2>3. /\ commit_count' = commit_count /\ done_count' = done_count /\ seqno' = seqno
        /\ pc'["ioctl"] = "create" => pc["ioctl"] = "create"
        /\ fence' = [fence EXCEPT ![f] = Put(fence[f])]
    BY <1>10, <2>1 DEF TriggerPut, Advance, ctxvars, IInv, TypeOK
  <2> QED
    BY <1>0, <2>2, <2>3, PutEnds, CloseKept
<1>11. ASSUME NEW t \in Threads, TriggerMoveBack(t) PROVE Close'
  BY <1>11, CloseKept DEF TriggerMoveBack, Advance, ctxvars, IInv, TypeOK
<1>12. ASSUME NEW f \in Fences, sde_sync_wait(f) PROVE Close'
  BY <1>12, CloseKept DEF sde_sync_wait, ctxvars, IInv, TypeOK
<1>13. ASSUME NEW f \in Fences, sde_sync_put(f) PROVE Close'
  <2> DEFINE closed == [fence[f] EXCEPT !.fd = FALSE]
  <2>1. fence[f].refs > 0
    BY <1>0, <1>13 DEF sde_sync_put, IInv, RefsExact, FenceType
  <2>2. /\ closed \in FenceType /\ closed.refs = fence[f].refs
        /\ closed.phase = fence[f].phase /\ closed.seqno = fence[f].seqno
    BY <1>0 DEF FenceType
  <2>3. /\ commit_count' = commit_count /\ done_count' = done_count /\ seqno' = seqno
        /\ pc' = pc /\ fence' = [fence EXCEPT ![f] = Put(closed)]
    BY <1>13 DEF sde_sync_put, ctxvars
  <2> HIDE DEF closed
  <2> QED
    BY <2>1, <2>2, <2>3, PutEnds, CloseKept
<1>14. CASE sde_fence_deinit
  BY <1>14, CloseKept DEF sde_fence_deinit, ctxvars
<1>15. CASE UNCHANGED vars
  BY <1>15, CloseKept DEF vars
<1> QED
  BY <1>1, <1>2, <1>3, <1>4, <1>5, <1>6, <1>7, <1>8, <1>9, <1>10, <1>11, <1>12, <1>13,
       <1>14, <1>15 DEF Next, Create, Trigger
-----------------------------------------------------------------------------
(* Theorems.                                                               *)

\* The initial state satisfies the inductive invariant.
LEMMA InitInv == Init => IInv
<1> SUFFICES ASSUME Init PROVE IInv
  OBVIOUS
<1> USE FenceConstants DEF Init
<1>1. 0 \in Counter
  BY DEF Counter, Modulus
<1>2. TypeOK
  BY <1>1 DEF TypeOK, FreeFence, FenceType, NoFence
<1>3. ListsDisjoint /\ RefsExact
  BY DEF ListsDisjoint, RefsExact, Listed, FreeFence
<1>4. Close
  BY <1>1, DiffSelf DEF Close, FreeFence, Threads
<1> QED
  BY <1>2, <1>3, <1>4 DEF IInv

\* The inductive invariant holds in every reachable state.
THEOREM Invariance == Spec => []IInv
<1>1. IInv /\ [Next]_vars => IInv'
  BY TypeStep, ListsStep, RefsStep, CloseStep DEF IInv
<1> QED
  BY InitInv, <1>1, PTL DEF Spec

\* Counters never leave their width, records never their type, and in
\* particular no reference count of a fence leaves 0 .. 2.
THEOREM TypeCorrect == Spec => []TypeOK
BY Invariance, PTL DEF IInv

\* sde_fence_signal never lets the completed commits overtake the prepared
\* ones, over any number of wraps and however events and resets interleave.
THEOREM DoneNeverOvertakes == Spec => []DoneWithinCommits
<1>1. IInv => DoneWithinCommits
  BY DEF IInv, Close, DoneWithinCommits
<1> QED
  BY Invariance, <1>1, PTL

\* _sde_fence_trigger neither loses a fence nor lists it twice, and the
\* reference counts are exact, for every number of fences.
THEOREM OneHomeAlways == Spec => []OneHome
<1>1. ASSUME IInv PROVE OneHome
  <2> SUFFICES ASSUME NEW f \in Fences
               PROVE  /\ Cardinality(Homes(f)) <= 1
                      /\ fence[f].phase = "live" => Homes(f) # {}
                      /\ fence[f].phase = "free" => Homes(f) = {}
                      /\ fence[f].refs = (IF Homes(f) # {} THEN 1 ELSE 0)
                                           + (IF fence[f].fd THEN 1 ELSE 0)
    BY DEF OneHome
  <2>1. Listed(f) <=> Homes(f) # {}
    BY DEF Listed, Homes
  <2>2. \A x, y \in Homes(f) : x = y
    BY <1>1 DEF Homes, IInv, ListsDisjoint, Threads
  <2>3. Cardinality(Homes(f)) <= 1
    <3>1. CASE Homes(f) = {}
      BY <3>1, FS_EmptySet
    <3>2. CASE Homes(f) # {}
      <4>1. PICK x : Homes(f) = {x}
        BY <2>2, <3>2
      <4>2. Cardinality(Homes(f)) = 1
        BY <4>1, FS_Singleton, Zenon
      <4> QED
        BY <4>2
    <3> QED
      BY <3>1, <3>2
  <2> QED
    BY <1>1, <2>1, <2>3 DEF IInv, RefsExact
<1> QED
  BY Invariance, <1>1, PTL
-----------------------------------------------------------------------------
(* The context's reference count.                                          *)

\* Releasing f, or keeping it, changes the allocated fences accordingly.
LEMMA PutAllocated ==
    ASSUME IInv, NEW f \in Fences, NEW rec \in FenceType, rec.refs > 0,
           fence[f].phase # "free", rec.phase = fence[f].phase,
           fence' = [fence EXCEPT ![f] = Put(rec)]
    PROVE  Allocated' = IF rec.refs = 1 THEN Allocated \ {f} ELSE Allocated
<1>1. fence'[f] = Put(rec) /\ \A g \in Fences \ {f} : fence'[g] = fence[g]
  BY DEF IInv, TypeOK
<1>2. FreeFence.phase = "free"
  BY DEF FreeFence
<1> QED
  BY <1>1, <1>2, PutEffect DEF Allocated

\* The kref of a context counts its owner and every fence not yet released, so
\* that the lock the fences share outlives all of them.
THEOREM ContextOutlives == Spec => []ContextOutlivesFences
<1> DEFINE Ctx == ContextOutlivesFences
<1>1. Init => Ctx
  <2> SUFFICES ASSUME Init PROVE Ctx
    OBVIOUS
  <2>1. Allocated = {}
    BY DEF Init, Allocated, FreeFence
  <2> QED
    BY <2>1, FS_EmptySet DEF Init, ContextOutlivesFences
<1>2. ASSUME IInv, Ctx, [Next]_vars PROVE Ctx'
  <2> USE <1>2
  <2>0. IsFiniteSet(Allocated) /\ Cardinality(Allocated) \in Int /\ ctxRefs \in Int
    <3>1. IsFiniteSet(Allocated)
      BY FenceConstants, FS_Subset, Zenon DEF Allocated
    <3>2. Cardinality(Allocated) \in Nat
      BY <3>1, FS_CardinalityType, Zenon
    <3> QED
      BY <3>1, <3>2 DEF IInv, TypeOK
  <2>a. ASSUME UNCHANGED <<fence, ctxRefs, owner>> PROVE Ctx'
    BY <2>a DEF ContextOutlivesFences, Allocated
  <2>b. ASSUME NEW f \in Fences, NEW rec \in FenceType, rec.refs > 0,
               fence[f].phase # "free", rec.phase = fence[f].phase,
               fence' = [fence EXCEPT ![f] = Put(rec)],
               ctxRefs' = IF rec.refs = 1 THEN ctxRefs - 1 ELSE ctxRefs, owner' = owner
        PROVE  Ctx'
    <3>1. Allocated' = IF rec.refs = 1 THEN Allocated \ {f} ELSE Allocated
      BY <2>b, PutAllocated
    <3>2. Cardinality(Allocated \ {f}) = Cardinality(Allocated) - 1
      <4>1. f \in Allocated
        BY <2>b DEF Allocated
      <4> QED
        BY <2>0, <4>1, FS_RemoveElement, Zenon
    <3> QED
      BY <2>0, <2>b, <3>1, <3>2 DEF ContextOutlivesFences
  <2>1. CASE sde_fence_prepare
    BY <2>1, <2>a DEF sde_fence_prepare
  <2>2. ASSUME NEW offset \in Offsets, sde_fence_create(offset) PROVE Ctx'
    BY <2>2, <2>a DEF sde_fence_create
  <2>3. ASSUME NEW f \in Fences, _sde_fence_create_fd(f) PROVE Ctx'
    <3>1. Allocated' = Allocated \cup {f} /\ f \notin Allocated
      BY <2>3 DEF _sde_fence_create_fd, Allocated, IInv, TypeOK
    <3>2. Cardinality(Allocated \cup {f}) = Cardinality(Allocated) + 1
      BY <2>0, <3>1, FS_AddElement, Zenon
    <3> QED
      BY <2>0, <2>3, <3>1, <3>2 DEF _sde_fence_create_fd, ContextOutlivesFences
  <2>4. CASE sde_fence_create_fails
    BY <2>4, <2>a DEF sde_fence_create_fails
  <2>5. ASSUME NEW error \in Errors, sde_fence_signal(error) PROVE Ctx'
    BY <2>5, <2>a DEF sde_fence_signal
  <2>6. CASE sde_fence_reset_timeline
    BY <2>6, <2>a DEF sde_fence_reset_timeline
  <2>7. ASSUME NEW t \in Threads, TriggerTake(t) PROVE Ctx'
    BY <2>7, <2>a DEF TriggerTake
  <2>8. ASSUME NEW t \in Threads, TriggerEmpty(t) PROVE Ctx'
    BY <2>8, <2>a DEF TriggerEmpty
  <2>9. ASSUME NEW t \in Threads, NEW f \in Fences, TriggerCheck(t, f) PROVE Ctx'
    <3>1. fence[f].phase # "free"
      BY <2>9 DEF TriggerCheck, IInv, RefsExact, Listed
    <3>2. Allocated' = Allocated
      BY <2>9, <3>1, CheckEffect DEF Allocated, IInv
    <3> QED
      BY <2>9, <3>2 DEF TriggerCheck, ContextOutlivesFences
  <2>10. ASSUME NEW t \in Threads, TriggerPut(t) PROVE Ctx'
    <3>1. PICK f \in Fences : f = cur[t]
      BY <2>10 DEF TriggerPut, IInv, TypeOK, ListsDisjoint
    <3>2. fence[f] \in FenceType /\ fence[f].phase = "signaled" /\ fence[f].refs > 0
      BY <2>10, <3>1 DEF TriggerPut, IInv, TypeOK, RefsExact
    <3>3. /\ fence' = [fence EXCEPT ![f] = Put(fence[f])] /\ owner' = owner
          /\ ctxRefs' = IF fence[f].refs = 1 THEN ctxRefs - 1 ELSE ctxRefs
      BY <2>10, <3>1 DEF TriggerPut, CtxRefsAfterPut
    <3> QED
      BY <2>b, <3>2, <3>3
  <2>11. ASSUME NEW t \in Threads, TriggerMoveBack(t) PROVE Ctx'
    BY <2>11, <2>a DEF TriggerMoveBack
  <2>12. ASSUME NEW f \in Fences, sde_sync_wait(f) PROVE Ctx'
    <3>1. Allocated' = Allocated
      BY <2>12 DEF sde_sync_wait, Allocated, IInv, TypeOK, FenceType
    <3> QED
      BY <2>12, <3>1 DEF sde_sync_wait, ContextOutlivesFences
  <2>13. ASSUME NEW f \in Fences, sde_sync_put(f) PROVE Ctx'
    <3> DEFINE closed == [fence[f] EXCEPT !.fd = FALSE]
    <3>1. fence[f] \in FenceType /\ fence[f].refs > 0 /\ fence[f].phase # "free"
      BY <2>13 DEF sde_sync_put, IInv, TypeOK, RefsExact, FreeFence, FenceType
    <3>2. closed \in FenceType /\ closed.refs = fence[f].refs /\ closed.phase = fence[f].phase
      BY <3>1 DEF FenceType
    <3>3. /\ fence' = [fence EXCEPT ![f] = Put(closed)] /\ owner' = owner
          /\ ctxRefs' = IF fence[f].refs = 1 THEN ctxRefs - 1 ELSE ctxRefs
      BY <2>13 DEF sde_sync_put, CtxRefsAfterPut
    <3> HIDE DEF closed
    <3> QED
      BY <2>b, <3>1, <3>2, <3>3
  <2>14. CASE sde_fence_deinit
    <3>1. /\ fence' = fence /\ owner = TRUE /\ owner' = FALSE /\ ctxRefs' = ctxRefs - 1
      BY <2>14 DEF sde_fence_deinit, IInv, TypeOK
    <3> QED
      BY <2>0, <3>1 DEF ContextOutlivesFences, Allocated
  <2>15. CASE UNCHANGED vars
    BY <2>15, <2>a DEF vars
  <2> QED
    BY <2>1, <2>2, <2>3, <2>4, <2>5, <2>6, <2>7, <2>8, <2>9, <2>10, <2>11, <2>12, <2>13,
       <2>14, <2>15 DEF Next, Create, Trigger
<1> QED
  BY Invariance, <1>1, <1>2, PTL DEF Spec
-----------------------------------------------------------------------------
(* Refinement of the abstract timeline.                                    *)

\* the refinement mapping
Lag == Diff(commit_count, done_count)
Waits == [f \in Fences |-> IF fence[f].phase = "live"
                           THEN Diff(fence[f].seqno, done_count) ELSE 0]
Phases == [f \in Fences |-> fence[f].phase]

\* The point of a live fence, seen from the completed commits.
LEMMA WaitSum ==
    ASSUME IInv, NEW s \in Counter, Diff(commit_count, s) \in (-MaxOffset) .. MaxAge
    PROVE  /\ Diff(s, commit_count) = - Diff(commit_count, s)
           /\ Diff(s, done_count) = Diff(s, commit_count) + Lag
           /\ Lag \in 0 .. MaxLag
<1> USE FenceConstants
<1>1. commit_count \in Counter /\ done_count \in Counter /\ Lag \in 0 .. MaxLag
  BY DEF IInv, TypeOK, Close, Lag
<1>2. Diff(s, commit_count) = - Diff(commit_count, s)
  BY <1>1, DiffSwap
<1>3. Diff(s, done_count) = Diff(s, commit_count) + Diff(commit_count, done_count)
  BY <1>1, <1>2, DiffTriangle DEF Lag
<1> QED
  BY <1>1, <1>2, <1>3 DEF Lag

\* Completing k commits brings every live fence k completions closer.
LEMMA CompleteMaps ==
    ASSUME IInv, IInv', NEW k \in 1 .. Lag, Lag' = Lag - k, UNCHANGED <<commit_count, fence>>
    PROVE  TL!TNext
<1> USE FenceConstants
<1>1. ASSUME NEW f \in Fences, fence[f].phase = "live"
      PROVE  Diff(fence[f].seqno, done_count') = Diff(fence[f].seqno, done_count) - k
  <2>1. fence[f].seqno \in Counter /\ Diff(commit_count, fence[f].seqno) \in (-MaxOffset) .. MaxAge
    BY <1>1 DEF IInv, TypeOK, Close, FenceType
  <2>2. /\ Diff(fence[f].seqno, commit_count) = - Diff(commit_count, fence[f].seqno)
        /\ Diff(fence[f].seqno, done_count) = Diff(fence[f].seqno, commit_count) + Lag
        /\ Lag \in 0 .. MaxLag
    BY <2>1, WaitSum
  <2>3. /\ commit_count \in Counter /\ done_count' \in Counter /\ Lag' \in 0 .. MaxLag
        /\ Lag' = Diff(commit_count, done_count')
    BY DEF IInv, TypeOK, Close, Lag
  <2>4. Diff(fence[f].seqno, done_count') = Diff(fence[f].seqno, commit_count) + Lag'
    BY <2>1, <2>2, <2>3, DiffTriangle
  <2> QED
    BY <2>1, <2>2, <2>3, <2>4
<1>2. Waits' = [f \in Fences |-> IF Phases[f] = "live" THEN Waits[f] - k ELSE Waits[f]]
  BY <1>1 DEF Waits, Phases
<1>3. Phases' = Phases
  BY DEF Phases
<1>4. TL!TComplete(k)
  BY <1>2, <1>3 DEF TL!TComplete, Lag, Waits, Phases
<1> QED
  BY <1>4 DEF TL!TNext, Lag

\* A fence that becomes signaled was due.
LEMMA SignalMaps ==
    ASSUME IInv, NEW f \in Fences, fence[f].phase = "live",
           sde_fence_signaled(fence[f].seqno), fence'[f].phase = "signaled",
           \A g \in Fences \ {f} : fence'[g] = fence[g], UNCHANGED ctxvars
    PROVE  TL!TNext
<1>1. Waits[f] <= 0 /\ Phases[f] = "live"
  BY DEF Waits, Phases, sde_fence_signaled
<1>2. /\ Phases' = [Phases EXCEPT ![f] = "signaled"] /\ Waits' = [Waits EXCEPT ![f] = 0]
      /\ Lag' = Lag
  BY DEF Waits, Phases, Lag, ctxvars
<1>3. TL!TSignal(f)
  BY <1>1, <1>2 DEF TL!TSignal, Lag, Waits, Phases
<1> QED
  BY <1>3 DEF TL!TNext

\* A fence whose last reference goes was signaled.
LEMMA PutMaps ==
    ASSUME IInv, NEW f \in Fences, NEW rec \in FenceType, rec.refs > 0,
           rec.phase = fence[f].phase, rec.seqno = fence[f].seqno,
           rec.refs = 1 => fence[f].phase = "signaled",
           fence' = [fence EXCEPT ![f] = Put(rec)], UNCHANGED ctxvars
    PROVE  TL!TNext \/ UNCHANGED TL!tvars
<1>1. fence'[f] = Put(rec) /\ \A g \in Fences \ {f} : fence'[g] = fence[g]
  BY DEF IInv, TypeOK
<1>2. FreeFence.phase = "free"
  BY DEF FreeFence
<1>3. CASE rec.refs = 1
  <2>1. fence'[f].phase = "free" /\ fence[f].phase = "signaled"
    BY <1>1, <1>2, <1>3 DEF Put
  <2>2. Phases' = [Phases EXCEPT ![f] = "free"] /\ Phases[f] = "signaled"
    <3>1. \A g \in Fences \ {f} : fence'[g].phase = fence[g].phase
      BY <1>1
    <3> QED
      BY <2>1, <3>1 DEF Phases
  <2>4. Waits' = Waits
    BY <1>1, <2>1 DEF Waits, ctxvars
  <2>5. Lag' = Lag
    BY DEF Lag, ctxvars
  <2>3. TL!TRelease(f)
    BY <2>2, <2>4, <2>5 DEF TL!TRelease, Lag, Waits, Phases
  <2> QED
    BY <2>3 DEF TL!TNext
<1>4. CASE rec.refs # 1
  <2>1. fence'[f].phase = fence[f].phase /\ fence'[f].seqno = fence[f].seqno
    BY <1>1, <1>4, PutEffect
  <2>2. Phases' = Phases /\ Waits' = Waits /\ Lag' = Lag
    BY <1>1, <2>1 DEF Waits, Phases, Lag, ctxvars
  <2> QED
    BY <2>2 DEF TL!tvars, Lag, Waits, Phases
<1> QED
  BY <1>3, <1>4

\* Every step is a step of the timeline, or leaves it alone.
LEMMA StepMaps ==
    IInv /\ IInv' /\ [Next]_vars => [TL!TNext]_(TL!tvars)
<1> SUFFICES ASSUME IInv, IInv', [Next]_vars PROVE TL!TNext \/ UNCHANGED TL!tvars
  BY DEF TL!tvars
<1> USE FenceConstants
<1>0. Lag \in 0 .. MaxLag /\ Lag \in Int
  BY DEF IInv, Close, Lag
<1>a. ASSUME UNCHANGED <<commit_count, done_count, fence>> PROVE UNCHANGED TL!tvars
  BY <1>a DEF TL!tvars
<1>1. CASE sde_fence_prepare
  <2>1. Diff(commit_count', done_count) = Diff(commit_count, done_count) + 1
    BY <1>1, DiffAddLeft DEF sde_fence_prepare, IInv, TypeOK, Close
  <2>2. TL!TPrepare
    BY <1>1, <2>1 DEF sde_fence_prepare, TL!TPrepare
  <2> QED
    BY <2>2 DEF TL!TNext
<1>2. ASSUME NEW offset \in Offsets, sde_fence_create(offset) PROVE UNCHANGED TL!tvars
  BY <1>2, <1>a DEF sde_fence_create, ctxvars
<1>3. ASSUME NEW f \in Fences, _sde_fence_create_fd(f) PROVE TL!TNext
  <2>1. PICK offset \in Offsets : Diff(seqno, commit_count) = offset
    BY <1>3 DEF _sde_fence_create_fd, IInv, Close
  <2>2. commit_count \in Counter /\ done_count \in Counter /\ seqno \in Counter
    BY DEF IInv, TypeOK
  <2>3. Diff(seqno, done_count) = Lag + offset
    BY <1>0, <2>1, <2>2, DiffTriangle DEF Lag
  <2>4. /\ fence[f].phase = "free" /\ fence'[f].phase = "live" /\ fence'[f].seqno = seqno
        /\ \A g \in Fences \ {f} : fence'[g] = fence[g]
        /\ commit_count' = commit_count /\ done_count' = done_count
    BY <1>3 DEF _sde_fence_create_fd, ctxvars, IInv, TypeOK
  <2>5. Phases' = [Phases EXCEPT ![f] = "live"] /\ Phases[f] = "free"
    BY <2>4 DEF Phases
  <2>6. Waits' = [Waits EXCEPT ![f] = Lag + offset]
    BY <2>3, <2>4 DEF Waits
  <2>7. Lag' = Lag
    BY <2>4 DEF Lag
  <2>8. TL!TCreate(f, offset)
    BY <2>5, <2>6, <2>7 DEF TL!TCreate, Lag, Waits, Phases
  <2> QED
    BY <2>8 DEF TL!TNext
<1>4. CASE sde_fence_create_fails
  BY <1>4, <1>a DEF sde_fence_create_fails, ctxvars
<1>5. ASSUME NEW error \in Errors, sde_fence_signal(error) PROVE TL!TNext
  <2>1. commit_count \in Counter /\ done_count \in Counter
    BY DEF IInv, TypeOK
  <2>2. Diff(done_count, commit_count) = - Lag
    BY <1>0, <2>1, DiffSwap DEF Lag
  <2>3. Lag > 0 /\ 1 \in 1 .. Lag
    BY <1>0, <1>5, <2>2 DEF sde_fence_signal
  <2>4. done_count' \in Counter /\ Diff(done_count', commit_count) = 1 - Lag
    BY <1>0, <1>5, <2>1, <2>2, <2>3, AddType, DiffAddLeft DEF sde_fence_signal
  <2>5. Lag' = Lag - 1
    BY <1>0, <1>5, <2>1, <2>3, <2>4, DiffSwap DEF Lag, sde_fence_signal
  <2> QED
    BY <1>5, <2>3, <2>5, CompleteMaps DEF sde_fence_signal
<1>6. CASE sde_fence_reset_timeline
  <2>1. commit_count \in Counter /\ done_count \in Counter
    BY DEF IInv, TypeOK
  <2>2. Diff(done_count, commit_count) = - Lag
    BY <1>0, <2>1, DiffSwap DEF Lag
  <2>3. Lag \in 1 .. Lag
    BY <1>0, <1>6, <2>2 DEF sde_fence_reset_timeline
  <2>4. Lag' = Lag - Lag
    BY <1>0, <1>6, <2>1, DiffSelf DEF Lag, sde_fence_reset_timeline
  <2>5. PICK k \in 1 .. Lag : k = Lag
    BY <2>3
  <2> QED
    BY <1>6, <2>4, <2>5, CompleteMaps DEF sde_fence_reset_timeline
<1>7. ASSUME NEW t \in Threads, TriggerTake(t) PROVE UNCHANGED TL!tvars
  BY <1>7, <1>a DEF TriggerTake, ctxvars
<1>8. ASSUME NEW t \in Threads, TriggerEmpty(t) PROVE UNCHANGED TL!tvars
  BY <1>8, <1>a DEF TriggerEmpty, ctxvars
<1>9. ASSUME NEW t \in Threads, NEW f \in Fences, TriggerCheck(t, f)
      PROVE  TL!TNext \/ UNCHANGED TL!tvars
  <2>1. /\ \A g \in Fences \ {f} : fence'[g] = fence[g]
        /\ fence'[f].seqno = fence[f].seqno
        /\ \/ fence'[f].phase = "signaled"
              /\ (fence[f].phase = "signaled" \/ sde_fence_signaled(fence[f].seqno))
           \/ fence'[f].phase = fence[f].phase
    BY <1>9, CheckEffect DEF IInv
  <2>2. UNCHANGED ctxvars /\ fence[f].phase \in {"live", "signaled"}
    BY <1>9 DEF TriggerCheck, IInv, RefsExact, Listed, TypeOK, FenceType
  <2>3. CASE fence'[f].phase = fence[f].phase
    <3>1. Phases' = Phases
      BY <2>1, <2>3 DEF Phases
    <3>2. Waits' = Waits
      BY <2>1, <2>2, <2>3 DEF Waits, ctxvars
    <3>3. Lag' = Lag
      BY <2>2 DEF Lag, ctxvars
    <3> QED
      BY <3>1, <3>2, <3>3 DEF TL!tvars, Lag, Waits, Phases
  <2>4. CASE fence'[f].phase # fence[f].phase
    BY <2>1, <2>2, <2>4, SignalMaps
  <2> QED
    BY <2>3, <2>4
<1>10. ASSUME NEW t \in Threads, TriggerPut(t) PROVE TL!TNext \/ UNCHANGED TL!tvars
  <2>1. PICK f \in Fences : f = cur[t]
    BY <1>10 DEF TriggerPut, IInv, TypeOK, ListsDisjoint
  <2>2. fence[f] \in FenceType /\ fence[f].phase = "signaled" /\ fence[f].refs > 0
    BY <1>10, <2>1 DEF TriggerPut, IInv, TypeOK, RefsExact
  <2>3. fence' = [fence EXCEPT ![f] = Put(fence[f])] /\ UNCHANGED ctxvars
    BY <1>10, <2>1 DEF TriggerPut, ctxvars
  <2> QED
    BY <2>2, <2>3, PutMaps
<1>11. ASSUME NEW t \in Threads, TriggerMoveBack(t) PROVE UNCHANGED TL!tvars
  BY <1>11, <1>a DEF TriggerMoveBack, ctxvars
<1>12. ASSUME NEW f \in Fences, sde_sync_wait(f) PROVE TL!TNext
  <2>1. /\ fence[f].phase = "live" /\ sde_fence_signaled(fence[f].seqno)
        /\ fence'[f].phase = "signaled" /\ UNCHANGED ctxvars
        /\ \A g \in Fences \ {f} : fence'[g] = fence[g]
    BY <1>12 DEF sde_sync_wait, ctxvars, IInv, TypeOK, FenceType
  <2> QED
    BY <2>1, SignalMaps
<1>13. ASSUME NEW f \in Fences, sde_sync_put(f) PROVE TL!TNext \/ UNCHANGED TL!tvars
  <2> DEFINE closed == [fence[f] EXCEPT !.fd = FALSE]
  <2>1. /\ fence[f] \in FenceType /\ fence[f].refs > 0
        /\ fence[f].refs = 1 => fence[f].phase = "signaled"
    BY <1>13 DEF sde_sync_put, IInv, TypeOK, RefsExact, FreeFence, FenceType
  <2>2. /\ closed \in FenceType /\ closed.refs = fence[f].refs
        /\ closed.phase = fence[f].phase /\ closed.seqno = fence[f].seqno
    BY <2>1 DEF FenceType
  <2>3. fence' = [fence EXCEPT ![f] = Put(closed)] /\ UNCHANGED ctxvars
    BY <1>13 DEF sde_sync_put, ctxvars
  <2> HIDE DEF closed
  <2> QED
    BY <2>1, <2>2, <2>3, PutMaps
<1>14. CASE sde_fence_deinit
  BY <1>14, <1>a DEF sde_fence_deinit, ctxvars
<1>15. CASE UNCHANGED vars
  BY <1>15, <1>a DEF vars
<1> QED
  BY <1>1, <1>2, <1>3, <1>4, <1>5, <1>6, <1>7, <1>8, <1>9, <1>10, <1>11, <1>12, <1>13,
     <1>14, <1>15 DEF Next, Create, Trigger

\* sde_fence.c implements the timeline: with wrapping counters, and lists that
\* move between concurrent triggers, a fence signals only after the completions
\* its offset asked for, and disappears only once it has signaled.
THEOREM FencesImplementTimeline == Spec => ImplementsTimeline
<1>1. Init => TL!TInit
  <2> SUFFICES ASSUME Init PROVE TL!TInit
    OBVIOUS
  <2>1. Diff(commit_count, done_count) = 0
    BY InitInv, DiffSelf DEF Init, IInv, TypeOK
  <2> QED
    BY <2>1 DEF Init, TL!TInit, FreeFence
<1> QED
  BY Invariance, <1>1, StepMaps, PTL DEF Spec, ImplementsTimeline, TL!TSpec
=============================================================================
