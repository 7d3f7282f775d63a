-------------------------- MODULE MsmAtomicProofs --------------------------
(***************************************************************************)
(* Proofs about MsmAtomic, for any crtcs, planes, callers and commits.     *)
(***************************************************************************)
EXTENDS MsmAtomic, SequenceTheorems, WellFoundedInduction, TLAPS

-----------------------------------------------------------------------------
(* The inductive invariant: where a commit is, and who still uses it.      *)

Works(k) == {queue[k][i] : i \in DOMAIN queue[k]}
Held(c) == \E t \in Callers : ptr[t] = c
Async(c) == Queued(c) \/ \E e \in Executors : run[e] = c

\* where caller t stands, and what the asynchronous part may do with its commit
CallerOK(t) ==
    /\ ptr[t] = None <=> pc[t] \in {"idle", "reset", "flag"}
    /\ pc[t] \in {"wait", "swap", "dispatch", "flush", "free"} => obj[ptr[t]].alive
    /\ pc[t] \in {"enter", "failed"} => ~obj[ptr[t]].alive
    /\ pc[t] \in {"enter", "wait", "swap", "dispatch", "failed"} => ~Async(ptr[t])
    /\ pc[t] \in {"flush", "free"} => ~obj[ptr[t]].nonblock
    /\ pc[t] = "free" => /\ ~Queued(ptr[t])
                         /\ \A e \in Executors : run[e] = ptr[t] => e = t
    /\ pc[t] = "done" /\ ~obj[ptr[t]].nonblock => ~Async(ptr[t]) /\ ~obj[ptr[t]].alive

\* each commit has one caller
CallersOK ==
    \A t \in Callers :
      /\ CallerOK(t)
      /\ \A u \in Callers : ptr[t] = ptr[u] /\ ptr[t] # None => t = u

\* a commit is queued once, or completed by one executor, and not yet freed
ExecutorsOK ==
    /\ \A e \in Executors :
         /\ run[e] = None <=> step[e] = "idle"
         /\ run[e] # None => /\ obj[run[e]].alive /\ ~Queued(run[e])
                             /\ \A f \in Executors : run[f] = run[e] => f = e
    /\ \A t \in Callers : run[t] # None => ptr[t] = run[t] /\ pc[t] \in {"done", "free"}
    /\ \A c \in Commits : Queued(c) => obj[c].alive
    /\ \A j, k \in Crtcs : j # k => Works(j) \cap Works(k) = {}
    /\ \A k \in Crtcs : \A i, j \in DOMAIN queue[k] : queue[k][i] = queue[k][j] => i = j

\* the asynchronous part has not put its reference
Holding(c) ==
    \/ \E t \in Callers : ptr[t] = c /\ pc[t] = "dispatch"
    \/ Queued(c)
    \/ \E e \in Executors : run[e] = c /\ step[e] \in {"program", "cleanup"}

\* a reference for the caller and one for the asynchronous part
RefsExact ==
    \A c \in Commits :
      obj[c].refs = (IF Held(c) THEN 1 ELSE 0) + (IF Holding(c) THEN 1 ELSE 0)

\* between start_atomic and end_atomic, and from swap_state on
Swapped(c) ==
    \/ \E t \in Callers : ptr[t] = c /\ pc[t] = "dispatch"
    \/ Queued(c)
    \/ \E e \in Executors : run[e] = c /\ step[e] \in {"program", "cleanup", "end"}
InFlight(c) == Swapped(c) \/ \E t \in Callers : ptr[t] = c /\ pc[t] = "swap"

\* commits in flight have no object in common, and the objects of a commit that
\* has swapped its state are its own
FlightOK ==
    /\ \A c \in Commits : InFlight(c) => obj[c].mask \subseteq pending
    /\ \A c, d \in Commits :
         InFlight(c) /\ InFlight(d) /\ c # d => obj[c].mask \cap obj[d].mask = {}
    /\ \A c \in Commits : Swapped(c) => \A r \in obj[c].mask : owner[r] = c

\* a commit that has programmed the hardware has programmed the software state
Programmed ==
    \A e \in Executors : step[e] \in {"cleanup", "end"} =>
        \A k \in obj[run[e]].mask \cap Crtcs : hw[k] = active[k]

IInv == TypeOK /\ CallersOK /\ ExecutorsOK /\ RefsExact /\ FlightOK /\ SwHwInSync /\ Programmed
-----------------------------------------------------------------------------
(* The queues and the choice of the thread.                                *)

\* A commit is queued when it is among the works of some thread.
LEMMA QueuedWorks ==
    \A c : Queued(c) <=> \E k \in Crtcs : c \in Works(k)
BY DEF Queued, Works

\* The crtcs have different indices, so one of them comes first.
LEMMA FirstCrtcType ==
    ASSUME NEW mask, mask \cap Crtcs # {}
    PROVE  FirstCrtc(mask) \in mask \cap Crtcs
<1> DEFINE S == {CrtcIndex[k] : k \in mask \cap Crtcs}
<1>1. S # {} /\ S \subseteq Nat
  BY AtomicConstants
<1>2. PICK n \in S : \A m \in S : <<m, n>> \notin OpToRel(<, Nat)
  BY <1>1, NatLessThanWellFounded, WFMin
<1>3. ASSUME NEW m \in S PROVE n <= m
  <2>1. m \in Nat /\ n \in Nat /\ <<m, n>> \in Nat \X Nat
    BY <1>1
  <2>2. <<m, n>> \notin OpToRel(<, Nat)
    BY <1>2
  <2>3. ~(m < n)
    BY <2>1, <2>2, Zenon DEF OpToRel
  <2> QED
    BY <2>1, <2>3
<1>4. PICK k \in mask \cap Crtcs : CrtcIndex[k] = n
  OBVIOUS
<1>5. \A j \in mask \cap Crtcs : CrtcIndex[k] <= CrtcIndex[j]
  BY <1>3, <1>4
<1> QED
  BY <1>5, Zenon DEF FirstCrtc

\* Queueing a commit that is not queued adds it to one thread's works.
LEMMA AppendWorks ==
    ASSUME NEW k \in Crtcs, NEW c \in Commits, TypeOK, ExecutorsOK, ~Queued(c),
           queue' = [queue EXCEPT ![k] = Append(@, c)]
    PROVE  /\ queue' \in [Crtcs -> Seq(Commits)]
           /\ Works(k)' = Works(k) \cup {c}
           /\ \A j \in Crtcs \ {k} : Works(j)' = Works(j)
           /\ \A j \in Crtcs : \A i, l \in DOMAIN queue'[j] :
                queue'[j][i] = queue'[j][l] => i = l
<1> DEFINE s == queue[k]
<1>1. s \in Seq(Commits) /\ queue'[k] = Append(s, c)
  BY DEF TypeOK
<1>2. /\ Append(s, c) \in Seq(Commits)
      /\ Len(Append(s, c)) = Len(s) + 1
      /\ \A i \in 1 .. Len(s) : Append(s, c)[i] = s[i]
      /\ Append(s, c)[Len(s) + 1] = c
  BY <1>1, AppendProperties
<1>3. DOMAIN s = 1 .. Len(s) /\ DOMAIN queue'[k] = 1 .. Len(s) + 1 /\ Len(s) \in Nat
  BY <1>1, <1>2
<1>4. \A i \in DOMAIN s : s[i] # c
  BY DEF Queued
<1>5. \A j \in Crtcs \ {k} : queue'[j] = queue[j]
  BY DEF TypeOK
<1>6. Works(k)' = Works(k) \cup {c}
  <2>1. ASSUME NEW x \in Works(k)' PROVE x \in Works(k) \cup {c}
    BY <1>1, <1>2, <1>3, <2>1 DEF Works
  <2>2. ASSUME NEW x \in Works(k) PROVE x \in Works(k)'
    BY <1>1, <1>2, <1>3, <2>2 DEF Works
  <2>3. c \in Works(k)'
    BY <1>1, <1>2, <1>3 DEF Works
  <2> QED
    BY <2>1, <2>2, <2>3
<1>7. \A j \in Crtcs \ {k} : Works(j)' = Works(j)
  BY <1>5 DEF Works
<1>8. \A i, l \in DOMAIN queue'[k] : queue'[k][i] = queue'[k][l] => i = l
  BY <1>1, <1>2, <1>3, <1>4 DEF ExecutorsOK
<1>9. queue' \in [Crtcs -> Seq(Commits)]
  BY <1>1, <1>2 DEF TypeOK
<1> QED
  BY <1>5, <1>6, <1>7, <1>8, <1>9 DEF ExecutorsOK

\* Taking the first work removes it from the thread's works.
LEMMA TailWorks ==
    ASSUME NEW k \in Crtcs, TypeOK, ExecutorsOK, queue[k] # <<>>,
           queue' = [queue EXCEPT ![k] = Tail(@)]
    PROVE  /\ queue' \in [Crtcs -> Seq(Commits)]
           /\ Head(queue[k]) \in Commits /\ Head(queue[k]) \in Works(k)
           /\ Works(k)' = Works(k) \ {Head(queue[k])}
           /\ \A j \in Crtcs \ {k} : Works(j)' = Works(j)
           /\ \A j \in Crtcs : \A i, l \in DOMAIN queue'[j] :
                queue'[j][i] = queue'[j][l] => i = l
<1> DEFINE s == queue[k]
<1>1. s \in Seq(Commits) /\ queue'[k] = Tail(s)
  BY DEF TypeOK
<1>2. /\ Tail(s) \in Seq(Commits) /\ Head(s) \in Commits
      /\ Len(Tail(s)) = Len(s) - 1
      /\ \A i \in 1 .. Len(Tail(s)) : Tail(s)[i] = s[i + 1]
  BY <1>1, HeadTailProperties
<1>3. DOMAIN s = 1 .. Len(s) /\ DOMAIN queue'[k] = 1 .. Len(s) - 1 /\ Len(s) \in Nat \ {0}
  <2>1. Len(s) \in Nat \ {0}
    BY <1>1, EmptySeq
  <2>2. DOMAIN s = 1 .. Len(s) /\ DOMAIN Tail(s) = 1 .. Len(Tail(s))
    BY <1>1, <1>2, LenProperties
  <2> QED
    BY <1>1, <1>2, <2>1, <2>2
<1>4. Head(s) = s[1]
  BY <1>1
<1>5. \A j \in Crtcs \ {k} : queue'[j] = queue[j]
  BY DEF TypeOK
<1>6. \A i, l \in DOMAIN s : s[i] = s[l] => i = l
  BY DEF ExecutorsOK
<1>7. Works(k)' = Works(k) \ {Head(s)}
  <2>1. ASSUME NEW x \in Works(k)' PROVE x \in Works(k) \ {Head(s)}
    <3>1. PICK i \in DOMAIN queue'[k] : x = queue'[k][i]
      BY DEF Works
    <3>2. i + 1 \in DOMAIN s /\ x = s[i + 1] /\ i + 1 # 1 /\ 1 \in DOMAIN s
      BY <1>1, <1>2, <1>3, <3>1
    <3> QED
      BY <1>4, <1>6, <3>2 DEF Works
  <2>2. ASSUME NEW x \in Works(k), x # Head(s) PROVE x \in Works(k)'
    <3>1. PICK i \in DOMAIN s : x = s[i]
      BY DEF Works
    <3>2. i - 1 \in DOMAIN queue'[k] /\ queue'[k][i - 1] = s[i]
      BY <1>1, <1>2, <1>3, <1>4, <2>2, <3>1
    <3> QED
      BY <3>1, <3>2 DEF Works
  <2> QED
    BY <2>1, <2>2
<1>8. Head(s) \in Works(k)
  BY <1>3, <1>4 DEF Works
<1>9. \A j \in Crtcs \ {k} : Works(j)' = Works(j)
  BY <1>5 DEF Works
<1>10. \A i, l \in DOMAIN queue'[k] : queue'[k][i] = queue'[k][l] => i = l
  <2> SUFFICES ASSUME NEW i \in DOMAIN queue'[k], NEW l \in DOMAIN queue'[k],
                      queue'[k][i] = queue'[k][l]
               PROVE  i = l
    OBVIOUS
  <2>1. i + 1 \in DOMAIN s /\ l + 1 \in DOMAIN s /\ s[i + 1] = s[l + 1] /\ i \in Int /\ l \in Int
    BY <1>1, <1>2, <1>3
  <2> QED
    BY <1>6, <2>1
<1>11. queue' \in [Crtcs -> Seq(Commits)]
  BY <1>1, <1>2 DEF TypeOK
<1> QED
  BY <1>2, <1>5, <1>7, <1>8, <1>9, <1>10, <1>11 DEF ExecutorsOK
-----------------------------------------------------------------------------
(* What each step does to the places a commit can be in.                   *)

\* the places of commit d do not change
SameHeld == \A d \in Commits : Held(d)' <=> Held(d)
SameAsync == \A d \in Commits : Async(d)' <=> Async(d)
SameHolding == \A d \in Commits : Holding(d)' <=> Holding(d)
SameSwapped == \A d \in Commits : Swapped(d)' <=> Swapped(d)
SameInFlight == \A d \in Commits : InFlight(d)' <=> InFlight(d)

\* A caller inside msm_atomic_commit has a commit.
LEMMA HasCommit ==
    ASSUME IInv, NEW t \in Callers, pc[t] \notin {"idle", "reset", "flag"}
    PROVE  ptr[t] \in Commits /\ ptr[t] # None
<1>1. ptr[t] # None
  BY Zenon DEF IInv, CallersOK, CallerOK
<1> QED
  BY <1>1 DEF IInv, TypeOK

\* the commits
Rec == [alive : BOOLEAN, refs : 0 .. 2, mask : SUBSET Objects,
        on : {"on", "off", "keep"}, nonblock : BOOLEAN]

\* Freeing a commit and counting its references keep its type.
LEMMA RecType ==
    ASSUME NEW r \in Rec
    PROVE  /\ FreeSlot \in Rec
           /\ \A b \in BOOLEAN : [r EXCEPT !.alive = b] \in Rec
           /\ \A n \in 0 .. 2 : [r EXCEPT !.refs = n] \in Rec
<1>1. FreeSlot \in Rec
  BY DEF Rec, FreeSlot
<1>2. \A b \in BOOLEAN : [r EXCEPT !.alive = b] \in Rec
  BY Zenon DEF Rec
<1>3. \A n \in 0 .. 2 : [r EXCEPT !.refs = n] \in Rec
  BY Zenon DEF Rec
<1> QED
  BY <1>1, <1>2, <1>3

\* A commit whose slot is free is nowhere.
LEMMA FreeIsNowhere ==
    ASSUME IInv, NEW c \in Commits, obj[c] = FreeSlot
    PROVE  ~Held(c) /\ ~Async(c) /\ ~Holding(c) /\ ~InFlight(c) /\ ~Queued(c)
<1>1. obj[c].refs = 0 /\ ~obj[c].alive
  BY DEF FreeSlot
<1>2. ~Held(c) /\ ~Holding(c)
  BY <1>1 DEF IInv, RefsExact
<1>3. ~Async(c) /\ ~Queued(c)
  BY <1>1, AtomicConstants DEF IInv, ExecutorsOK, Async
<1> QED
  BY <1>2, <1>3 DEF Async, InFlight, Swapped, Held, Holding, IInv, CallersOK, CallerOK

\* a new commit c for caller t, by one of the three operations that make one
NewCommit(t, c) ==
    /\ pc[t] \in {"idle", "reset"} /\ obj[c] = FreeSlot
    /\ \E mask \in SUBSET Objects, on \in {"on", "off", "keep"}, nonblock \in BOOLEAN :
         obj' = [obj EXCEPT ![c] = [alive |-> FALSE, refs |-> 1, mask |-> mask,
                                    on |-> on, nonblock |-> nonblock]]
    /\ ptr' = [ptr EXCEPT ![t] = c] /\ pc' = [pc EXCEPT ![t] = "enter"]
    /\ UNCHANGED <<pending, exec, swhw>>

\* The caller of a new commit becomes its holder; nothing else moves.
LEMMA NewEffect ==
    ASSUME IInv, NEW t \in Callers, NEW c \in Commits, NewCommit(t, c)
    PROVE  /\ \A d \in Commits : Held(d)' <=> Held(d) \/ d = c
           /\ SameAsync /\ SameHolding /\ SameSwapped /\ SameInFlight
<1>1. ptr[t] = None /\ None \notin Commits /\ c # None
  BY AtomicConstants DEF IInv, CallersOK, CallerOK, NewCommit
<1>2. \A d \in Commits : Held(d)' <=> Held(d) \/ d = c
  BY <1>1 DEF IInv, TypeOK, NewCommit, Held
<1>3. \A d \in Commits : Queued(d)' <=> Queued(d)
  BY DEF NewCommit, exec, Queued
<1>4. SameAsync
  BY <1>3 DEF NewCommit, exec, Async, SameAsync
<1>5. SameHolding /\ SameSwapped
  BY <1>1, <1>3 DEF IInv, TypeOK, NewCommit, exec, Holding, SameHolding, Swapped, SameSwapped
<1>6. SameInFlight
  BY <1>1, <1>5 DEF IInv, TypeOK, NewCommit, exec, SameSwapped, InFlight, SameInFlight
<1> QED
  BY <1>2, <1>4, <1>5, <1>6

\* the caller moves on, neither taking nor leaving a place
Plain == {"enter", "wait", "failed", "flush", "free", "done"}
Advance(t, s) ==
    /\ pc[t] \in Plain /\ s \in Plain
    /\ pc' = [pc EXCEPT ![t] = s]
    /\ UNCHANGED <<ptr, exec, swhw>>

\* Outside start_atomic, swap_state and the dispatch a caller moves no commit.
LEMMA AdvanceEffect ==
    ASSUME IInv, NEW t \in Callers, NEW s, Advance(t, s)
    PROVE  SameHeld /\ SameAsync /\ SameHolding /\ SameSwapped /\ SameInFlight
<1>1. \A d \in Commits : Queued(d)' <=> Queued(d)
  BY DEF Advance, exec, Queued
<1>2. SameHeld /\ SameAsync
  BY <1>1 DEF Advance, exec, Async, SameAsync, Held, SameHeld
<1>3. SameHolding /\ SameSwapped
  BY <1>1 DEF IInv, TypeOK, Advance, Plain, exec, Holding, SameHolding, Swapped, SameSwapped
<1>4. SameInFlight
  BY <1>3 DEF IInv, TypeOK, Advance, Plain, exec, SameSwapped, InFlight, SameInFlight
<1> QED
  BY <1>2, <1>3, <1>4

\* start_atomic puts a commit in flight.
LEMMA StartEffect ==
    ASSUME IInv, NEW t \in Callers, start_atomic(t)
    PROVE  /\ SameHeld /\ SameAsync /\ SameHolding /\ SameSwapped
           /\ \A d \in Commits : InFlight(d)' <=> InFlight(d) \/ d = ptr[t]
<1> USE DEF start_atomic, Goto
<1>1. \A d \in Commits : Queued(d)' <=> Queued(d)
  BY DEF exec, Queued
<1>2. SameHeld /\ SameAsync
  BY <1>1 DEF exec, Async, SameAsync, Held, SameHeld
<1>3. SameHolding /\ SameSwapped
  BY <1>1 DEF IInv, TypeOK, exec, Holding, SameHolding, Swapped, SameSwapped
<1>4. \A d \in Commits : InFlight(d)' <=> InFlight(d) \/ d = ptr[t]
  BY <1>3 DEF IInv, TypeOK, exec, SameSwapped, InFlight
<1> QED
  BY <1>2, <1>3, <1>4

\* swap_state takes the reference of the asynchronous part.
LEMMA SwapEffect ==
    ASSUME IInv, NEW t \in Callers, swap_state(t)
    PROVE  /\ SameHeld /\ SameAsync /\ SameInFlight
           /\ \A d \in Commits : Holding(d)' <=> Holding(d) \/ d = ptr[t]
           /\ \A d \in Commits : Swapped(d)' <=> Swapped(d) \/ d = ptr[t]
<1> USE DEF swap_state, Goto
<1>1. \A d \in Commits : Queued(d)' <=> Queued(d)
  BY DEF exec, Queued
<1>2. SameHeld /\ SameAsync
  BY <1>1 DEF exec, Async, SameAsync, Held, SameHeld
<1>3. \A d \in Commits : Holding(d)' <=> Holding(d) \/ d = ptr[t]
  BY <1>1 DEF IInv, TypeOK, exec, Holding
<1>4. \A d \in Commits : Swapped(d)' <=> Swapped(d) \/ d = ptr[t]
  BY <1>1 DEF IInv, TypeOK, exec, Swapped
<1>5. SameInFlight
  BY <1>4 DEF IInv, TypeOK, CallersOK, CallerOK, exec, InFlight, SameInFlight
<1> QED
  BY <1>2, <1>3, <1>4, <1>5

\* The dispatch queues the commit, or starts to complete it: it becomes
\* asynchronous, and keeps its reference and its objects.
LEMMA DispatchEffect ==
    ASSUME IInv, NEW t \in Callers, msm_atomic_commit_dispatch(t)
    PROVE  /\ SameHeld /\ SameHolding /\ SameSwapped /\ SameInFlight
           /\ \A d \in Commits : Async(d)' <=> Async(d) \/ d = ptr[t]
           /\ queue' \in [Crtcs -> Seq(Commits)]
           /\ \/ /\ \A d \in Commits : Queued(d)' <=> Queued(d) \/ d = ptr[t]
                 /\ UNCHANGED <<run, step>>
                 /\ pc' = [pc EXCEPT ![t] = IF obj[ptr[t]].nonblock THEN "done" ELSE "flush"]
              \/ /\ \A d \in Commits : Queued(d)' <=> Queued(d)
                 /\ run' = [run EXCEPT ![t] = ptr[t]]
                 /\ step' = [step EXCEPT ![t] = "program"]
                 /\ pc' = [pc EXCEPT ![t] = IF obj[ptr[t]].nonblock THEN "done" ELSE "free"]
           /\ \A j, k \in Crtcs : j # k => Works(j)' \cap Works(k)' = {}
           /\ \A k \in Crtcs : \A i, j \in DOMAIN queue'[k] :
                queue'[k][i] = queue'[k][j] => i = j
<1>c. PICK c \in Commits : c = ptr[t]
  BY HasCommit DEF msm_atomic_commit_dispatch
<1>0. /\ pc[t] = "dispatch" /\ c \in Commits /\ ~Async(c) /\ ~Queued(c) /\ run[t] = None
      /\ step[t] = "idle" /\ t \in Executors
  BY <1>c DEF IInv, TypeOK, CallersOK, CallerOK, ExecutorsOK, Async, msm_atomic_commit_dispatch, Executors
<1>1. SameHeld
  BY DEF msm_atomic_commit_dispatch, Held, SameHeld
<1>2. CASE obj[c].mask \cap Crtcs # {}
  <2>1. PICK k \in Crtcs : k = FirstCrtc(obj[c].mask)
    BY <1>2, FirstCrtcType
  <2>2. /\ queue' = [queue EXCEPT ![k] = Append(@, c)]
        /\ pc' = [pc EXCEPT ![t] = IF obj[c].nonblock THEN "done" ELSE "flush"]
        /\ UNCHANGED <<run, step, ptr>>
    BY <1>c, <1>2, <2>1 DEF msm_atomic_commit_dispatch, Goto
  <2>3. /\ queue' \in [Crtcs -> Seq(Commits)]
        /\ Works(k)' = Works(k) \cup {c}
        /\ \A j \in Crtcs \ {k} : Works(j)' = Works(j)
        /\ \A j \in Crtcs : \A i, l \in DOMAIN queue'[j] :
             queue'[j][i] = queue'[j][l] => i = l
    BY <1>0, <2>1, <2>2, AppendWorks DEF IInv
  <2>4. \A d \in Commits : Queued(d)' <=> \E j \in Crtcs : d \in Works(j)'
    BY DEF Queued, Works
  <2>5. \A d \in Commits : Queued(d)' <=> Queued(d) \/ d = c
    <3>1. \A d : (\E j \in Crtcs : d \in Works(j)') <=> (\E j \in Crtcs : d \in Works(j)) \/ d = c
      BY <2>1, <2>3
    <3> QED
      BY <3>1, <2>4, QueuedWorks, Zenon
  <2>6. \A i, j \in Crtcs : i # j => Works(i)' \cap Works(j)' = {}
    BY <1>0, <2>1, <2>3, QueuedWorks DEF IInv, ExecutorsOK
  <2>7. \A d \in Commits : Async(d)' <=> Async(d) \/ d = c
    BY <2>2, <2>5 DEF Async
  <2>8. SameHolding /\ SameSwapped
    BY <1>c, <1>0, <2>2, <2>5 DEF IInv, TypeOK, CallersOK, CallerOK, Holding, SameHolding, Swapped, SameSwapped
  <2>9. SameInFlight
    BY <1>c, <1>0, <2>2, <2>8 DEF IInv, TypeOK, SameSwapped, InFlight, SameInFlight
  <2> QED
    BY <1>c, <1>1, <2>2, <2>3, <2>5, <2>6, <2>7, <2>8, <2>9
<1>3. CASE obj[c].mask \cap Crtcs = {}
  <2>2. /\ run' = [run EXCEPT ![t] = c] /\ step' = [step EXCEPT ![t] = "program"]
        /\ pc' = [pc EXCEPT ![t] = IF obj[c].nonblock THEN "done" ELSE "free"]
        /\ UNCHANGED <<queue, ptr>>
    BY <1>c, <1>3 DEF msm_atomic_commit_dispatch, Goto
  <2>5. (\A d \in Commits : Queued(d)' <=> Queued(d)) /\ \A k \in Crtcs : Works(k)' = Works(k)
    BY <2>2 DEF Queued, Works
  <2>7. \A d \in Commits : Async(d)' <=> Async(d) \/ d = c
    BY <1>c, <1>0, <2>2, <2>5, AtomicConstants DEF Async, IInv, TypeOK
  <2>8. SameHolding /\ SameSwapped
    BY <1>c, <1>0, <2>2, <2>5, AtomicConstants
       DEF IInv, TypeOK, CallersOK, CallerOK, Holding, SameHolding, Swapped, SameSwapped
  <2>9. SameInFlight
    BY <1>c, <1>0, <2>2, <2>8 DEF IInv, TypeOK, SameSwapped, InFlight, SameInFlight
  <2> QED
    BY <1>c, <1>1, <2>2, <2>5, <2>7, <2>8, <2>9 DEF IInv, ExecutorsOK, TypeOK
<1> QED
  BY <1>2, <1>3

\* The caller that returns leaves its commit.
LEMMA ReturnEffect ==
    ASSUME IInv, NEW t \in Callers, Return(t)
    PROVE  /\ \A d \in Commits : Held(d)' <=> Held(d) /\ d # ptr[t]
           /\ SameAsync /\ SameHolding /\ SameSwapped /\ SameInFlight
<1>0. pc'[t] \notin {"dispatch", "swap"} /\ pc[t] \in {"done", "failed"}
  BY DEF Return, Goto, IInv, TypeOK
<1>1. \A u \in Callers \ {t} : pc'[u] = pc[u] /\ ptr'[u] = ptr[u]
  BY DEF Return, Goto, IInv, TypeOK
<1>2. ptr'[t] = None /\ None \notin Commits /\ ptr[t] \in Commits
  <2>1. ptr' = [ptr EXCEPT ![t] = None]
    BY DEF Return
  <2> QED
    BY <1>0, <2>1, HasCommit, AtomicConstants DEF IInv, TypeOK
<1>3. \A d \in Commits : Queued(d)' <=> Queued(d)
  BY DEF Return, exec, Queued
<1>4. \A d \in Commits : Held(d)' <=> Held(d) /\ d # ptr[t]
  BY <1>1, <1>2 DEF Held, IInv, CallersOK, CallerOK
<1>5. SameAsync
  BY <1>3 DEF Return, exec, Async, SameAsync
<1>6. SameHolding /\ SameSwapped
  BY <1>0, <1>1, <1>3 DEF Return, exec, Holding, SameHolding, Swapped, SameSwapped
<1>7. SameInFlight
  BY <1>0, <1>1, <1>6 DEF SameSwapped, InFlight, SameInFlight
<1> QED
  BY <1>4, <1>5, <1>6, <1>7

\* The commit a display thread takes from its queue stays where it is.
LEMMA WorkEffect ==
    ASSUME IInv, NEW k \in Crtcs, _msm_drm_commit_work_cb(k)
    PROVE  \E c \in Commits :
           /\ SameHeld /\ SameAsync /\ SameHolding /\ SameSwapped /\ SameInFlight
           /\ run' = [run EXCEPT ![k] = c] /\ step' = [step EXCEPT ![k] = "program"]
           /\ Queued(c) /\ \A d \in Commits : Queued(d)' <=> Queued(d) /\ d # c
           /\ queue' \in [Crtcs -> Seq(Commits)]
           /\ \A i, j \in Crtcs : i # j => Works(i)' \cap Works(j)' = {}
           /\ \A h \in Crtcs : \A i, j \in DOMAIN queue'[h] :
                queue'[h][i] = queue'[h][j] => i = j
<1>1. /\ queue' \in [Crtcs -> Seq(Commits)]
      /\ Head(queue[k]) \in Commits /\ Head(queue[k]) \in Works(k)
      /\ Works(k)' = Works(k) \ {Head(queue[k])}
      /\ \A j \in Crtcs \ {k} : Works(j)' = Works(j)
      /\ \A j \in Crtcs : \A i, l \in DOMAIN queue'[j] :
           queue'[j][i] = queue'[j][l] => i = l
  BY TailWorks DEF _msm_drm_commit_work_cb, IInv
<1>2. PICK c \in Commits : c = Head(queue[k])
  BY <1>1
<1>3. /\ run' = [run EXCEPT ![k] = c] /\ step' = [step EXCEPT ![k] = "program"]
      /\ run[k] = None /\ step[k] = "idle" /\ UNCHANGED <<ptr, pc>> /\ k \in Executors
  BY <1>2 DEF _msm_drm_commit_work_cb, IInv, ExecutorsOK, Executors
<1>4. \A i, j \in Crtcs : i # j => Works(i) \cap Works(j) = {}
  BY DEF IInv, ExecutorsOK
<1>5. \A i, j \in Crtcs : i # j => Works(i)' \cap Works(j)' = {}
  BY <1>1, <1>4
<1>6. Queued(c) /\ \A d \in Commits : Queued(d)' <=> Queued(d) /\ d # c
  <2>1. \A d : (\E j \in Crtcs : d \in Works(j)') <=> (\E j \in Crtcs : d \in Works(j)) /\ d # c
    <3> SUFFICES ASSUME NEW d
                 PROVE  (\E j \in Crtcs : d \in Works(j)')
                          <=> (\E j \in Crtcs : d \in Works(j)) /\ d # c
      OBVIOUS
    <3>1. \A j \in Crtcs : d \in Works(j)' <=> d \in Works(j) /\ d # c
      BY <1>1, <1>2, <1>4
    <3> QED
      BY <3>1
  <2>2. \A d \in Commits : Queued(d)' <=> \E j \in Crtcs : d \in Works(j)'
    BY DEF Queued, Works
  <2>3. \E j \in Crtcs : c \in Works(j)
    BY <1>1, <1>2
  <2> QED
    BY <2>1, <2>2, <2>3, QueuedWorks, Zenon
<1>7. SameHeld
  BY <1>3 DEF Held, SameHeld
<1>8. SameAsync
  BY <1>3, <1>6, AtomicConstants DEF Async, SameAsync, IInv, TypeOK
<1>9. SameHolding /\ SameSwapped
  BY <1>3, <1>6, AtomicConstants
     DEF Holding, SameHolding, Swapped, SameSwapped, IInv, TypeOK
<1>10. SameInFlight
  BY <1>3, <1>9 DEF SameSwapped, InFlight, SameInFlight
<1> QED
  BY <1>1, <1>3, <1>5, <1>6, <1>7, <1>8, <1>9, <1>10

\* an executor that completes its commit goes from step a to step b
Completes(e, a, b) ==
    /\ step[e] = a /\ step' = [step EXCEPT ![e] = b]
    /\ UNCHANGED <<queue, run, pc, ptr>>

\* Completing a commit gives up its reference, and later its objects.
LEMMA CompleteEffect ==
    ASSUME IInv, NEW e \in Executors, NEW a, NEW b, Completes(e, a, b),
           <<a, b>> \in {<<"program", "cleanup">>, <<"cleanup", "end">>, <<"end", "destroy">>}
    PROVE  /\ SameHeld /\ SameAsync /\ run[e] \in Commits
           /\ \A d \in Commits : Queued(d)' <=> Queued(d)
           /\ \A d \in Commits :
                /\ Holding(d)' <=> Holding(d) /\ ~(a = "cleanup" /\ d = run[e])
                /\ Swapped(d)' <=> Swapped(d) /\ ~(a = "end" /\ d = run[e])
                /\ InFlight(d)' <=> InFlight(d) /\ ~(a = "end" /\ d = run[e])
           /\ a = "cleanup" => Holding(run[e])
           /\ Swapped(run[e])
<1>0. (a = "program" /\ b = "cleanup") \/ (a = "cleanup" /\ b = "end") \/ (a = "end" /\ b = "destroy")
  OBVIOUS
<1>1. run[e] \in Commits /\ ~Queued(run[e]) /\ \A f \in Executors : run[f] = run[e] => f = e
  BY <1>0 DEF Completes, IInv, TypeOK, ExecutorsOK
<1>2. \A t \in Callers : ptr[t] = run[e] => pc[t] \notin {"swap", "dispatch"}
  BY DEF IInv, CallersOK, CallerOK, Async
<1>3. \A d \in Commits : Queued(d)' <=> Queued(d)
  BY DEF Completes, Queued
<1>4. SameHeld /\ SameAsync
  BY <1>3 DEF Completes, Held, SameHeld, Async, SameAsync
<1>5. \A f \in Executors : step'[f] = IF f = e THEN b ELSE step[f]
  BY DEF Completes, IInv, TypeOK
<1>6. ASSUME NEW d \in Commits
      PROVE  /\ Holding(d)' <=> Holding(d) /\ ~(a = "cleanup" /\ d = run[e])
             /\ Swapped(d)' <=> Swapped(d) /\ ~(a = "end" /\ d = run[e])
  BY <1>0, <1>1, <1>2, <1>3, <1>5 DEF Completes, Holding, Swapped
<1>7. ASSUME NEW d \in Commits
      PROVE  InFlight(d)' <=> InFlight(d) /\ ~(a = "end" /\ d = run[e])
  BY <1>2, <1>6 DEF Completes, InFlight
<1>8. (a = "cleanup" => Holding(run[e])) /\ Swapped(run[e])
  BY <1>0 DEF Completes, Holding, Swapped
<1> QED
  BY <1>1, <1>3, <1>4, <1>6, <1>7, <1>8

\* The executor leaves the commit it has completed.
LEMMA DestroyEffect ==
    ASSUME IInv, NEW e \in Executors, commit_destroy(e)
    PROVE  /\ SameHeld /\ SameHolding /\ SameSwapped /\ SameInFlight /\ run[e] \in Commits
           /\ \A d \in Commits : Async(d)' <=> Async(d) /\ d # run[e]
           /\ \A d \in Commits : Queued(d)' <=> Queued(d)
           /\ Async(run[e]) /\ ~Holding(run[e]) /\ ~InFlight(run[e])
<1>1. run[e] \in Commits /\ ~Queued(run[e]) /\ \A f \in Executors : run[f] = run[e] => f = e
  BY DEF commit_destroy, IInv, TypeOK, ExecutorsOK
<1>2. Async(run[e]) /\ \A t \in Callers : ptr[t] = run[e] => pc[t] \notin {"swap", "dispatch"}
  BY DEF IInv, CallersOK, CallerOK, Async
<1>3. \A d \in Commits : Queued(d)' <=> Queued(d)
  BY DEF commit_destroy, Queued
<1>4. /\ \A f \in Executors : step'[f] = IF f = e THEN "idle" ELSE step[f]
      /\ \A f \in Executors : run'[f] = IF f = e THEN None ELSE run[f]
      /\ None \notin Commits /\ step[e] = "destroy" /\ UNCHANGED <<ptr, pc>>
  BY AtomicConstants DEF commit_destroy, IInv, TypeOK
<1>5. SameHeld
  BY <1>4 DEF Held, SameHeld
<1>6. \A d \in Commits : Async(d)' <=> Async(d) /\ d # run[e]
  BY <1>1, <1>3, <1>4 DEF Async
<1>7. ~Holding(run[e]) /\ ~InFlight(run[e])
  BY <1>1, <1>2, <1>4 DEF Holding, InFlight, Swapped
<1>8. SameHolding /\ SameSwapped
  BY <1>1, <1>3, <1>4 DEF Holding, SameHolding, Swapped, SameSwapped
<1>9. SameInFlight
  BY <1>4, <1>8 DEF SameSwapped, InFlight, SameInFlight
<1> QED
  BY <1>1, <1>2, <1>3, <1>5, <1>6, <1>7, <1>8, <1>9
-----------------------------------------------------------------------------
(* The reference counts.                                                   *)

\* The caller's own reference is counted.
LEMMA HeldRefs ==
    ASSUME IInv, NEW t \in Callers, ptr[t] # None
    PROVE  /\ ptr[t] \in Commits /\ Held(ptr[t]) /\ obj[ptr[t]].refs >= 1
           /\ Freed(obj[ptr[t]]) = [obj[ptr[t]] EXCEPT !.alive = FALSE]
<1>1. ptr[t] \in Commits /\ Held(ptr[t])
  BY DEF IInv, TypeOK, Held
<1>2. obj[ptr[t]].refs >= 1
  BY <1>1 DEF IInv, RefsExact
<1> QED
  BY <1>1, <1>2 DEF Freed

\* A caller that is about to swap holds the only reference.
LEMMA SwapRefs ==
    ASSUME IInv, NEW t \in Callers, pc[t] \in {"enter", "wait", "swap", "failed"}
    PROVE  ptr[t] \in Commits /\ obj[ptr[t]].refs = 1 /\ ~Holding(ptr[t]) /\ ~Swapped(ptr[t])
<1>1. ptr[t] \in Commits /\ Held(ptr[t])
  BY HasCommit DEF Held
<1>2. ~Holding(ptr[t]) /\ ~Swapped(ptr[t])
  BY <1>1, AtomicConstants DEF IInv, TypeOK, CallersOK, CallerOK, Async, Holding, Swapped
<1> QED
  BY <1>1, <1>2 DEF IInv, RefsExact

\* The reference of the asynchronous part is counted, and the commit it puts is
\* not freed yet: the slot stays.
LEMMA CleanupPut ==
    ASSUME IInv, NEW e \in Executors, step[e] = "cleanup"
    PROVE  /\ run[e] \in Commits /\ Holding(run[e]) /\ obj[run[e]].refs >= 1
           /\ obj[run[e]].alive
           /\ Put(obj[run[e]]) = [obj[run[e]] EXCEPT !.refs = @ - 1]
<1>1. run[e] \in Commits /\ Holding(run[e]) /\ obj[run[e]].alive
  BY DEF IInv, TypeOK, ExecutorsOK, Holding
<1>2. obj[run[e]].refs >= 1
  BY <1>1 DEF IInv, RefsExact
<1> QED
  BY <1>1, <1>2 DEF Put

\* Types: the reference counts are exact, so they stay in range.
LEMMA TypeStep ==
    IInv /\ [Next]_vars => TypeOK'
<1> SUFFICES ASSUME IInv, [Next]_vars PROVE TypeOK'
  OBVIOUS
<1> USE DEF IInv
<1>0. /\ Clients \subseteq Callers /\ "close" \in Callers /\ Callers \subseteq Executors
      /\ Crtcs \subseteq Executors /\ Crtcs \subseteq Objects /\ \A c \in Commits : obj[c] \in Rec
  BY DEF Callers, Executors, Objects, Rec, TypeOK
<1>1. ASSUME NEW t \in Clients, NEW c \in Commits, NEW mask \in SUBSET Objects,
             NEW on \in {"on", "off"}, NEW nonblock \in BOOLEAN,
             Ioctl(t, c, mask, on, nonblock)
      PROVE  TypeOK'
  BY <1>0, <1>1 DEF Ioctl, NewState, Goto, TypeOK, exec, swhw
<1>2. ASSUME NEW c \in Commits, NEW h \in {"release", "shutdown"}, msm_lastclose(c, h)
      PROVE  TypeOK'
  BY <1>0, <1>2 DEF msm_lastclose, NewState, Goto, TypeOK, exec, swhw
<1>3. ASSUME NEW c \in Commits, sde_kms_lastclose(c) PROVE TypeOK'
  BY <1>0, <1>3 DEF sde_kms_lastclose, NewState, Goto, TypeOK, exec, swhw
<1>4. CASE msm_pdev_shutdown
  BY <1>0, <1>4 DEF msm_pdev_shutdown, Goto, TypeOK, exec, swhw
<1>5. ASSUME NEW t \in Callers, commit_init(t) PROVE TypeOK'
  <2>1. ptr[t] \in Commits
    BY <1>5, HasCommit DEF commit_init
  <2>2. obj' = [obj EXCEPT ![ptr[t]] = [obj[ptr[t]] EXCEPT !.alive = TRUE]]
    BY <1>5, Zenon DEF commit_init
  <2>3. [obj[ptr[t]] EXCEPT !.alive = TRUE] \in Rec
    BY <1>0, <2>1, RecType
  <2>4. obj' \in [Commits -> Rec]
    BY <2>2, <2>3 DEF TypeOK, Rec
  <2> QED
    BY <1>0, <1>5, <2>4 DEF Rec, commit_init, Goto, TypeOK, exec, swhw
<1>6. ASSUME NEW t \in Callers, start_atomic(t) PROVE TypeOK'
  <2>1. ptr[t] \in Commits
    BY <1>6, SwapRefs DEF start_atomic
  <2> QED
    BY <1>0, <1>6, <2>1 DEF start_atomic, Goto, TypeOK, exec, swhw
<1>7. ASSUME NEW t \in Callers, swap_state(t) PROVE TypeOK'
  <2>1. ptr[t] \in Commits /\ obj[ptr[t]].refs = 1
    BY <1>7, SwapRefs DEF swap_state
  <2>2. active' \in [Crtcs -> BOOLEAN]
    BY <1>7, Zenon DEF swap_state, TypeOK
  <2>3. owner' \in [Objects -> Commits \cup {None}]
    BY <1>7, <2>1 DEF swap_state, TypeOK
  <2>4. [obj[ptr[t]] EXCEPT !.refs = 2] \in Rec
    <3>1. 2 \in 0 .. 2 /\ obj[ptr[t]] \in Rec
      BY <1>0, <2>1
    <3> QED
      BY <3>1, RecType, Zenon
  <2>5. obj' = [obj EXCEPT ![ptr[t]] = [obj[ptr[t]] EXCEPT !.refs = 2]]
    BY <1>7, <2>1 DEF swap_state, TypeOK
  <2>6. obj' \in [Commits -> Rec]
    BY <2>4, <2>5 DEF TypeOK, Rec
  <2> QED
    BY <1>0, <1>7, <2>2, <2>3, <2>6 DEF Rec, swap_state, Goto, TypeOK, exec
<1>8. ASSUME NEW t \in Callers, msm_atomic_commit_dispatch(t) PROVE TypeOK'
  <2>1. queue' \in [Crtcs -> Seq(Commits)]
    BY <1>8, DispatchEffect
  <2>2. pc' \in [Callers -> {"idle", "enter", "wait", "swap", "dispatch", "flush", "free",
                           "done", "failed", "reset", "flag"}]
    BY <1>8 DEF msm_atomic_commit_dispatch, Goto, TypeOK
  <2> QED
    BY <1>0, <1>8, <2>1, <2>2 DEF msm_atomic_commit_dispatch, TypeOK, swhw
<1>9. ASSUME NEW t \in Callers, flush_work(t) PROVE TypeOK'
  BY <1>0, <1>9 DEF flush_work, Goto, TypeOK, exec, swhw
<1>10. ASSUME NEW t \in Callers, free_commit(t) PROVE TypeOK'
  <2>1. ptr[t] \in Commits /\ Freed(obj[ptr[t]]) = [obj[ptr[t]] EXCEPT !.alive = FALSE]
    BY <1>10, HasCommit, HeldRefs DEF free_commit
  <2>2. Freed(obj[ptr[t]]) \in Rec
    BY <1>0, <2>1, RecType
  <2>3. obj' \in [Commits -> Rec]
    BY <1>10, <2>2 DEF free_commit, TypeOK, Rec
  <2> QED
    BY <1>0, <1>10, <2>3 DEF free_commit, Rec, Goto, TypeOK, exec, swhw
<1>11. ASSUME NEW t \in Callers, Return(t) PROVE TypeOK'
  <2>1. ptr[t] \in Commits /\ obj[ptr[t]].refs >= 1
    <3>1. pc[t] \in {"done", "failed"}
      BY <1>11 DEF Return
    <3> QED
      BY <3>1, HasCommit, HeldRefs
  <2>2. Put(obj[ptr[t]]) \in Rec
    <3>1. obj[ptr[t]].refs - 1 \in 0 .. 2
      BY <2>1 DEF TypeOK
    <3> QED
      BY <1>0, <2>1, <3>1, RecType DEF Put
  <2>3. obj' \in [Commits -> Rec]
    BY <1>11, <2>1, <2>2 DEF Return, TypeOK, Rec
  <2>4. lock' \in [Objects -> Callers \cup {None}]
    BY <1>11 DEF Return, TypeOK
  <2>5. pc' \in [Callers -> {"idle", "enter", "wait", "swap", "dispatch", "flush", "free",
                           "done", "failed", "reset", "flag"}]
    BY <1>11 DEF Return, Goto, TypeOK
  <2> QED
    BY <1>0, <1>11, <2>3, <2>4, <2>5 DEF Rec, Return, TypeOK, exec, swhw
<1>12. ASSUME NEW t \in Callers, commit_refused(t) PROVE TypeOK'
  BY <1>0, <1>12 DEF commit_refused, Goto, TypeOK, exec, swhw
<1>13. ASSUME NEW t \in Callers, start_atomic_interrupted(t) PROVE TypeOK'
  <2>1. ptr[t] \in Commits /\ Freed(obj[ptr[t]]) = [obj[ptr[t]] EXCEPT !.alive = FALSE]
    BY <1>13, HasCommit, HeldRefs DEF start_atomic_interrupted
  <2>2. Freed(obj[ptr[t]]) \in Rec
    BY <1>0, <2>1, RecType
  <2>3. obj' \in [Commits -> Rec]
    BY <1>13, <2>2 DEF start_atomic_interrupted, TypeOK, Rec
  <2> QED
    BY <1>0, <1>13, <2>3 DEF start_atomic_interrupted, Rec, Goto, TypeOK, exec, swhw
<1>14. ASSUME NEW e \in Executors, program_hw(e) PROVE TypeOK'
  <2>1. hw' \in [Crtcs -> BOOLEAN]
    BY <1>14, Zenon DEF program_hw, TypeOK
  <2> QED
    BY <1>0, <1>14, <2>1 DEF program_hw, TypeOK
<1>15. ASSUME NEW e \in Executors, complete_put(e) PROVE TypeOK'
  <2>1. /\ run[e] \in Commits /\ obj[run[e]].refs >= 1
        /\ Put(obj[run[e]]) = [obj[run[e]] EXCEPT !.refs = @ - 1]
    BY <1>15, CleanupPut DEF complete_put
  <2>2. obj[run[e]].refs - 1 \in 0 .. 2
    BY <2>1 DEF TypeOK
  <2>3. Put(obj[run[e]]) \in Rec
    <3>1. obj[run[e]] \in Rec
      BY <1>0, <2>1
    <3> QED
      BY <2>1, <2>2, <3>1, RecType, Zenon
  <2>4. obj' \in [Commits -> Rec]
    BY <1>15, <2>3 DEF complete_put, TypeOK, Rec
  <2> QED
    BY <1>0, <1>15, <2>4 DEF Rec, complete_put, TypeOK, swhw
<1>16. ASSUME NEW e \in Executors, end_atomic(e) PROVE TypeOK'
  <2>1. owner' \in [Objects -> Commits \cup {None}]
    BY <1>16 DEF end_atomic, TypeOK
  <2> QED
    BY <1>0, <1>16, <2>1 DEF end_atomic, TypeOK
<1>17. ASSUME NEW e \in Executors, commit_destroy(e) PROVE TypeOK'
  <2>1. run[e] \in Commits
    BY <1>17, DestroyEffect
  <2>2. Freed(obj[run[e]]) \in Rec
    BY <1>0, <2>1, RecType DEF Freed
  <2>3. obj' \in [Commits -> Rec]
    BY <1>17, <2>1, <2>2 DEF commit_destroy, TypeOK, Rec
  <2> QED
    BY <1>0, <1>17, <2>3 DEF Rec, commit_destroy, TypeOK, swhw
<1>18. ASSUME NEW k \in Crtcs, _msm_drm_commit_work_cb(k) PROVE TypeOK'
  <2>1. PICK c \in Commits :
          /\ run' = [run EXCEPT ![k] = c] /\ step' = [step EXCEPT ![k] = "program"]
          /\ queue' \in [Crtcs -> Seq(Commits)]
    BY <1>18, WorkEffect
  <2> QED
    BY <1>0, <1>18, <2>1 DEF _msm_drm_commit_work_cb, TypeOK, swhw
<1>19. CASE UNCHANGED vars
  BY <1>19 DEF vars, TypeOK
<1> QED
  BY <1>0, <1>1, <1>2, <1>3, <1>4, <1>5, <1>6, <1>7, <1>8, <1>9, <1>10, <1>11, <1>12, <1>13,
     <1>14, <1>15, <1>16, <1>17, <1>18, <1>19
     DEF Next, CallerStep, CloseStep, CompleteStep, Worker

\* The three operations that make a commit.
LEMMA NewCommits ==
    /\ \A t \in Clients, c \in Commits, mask \in SUBSET Objects, on \in {"on", "off"},
          nonblock \in BOOLEAN : Ioctl(t, c, mask, on, nonblock) => NewCommit(t, c)
    /\ \A c \in Commits, h \in {"release", "shutdown"} :
          msm_lastclose(c, h) => NewCommit("close", c)
    /\ \A c \in Commits : sde_kms_lastclose(c) => NewCommit("close", c)
<1>1. ASSUME NEW t \in Clients, NEW c \in Commits, NEW mask \in SUBSET Objects,
             NEW on \in {"on", "off"}, NEW nonblock \in BOOLEAN,
             Ioctl(t, c, mask, on, nonblock)
      PROVE  NewCommit(t, c)
  BY <1>1 DEF Ioctl, NewState, NewCommit, Goto
<1>2. ASSUME NEW c \in Commits, NEW h \in {"release", "shutdown"}, msm_lastclose(c, h)
      PROVE  NewCommit("close", c)
  BY <1>2 DEF msm_lastclose, NewState, NewCommit, Goto
<1>3. ASSUME NEW c \in Commits, sde_kms_lastclose(c) PROVE NewCommit("close", c)
  BY <1>3 DEF sde_kms_lastclose, NewState, NewCommit, Goto
<1> QED
  BY <1>1, <1>2, <1>3

\* the steps, the making of a commit being one
StepOf ==
    \/ \E t \in Callers, c \in Commits : NewCommit(t, c)
    \/ msm_pdev_shutdown
    \/ \E t \in Callers : \/ CallerStep(t) \/ commit_refused(t) \/ start_atomic_interrupted(t)
    \/ \E e \in Executors : CompleteStep(e)
    \/ \E k \in Crtcs : _msm_drm_commit_work_cb(k)
    \/ UNCHANGED vars

\* Every step of the system is one of these.
LEMMA NextStepOf == [Next]_vars => StepOf
<1> SUFFICES ASSUME [Next]_vars PROVE StepOf
  OBVIOUS
<1>0. /\ Clients \subseteq Callers /\ "close" \in Callers /\ Callers \subseteq Executors
      /\ Crtcs \subseteq Executors
  BY DEF Callers, Executors
<1>1. CASE \E t \in Clients, c \in Commits, mask \in SUBSET Objects, on \in {"on", "off"},
             nonblock \in BOOLEAN : Ioctl(t, c, mask, on, nonblock)
  BY <1>0, <1>1, NewCommits, Zenon DEF StepOf
<1>2. CASE \E c \in Commits, h \in {"release", "shutdown"} : msm_lastclose(c, h)
  BY <1>0, <1>2, NewCommits, Zenon DEF StepOf
<1>3. CASE CloseStep
  BY <1>0, <1>3, NewCommits, Zenon DEF StepOf, CloseStep
<1>4. ASSUME NEW t \in Callers, \/ CallerStep(t) \/ commit_refused(t)
                                \/ start_atomic_interrupted(t) \/ CompleteStep(t)
      PROVE  StepOf
  BY <1>0, <1>4, Zenon DEF StepOf
<1>5. ASSUME NEW k \in Crtcs, Worker(k) PROVE StepOf
  BY <1>0, <1>5, Zenon DEF StepOf, Worker
<1>6. CASE UNCHANGED vars
  BY <1>6 DEF StepOf
<1> QED
  BY <1>1, <1>2, <1>3, <1>4, <1>5, <1>6 DEF Next

\* a step that concerns no commit
Quiet ==
    /\ UNCHANGED <<ptr, obj, exec, swhw, pending>>
    /\ \A t \in Callers : pc'[t] # pc[t] =>
         ptr[t] = None /\ pc[t] = "flag" /\ pc'[t] = "idle"

\* The shutdown and a stuttering step concern no commit.
LEMMA QuietSteps ==
    ASSUME IInv, msm_pdev_shutdown \/ UNCHANGED vars
    PROVE  Quiet
<1>1. "close" \in Callers
  BY DEF Callers
<1>2. CASE msm_pdev_shutdown
  <2>1. ptr["close"] = None
    BY <1>1, <1>2 DEF msm_pdev_shutdown, IInv, CallersOK, CallerOK
  <2> QED
    BY <1>1, <1>2, <2>1 DEF msm_pdev_shutdown, IInv, TypeOK, Goto, Quiet
<1>3. CASE UNCHANGED vars
  BY <1>3 DEF vars, Quiet, exec, swhw
<1> QED
  BY <1>2, <1>3

\* Such a step moves no commit.
LEMMA QuietEffect ==
    ASSUME IInv, Quiet
    PROVE  SameHeld /\ SameAsync /\ SameHolding /\ SameSwapped /\ SameInFlight
<1>1. \A d \in Commits : Queued(d)' <=> Queued(d)
  BY DEF Quiet, exec, Queued
<1>2. SameHeld /\ SameAsync
  BY <1>1 DEF Quiet, exec, Async, SameAsync, Held, SameHeld
<1>3. SameHolding /\ SameSwapped
  BY <1>1, AtomicConstants DEF Quiet, exec, Holding, SameHolding, Swapped, SameSwapped
<1>4. SameInFlight
  BY <1>3, AtomicConstants DEF Quiet, SameSwapped, InFlight, SameInFlight
<1> QED
  BY <1>2, <1>3, <1>4

\* The steps by which a caller moves on.
LEMMA Advances ==
    ASSUME IInv, NEW t \in Callers
    PROVE  /\ commit_init(t) => Advance(t, "wait")
           /\ commit_refused(t) => Advance(t, "failed")
           /\ start_atomic_interrupted(t) => Advance(t, "failed")
           /\ flush_work(t) => Advance(t, "free")
           /\ free_commit(t) => Advance(t, "done")
BY DEF commit_init, commit_refused, start_atomic_interrupted, flush_work, free_commit,
       Goto, Advance, Plain

\* The steps by which an executor completes its commit.
LEMMA Completions ==
    ASSUME NEW e \in Executors
    PROVE  /\ program_hw(e) => Completes(e, "program", "cleanup")
           /\ complete_put(e) => Completes(e, "cleanup", "end")
           /\ end_atomic(e) => Completes(e, "end", "destroy")
BY DEF program_hw, complete_put, end_atomic, Completes

\* References: every step that takes or puts one moves the commit accordingly.
LEMMA RefsStep ==
    IInv /\ [Next]_vars => RefsExact'
<1> SUFFICES ASSUME IInv, [Next]_vars PROVE RefsExact'
  OBVIOUS
<1> DEFINE Count(d) == (IF Held(d) THEN 1 ELSE 0) + (IF Holding(d) THEN 1 ELSE 0)
<1>0. /\ \A d \in Commits : obj[d].refs = Count(d)
      /\ \A d \in Commits : obj[d].refs \in 0 .. 2
      /\ obj = [d \in Commits |-> obj[d]]
  BY DEF IInv, RefsExact, TypeOK
<1>a. ASSUME SameHeld, SameHolding, \A d \in Commits : obj'[d].refs = obj[d].refs
      PROVE  RefsExact'
  BY <1>0, <1>a DEF RefsExact, SameHeld, SameHolding
<1>1. ASSUME NEW t \in Callers, NEW c \in Commits, NewCommit(t, c) PROVE RefsExact'
  <2>1. ~Held(c) /\ ~Holding(c)
    BY <1>1, FreeIsNowhere DEF NewCommit
  <2>2. obj'[c].refs = 1 /\ \A d \in Commits \ {c} : obj'[d] = obj[d]
    BY <1>0, <1>1 DEF NewCommit
  <2> QED
    BY <1>0, <1>1, <2>1, <2>2, NewEffect DEF RefsExact, SameHolding
<1>2. CASE msm_pdev_shutdown \/ UNCHANGED vars
  BY <1>2, <1>a, QuietSteps, QuietEffect DEF Quiet
<1>3. ASSUME NEW t \in Callers, commit_init(t) PROVE RefsExact'
  <2>1. \A d \in Commits : obj'[d].refs = obj[d].refs
    BY <1>0, <1>3 DEF commit_init
  <2> QED
    BY <1>3, <1>a, <2>1, Advances, AdvanceEffect
<1>4. ASSUME NEW t \in Callers, commit_refused(t) \/ flush_work(t) PROVE RefsExact'
  <2>1. obj' = obj
    BY <1>4 DEF commit_refused, flush_work
  <2> QED
    BY <1>4, <1>a, <2>1, Advances, AdvanceEffect
<1>5. ASSUME NEW t \in Callers, start_atomic_interrupted(t) \/ free_commit(t) PROVE RefsExact'
  <2>1. Freed(obj[ptr[t]]) = [obj[ptr[t]] EXCEPT !.alive = FALSE]
    BY <1>5, HasCommit, HeldRefs DEF start_atomic_interrupted, free_commit
  <2>2. obj' = [obj EXCEPT ![ptr[t]] = Freed(obj[ptr[t]])]
    BY <1>5 DEF start_atomic_interrupted, free_commit
  <2>3. \A d \in Commits : obj'[d].refs = obj[d].refs
    BY <1>0, <2>1, <2>2
  <2> QED
    BY <1>5, <1>a, <2>3, Advances, AdvanceEffect
<1>6. ASSUME NEW t \in Callers, start_atomic(t) PROVE RefsExact'
  BY <1>6, <1>a, StartEffect DEF start_atomic
<1>7. ASSUME NEW t \in Callers, swap_state(t) PROVE RefsExact'
  <2>1. ptr[t] \in Commits /\ ~Holding(ptr[t])
    BY <1>7, SwapRefs DEF swap_state
  <2>2. obj'[ptr[t]].refs = obj[ptr[t]].refs + 1 /\ \A d \in Commits \ {ptr[t]} : obj'[d] = obj[d]
    BY <1>0, <1>7, <2>1 DEF swap_state
  <2> QED
    BY <1>0, <1>7, <2>1, <2>2, SwapEffect DEF RefsExact, SameHeld
<1>8. ASSUME NEW t \in Callers, msm_atomic_commit_dispatch(t) PROVE RefsExact'
  BY <1>8, <1>a, DispatchEffect DEF msm_atomic_commit_dispatch
<1>9. ASSUME NEW t \in Callers, Return(t) PROVE RefsExact'
  <2>1. ptr[t] \in Commits /\ Held(ptr[t])
    <3>1. pc[t] \in {"done", "failed"}
      BY <1>9 DEF Return
    <3> QED
      BY <3>1, HasCommit, HeldRefs
  <2>2. obj' = [obj EXCEPT ![ptr[t]] = Put(obj[ptr[t]])]
    BY <1>9 DEF Return
  <2>3. Put(obj[ptr[t]]).refs = obj[ptr[t]].refs - 1
    BY <1>0, <2>1 DEF Put, FreeSlot, IInv, TypeOK
  <2> QED
    BY <1>0, <1>9, <2>1, <2>2, <2>3, ReturnEffect DEF RefsExact, SameHolding
<1>10. ASSUME NEW e \in Executors, program_hw(e) \/ end_atomic(e) PROVE RefsExact'
  <2>1. obj' = obj
    BY <1>10 DEF program_hw, end_atomic
  <2>2. SameHeld /\ SameHolding
    BY <1>10, Completions, CompleteEffect DEF SameHolding
  <2> QED
    BY <1>a, <2>1, <2>2
<1>11. ASSUME NEW e \in Executors, complete_put(e) PROVE RefsExact'
  <2>1. /\ SameHeld /\ run[e] \in Commits
        /\ \A d \in Commits : Holding(d)' <=> Holding(d) /\ d # run[e]
    BY <1>11, Completions, CompleteEffect
  <2>2. Holding(run[e]) /\ Put(obj[run[e]]) = [obj[run[e]] EXCEPT !.refs = @ - 1]
    BY <1>11, CleanupPut DEF complete_put
  <2>3. obj' = [obj EXCEPT ![run[e]] = Put(obj[run[e]])]
    BY <1>11 DEF complete_put
  <2>4. obj'[run[e]].refs = obj[run[e]].refs - 1 /\ \A d \in Commits \ {run[e]} : obj'[d] = obj[d]
    BY <1>0, <2>1, <2>2, <2>3 DEF IInv, TypeOK
  <2> QED
    BY <1>0, <2>1, <2>2, <2>4 DEF RefsExact, SameHeld
<1>12. ASSUME NEW e \in Executors, commit_destroy(e) PROVE RefsExact'
  <2>1. Freed(obj[run[e]]).refs = obj[run[e]].refs /\ run[e] \in Commits
    BY <1>0, <1>12, DestroyEffect DEF Freed, FreeSlot, IInv, TypeOK
  <2>2. \A d \in Commits : obj'[d].refs = obj[d].refs
    BY <1>0, <1>12, <2>1 DEF commit_destroy
  <2> QED
    BY <1>12, <1>a, <2>2, DestroyEffect
<1>13. ASSUME NEW k \in Crtcs, _msm_drm_commit_work_cb(k) PROVE RefsExact'
  BY <1>13, <1>a, WorkEffect DEF _msm_drm_commit_work_cb
<1> QED
  BY <1>1, <1>2, <1>3, <1>4, <1>5, <1>6, <1>7, <1>8, <1>9, <1>10, <1>11, <1>12, <1>13,
     NextStepOf DEF StepOf, CallerStep, CompleteStep
-----------------------------------------------------------------------------
(* Commits in flight.                                                      *)

\* A commit in flight is not freed.
LEMMA FlightAlive ==
    ASSUME IInv, NEW c \in Commits, InFlight(c)
    PROVE  obj[c].alive
BY AtomicConstants DEF InFlight, Swapped, IInv, CallersOK, CallerOK, ExecutorsOK

\* A commit in flight keeps its contents.
LEMMA MaskKept ==
    ASSUME IInv, [Next]_vars, NEW d \in Commits, InFlight(d)
    PROVE  obj'[d].mask = obj[d].mask
<1>0. obj[d].alive /\ obj = [c \in Commits |-> obj[c]] /\ obj[d] # FreeSlot
  BY FlightAlive DEF IInv, TypeOK, FreeSlot
<1>1. ASSUME NEW t \in Callers, NEW c \in Commits, NewCommit(t, c) PROVE obj'[d] = obj[d]
  BY <1>0, <1>1 DEF NewCommit
<1>2. CASE msm_pdev_shutdown \/ UNCHANGED vars
  BY <1>2, QuietSteps DEF Quiet
<1>3. ASSUME NEW t \in Callers, commit_init(t) PROVE obj'[d].mask = obj[d].mask
  BY <1>0, <1>3 DEF commit_init
<1>4. ASSUME NEW t \in Callers, \/ commit_refused(t) \/ flush_work(t) \/ start_atomic(t)
                                \/ msm_atomic_commit_dispatch(t)
      PROVE  obj' = obj
  BY <1>4 DEF commit_refused, flush_work, start_atomic, msm_atomic_commit_dispatch
<1>5. ASSUME NEW t \in Callers, start_atomic_interrupted(t) \/ free_commit(t)
      PROVE  obj'[d].mask = obj[d].mask
  <2>1. Freed(obj[ptr[t]]) = [obj[ptr[t]] EXCEPT !.alive = FALSE]
    BY <1>5, HasCommit, HeldRefs DEF start_atomic_interrupted, free_commit
  <2>2. obj' = [obj EXCEPT ![ptr[t]] = Freed(obj[ptr[t]])]
    BY <1>5 DEF start_atomic_interrupted, free_commit
  <2> QED
    BY <1>0, <2>1, <2>2
<1>6. ASSUME NEW t \in Callers, swap_state(t) PROVE obj'[d].mask = obj[d].mask
  BY <1>0, <1>6 DEF swap_state
<1>7. ASSUME NEW t \in Callers, Return(t) PROVE obj'[d].mask = obj[d].mask
  <2>1. obj' = [obj EXCEPT ![ptr[t]] = Put(obj[ptr[t]])]
    BY <1>7 DEF Return
  <2> QED
    BY <1>0, <2>1 DEF Put
<1>8. ASSUME NEW e \in Executors, program_hw(e) \/ end_atomic(e) PROVE obj' = obj
  BY <1>8 DEF program_hw, end_atomic
<1>9. ASSUME NEW e \in Executors, complete_put(e) PROVE obj'[d].mask = obj[d].mask
  <2>1. obj' = [obj EXCEPT ![run[e]] = Put(obj[run[e]])]
    BY <1>9 DEF complete_put
  <2> QED
    BY <1>0, <2>1 DEF Put
<1>10. ASSUME NEW e \in Executors, commit_destroy(e) PROVE obj'[d] = obj[d]
  <2>1. d # run[e]
    BY <1>10, DestroyEffect
  <2> QED
    BY <1>0, <1>10, <2>1 DEF commit_destroy
<1>11. ASSUME NEW k \in Crtcs, _msm_drm_commit_work_cb(k) PROVE obj' = obj
  BY <1>11 DEF _msm_drm_commit_work_cb
<1> QED
  BY <1>1, <1>2, <1>3, <1>4, <1>5, <1>6, <1>7, <1>8, <1>9, <1>10, <1>11,
     NextStepOf DEF StepOf, CallerStep, CompleteStep

\* The commits in flight stay apart: start_atomic waits for the objects, and only
\* end_atomic gives them back.
LEMMA FlightStep ==
    IInv /\ [Next]_vars => FlightOK'
<1> SUFFICES ASSUME IInv, [Next]_vars PROVE FlightOK'
  OBVIOUS
<1>0. /\ \A d \in Commits : InFlight(d) => obj'[d].mask = obj[d].mask
      /\ \A d \in Commits : Swapped(d) => InFlight(d)
      /\ \A d \in Commits : obj[d].mask \subseteq Objects
      /\ FlightOK
  BY MaskKept DEF InFlight, IInv, TypeOK
<1>a. ASSUME SameSwapped, SameInFlight, UNCHANGED <<pending, owner>> PROVE FlightOK'
  BY <1>0, <1>a DEF FlightOK, SameSwapped, SameInFlight
<1>1. ASSUME NEW t \in Callers, NEW c \in Commits, NewCommit(t, c) PROVE FlightOK'
  BY <1>a, <1>1, NewEffect DEF NewCommit, swhw
<1>2. CASE msm_pdev_shutdown \/ UNCHANGED vars
  BY <1>a, <1>2, QuietSteps, QuietEffect DEF Quiet, swhw
<1>3. ASSUME NEW t \in Callers, \/ commit_init(t) \/ commit_refused(t) \/ flush_work(t)
                                \/ start_atomic_interrupted(t) \/ free_commit(t)
      PROVE  FlightOK'
  <2>1. UNCHANGED <<pending, owner>>
    BY <1>3 DEF commit_init, commit_refused, flush_work, start_atomic_interrupted,
                free_commit, swhw
  <2> QED
    BY <1>a, <1>3, <2>1, Advances, AdvanceEffect
<1>4. ASSUME NEW t \in Callers, start_atomic(t) PROVE FlightOK'
  <2>1. /\ SameSwapped /\ \A d \in Commits : InFlight(d)' <=> InFlight(d) \/ d = ptr[t]
        /\ ptr[t] \in Commits
    BY <1>4, StartEffect, HasCommit DEF start_atomic
  <2>2. /\ obj' = obj /\ owner' = owner /\ pending' = pending \cup obj[ptr[t]].mask
        /\ obj[ptr[t]].mask \cap pending = {}
    BY <1>4 DEF start_atomic, swhw
  <2> QED
    BY <1>0, <2>1, <2>2 DEF FlightOK, SameSwapped
<1>5. ASSUME NEW t \in Callers, swap_state(t) PROVE FlightOK'
  <2>1. /\ SameInFlight /\ \A d \in Commits : Swapped(d)' <=> Swapped(d) \/ d = ptr[t]
        /\ ptr[t] \in Commits /\ InFlight(ptr[t])
    BY <1>5, SwapEffect, HasCommit DEF swap_state, InFlight
  <2>2. /\ pending' = pending
        /\ \A r \in Objects : owner'[r] = IF r \in obj[ptr[t]].mask THEN ptr[t] ELSE owner[r]
    BY <1>5 DEF swap_state
  <2>3. ASSUME NEW c \in Commits, Swapped(c)' PROVE \A r \in obj'[c].mask : owner'[r] = c
    BY <1>0, <2>1, <2>2, <2>3 DEF FlightOK
  <2> QED
    BY <1>0, <2>1, <2>2, <2>3 DEF FlightOK, SameInFlight
<1>6. ASSUME NEW t \in Callers, msm_atomic_commit_dispatch(t) PROVE FlightOK'
  BY <1>a, <1>6, DispatchEffect DEF msm_atomic_commit_dispatch, swhw
<1>7. ASSUME NEW t \in Callers, Return(t) PROVE FlightOK'
  BY <1>a, <1>7, ReturnEffect DEF Return, swhw
<1>8. ASSUME NEW e \in Executors, program_hw(e) \/ complete_put(e) PROVE FlightOK'
  <2>1. SameSwapped /\ SameInFlight
    BY <1>8, Completions, CompleteEffect DEF SameSwapped, SameInFlight
  <2> QED
    BY <1>a, <1>8, <2>1 DEF program_hw, complete_put, swhw
<1>9. ASSUME NEW e \in Executors, end_atomic(e) PROVE FlightOK'
  <2>1. /\ run[e] \in Commits /\ Swapped(run[e])
        /\ \A d \in Commits : Swapped(d)' <=> Swapped(d) /\ d # run[e]
        /\ \A d \in Commits : InFlight(d)' <=> InFlight(d) /\ d # run[e]
    BY <1>9, Completions, CompleteEffect
  <2>2. /\ pending' = pending \ obj[run[e]].mask
        /\ \A r \in Objects : owner'[r] = IF r \in obj[run[e]].mask THEN None ELSE owner[r]
    BY <1>9 DEF end_atomic
  <2> QED
    BY <1>0, <2>1, <2>2 DEF FlightOK
<1>10. ASSUME NEW e \in Executors, commit_destroy(e) PROVE FlightOK'
  BY <1>a, <1>10, DestroyEffect DEF commit_destroy, swhw
<1>11. ASSUME NEW k \in Crtcs, _msm_drm_commit_work_cb(k) PROVE FlightOK'
  BY <1>a, <1>11, WorkEffect DEF _msm_drm_commit_work_cb, swhw
<1> QED
  BY <1>1, <1>2, <1>3, <1>4, <1>5, <1>6, <1>7, <1>8, <1>9, <1>10, <1>11,
     NextStepOf DEF StepOf, CallerStep, CompleteStep

\* The hardware shows the software state wherever no commit is pending: the
\* commit that gives a crtc back has programmed it.
LEMMA HwStep ==
    IInv /\ [Next]_vars => SwHwInSync' /\ Programmed'
<1> SUFFICES ASSUME IInv, [Next]_vars PROVE SwHwInSync' /\ Programmed'
  OBVIOUS
<1>0. /\ \A d \in Commits : InFlight(d) => obj'[d].mask = obj[d].mask
      /\ \A f \in Executors : step[f] \in {"program", "cleanup", "end"} =>
            run[f] \in Commits /\ InFlight(run[f])
      /\ Programmed /\ SwHwInSync /\ FlightOK
  <2>1. \A f \in Executors : step[f] \in {"program", "cleanup", "end"} => run[f] \in Commits
    BY DEF IInv, TypeOK, ExecutorsOK
  <2> QED
    BY <2>1, MaskKept DEF InFlight, Swapped, IInv
<1>a. ASSUME UNCHANGED <<pending, active, hw>>,
             \A f \in Executors : step'[f] \in {"cleanup", "end"} =>
                step[f] \in {"cleanup", "end"} /\ run'[f] = run[f]
      PROVE  SwHwInSync' /\ Programmed'
  BY <1>0, <1>a DEF SwHwInSync, Programmed
<1>1. ASSUME NEW t \in Callers, NEW c \in Commits, NewCommit(t, c)
      PROVE  SwHwInSync' /\ Programmed'
  BY <1>a, <1>1 DEF NewCommit, swhw, exec
<1>2. CASE msm_pdev_shutdown \/ UNCHANGED vars
  BY <1>a, <1>2, QuietSteps DEF Quiet, swhw, exec
<1>3. ASSUME NEW t \in Callers, \/ commit_init(t) \/ commit_refused(t) \/ flush_work(t)
                                \/ start_atomic_interrupted(t) \/ free_commit(t) \/ Return(t)
      PROVE  SwHwInSync' /\ Programmed'
  <2>1. UNCHANGED <<pending, active, hw, run, step>>
    BY <1>3 DEF commit_init, commit_refused, flush_work, start_atomic_interrupted,
                free_commit, Return, swhw, exec
  <2> QED
    BY <1>a, <2>1
<1>4. ASSUME NEW t \in Callers, start_atomic(t) PROVE SwHwInSync' /\ Programmed'
  <2>1. UNCHANGED <<active, hw, run, step>> /\ pending \subseteq pending'
    BY <1>4 DEF start_atomic, swhw, exec
  <2> QED
    BY <1>0, <2>1 DEF SwHwInSync, Programmed
<1>5. ASSUME NEW t \in Callers, swap_state(t) PROVE SwHwInSync' /\ Programmed'
  <2>1. ptr[t] \in Commits /\ InFlight(ptr[t]) /\ ~Swapped(ptr[t])
    BY <1>5, HasCommit, SwapRefs DEF swap_state, InFlight
  <2>2. /\ UNCHANGED <<pending, hw, run, step>>
        /\ \A k \in Crtcs \ obj[ptr[t]].mask : active'[k] = active[k]
    BY <1>5 DEF swap_state, exec
  <2>3. \A f \in Executors : step[f] \in {"cleanup", "end"} => run[f] # ptr[t]
    BY <2>1 DEF Swapped
  <2> QED
    BY <1>0, <2>1, <2>2, <2>3 DEF SwHwInSync, Programmed, FlightOK
<1>6. ASSUME NEW t \in Callers, msm_atomic_commit_dispatch(t) PROVE SwHwInSync' /\ Programmed'
  <2>1. UNCHANGED <<pending, active, hw>>
    BY <1>6 DEF msm_atomic_commit_dispatch, swhw
  <2>2. UNCHANGED <<run, step>> \/ /\ run' = [run EXCEPT ![t] = ptr[t]]
                                   /\ step' = [step EXCEPT ![t] = "program"]
    BY <1>6 DEF msm_atomic_commit_dispatch
  <2>3. \A f \in Executors : step'[f] \in {"cleanup", "end"} =>
           step[f] \in {"cleanup", "end"} /\ run'[f] = run[f]
    BY <2>2 DEF IInv, TypeOK
  <2> QED
    BY <1>a, <2>1, <2>3
<1>7. ASSUME NEW e \in Executors, program_hw(e) PROVE SwHwInSync' /\ Programmed'
  <2>1. /\ UNCHANGED <<pending, active, run>>
        /\ \A f \in Executors : step'[f] = IF f = e THEN "cleanup" ELSE step[f]
        /\ \A k \in Crtcs : hw'[k] = IF k \in obj[run[e]].mask THEN active[k] ELSE hw[k]
        /\ step[e] = "program"
    BY <1>7 DEF program_hw, IInv, TypeOK
  <2> QED
    BY <1>0, <2>1 DEF SwHwInSync, Programmed
<1>8. ASSUME NEW e \in Executors, complete_put(e) PROVE SwHwInSync' /\ Programmed'
  BY <1>a, <1>8 DEF complete_put, swhw, IInv, TypeOK
<1>9. ASSUME NEW e \in Executors, end_atomic(e) PROVE SwHwInSync' /\ Programmed'
  <2>1. /\ UNCHANGED <<active, hw, run>> /\ pending' = pending \ obj[run[e]].mask
        /\ \A f \in Executors : step'[f] = IF f = e THEN "destroy" ELSE step[f]
        /\ step[e] = "end"
    BY <1>9 DEF end_atomic, IInv, TypeOK
  <2> QED
    BY <1>0, <2>1 DEF SwHwInSync, Programmed
<1>10. ASSUME NEW e \in Executors, commit_destroy(e) PROVE SwHwInSync' /\ Programmed'
  BY <1>a, <1>10 DEF commit_destroy, swhw, IInv, TypeOK
<1>11. ASSUME NEW k \in Crtcs, _msm_drm_commit_work_cb(k) PROVE SwHwInSync' /\ Programmed'
  BY <1>a, <1>11 DEF _msm_drm_commit_work_cb, swhw, IInv, TypeOK
<1> QED
  BY <1>1, <1>2, <1>3, <1>4, <1>5, <1>6, <1>7, <1>8, <1>9, <1>10, <1>11,
     NextStepOf DEF StepOf, CallerStep, CompleteStep
-----------------------------------------------------------------------------
(* Callers and executors.                                                  *)

\* A caller whose commit is not touched stands as it stood.
LEMMA CallerKept ==
    ASSUME IInv, NEW u \in Callers, pc'[u] = pc[u], ptr'[u] = ptr[u],
           ptr[u] # None =>
             /\ obj'[ptr[u]].alive = obj[ptr[u]].alive
             /\ obj'[ptr[u]].nonblock = obj[ptr[u]].nonblock
             /\ Async(ptr[u])' => Async(ptr[u])
             /\ Queued(ptr[u])' => Queued(ptr[u])
             /\ pc[u] = "free" =>
                  \A e \in Executors : run'[e] = ptr[u] => run[e] = ptr[u]
    PROVE  CallerOK(u)'
<1>1. CallerOK(u)
  BY DEF IInv, CallersOK
<1>2. CASE ptr[u] = None
  BY <1>1, <1>2 DEF CallerOK
<1>3. CASE ptr[u] # None
  BY <1>1, <1>3 DEF CallerOK
<1> QED
  BY <1>2, <1>3

\* No two callers get the same commit.
LEMMA PtrStep ==
    ASSUME IInv, [Next]_vars, NEW t \in Callers, NEW u \in Callers,
           ptr'[t] = ptr'[u], ptr'[t] # None
    PROVE  t = u
<1>0. \A v, w \in Callers : ptr[v] = ptr[w] /\ ptr[v] # None => v = w
  BY DEF IInv, CallersOK
<1>1. ASSUME NEW v \in Callers, NEW c \in Commits, NewCommit(v, c) PROVE t = u
  <2>1. ~Held(c)
    BY <1>1, FreeIsNowhere DEF NewCommit
  <2>2. \A w \in Callers : ptr[w] # c
    BY <2>1 DEF Held
  <2>3. \A w \in Callers : ptr'[w] = IF w = v THEN c ELSE ptr[w]
    BY <1>1 DEF NewCommit, IInv, TypeOK
  <2> QED
    BY <1>0, <2>2, <2>3
<1>2. ASSUME NEW v \in Callers, Return(v) PROVE t = u
  <2>1. \A w \in Callers : ptr'[w] = IF w = v THEN None ELSE ptr[w]
    BY <1>2 DEF Return, IInv, TypeOK
  <2> QED
    BY <1>0, <2>1
<1>3. CASE UNCHANGED ptr
  BY <1>0, <1>3
<1>4. ASSUME NEW v \in Callers, (CallerStep(v) \/ commit_refused(v) \/ start_atomic_interrupted(v)),
             ~Return(v)
      PROVE  UNCHANGED ptr
  BY <1>4 DEF CallerStep, commit_init, start_atomic, swap_state, msm_atomic_commit_dispatch,
              flush_work, free_commit, commit_refused, start_atomic_interrupted
<1>5. ASSUME NEW e \in Executors, CompleteStep(e) PROVE UNCHANGED ptr
  BY <1>5 DEF CompleteStep, program_hw, complete_put, end_atomic, commit_destroy
<1>6. ASSUME NEW k \in Crtcs, _msm_drm_commit_work_cb(k) PROVE UNCHANGED ptr
  BY <1>6 DEF _msm_drm_commit_work_cb
<1>7. CASE msm_pdev_shutdown \/ UNCHANGED vars
  BY <1>3, <1>7, QuietSteps DEF Quiet
<1>8. CASE \E v \in Callers : CallerStep(v) \/ commit_refused(v) \/ start_atomic_interrupted(v)
  BY <1>2, <1>3, <1>4, <1>8
<1>9. CASE \E e \in Executors : CompleteStep(e)
  BY <1>3, <1>5, <1>9
<1>10. CASE \E k \in Crtcs : _msm_drm_commit_work_cb(k)
  BY <1>3, <1>6, <1>10
<1>11. StepOf
  BY NextStepOf
<1> QED
  BY <1>1, <1>3, <1>7, <1>8, <1>9, <1>10, <1>11, Zenon DEF StepOf

\* What the step of another caller leaves alone.
LEMMA OtherKept ==
    ASSUME IInv, NEW t \in Callers, NEW u \in Callers \ {t}, NEW x, NEW s,
           ptr' = [ptr EXCEPT ![t] = ptr'[t]], pc' = [pc EXCEPT ![t] = s],
           obj' = [obj EXCEPT ![ptr[t]] = x] \/ obj' = obj,
           \A d \in Commits : Async(d)' => Async(d) \/ d = ptr[t],
           \A d \in Commits : Queued(d)' => Queued(d) \/ d = ptr[t],
           \A e \in Executors : run'[e] = run[e] \/ run'[e] = ptr[t],
           ptr[t] \in Commits
    PROVE  CallerOK(u)'
<1>1. pc'[u] = pc[u] /\ ptr'[u] = ptr[u]
  BY DEF IInv, TypeOK
<1>2. ptr[u] # None => ptr[u] \in Commits /\ ptr[u] # ptr[t]
  BY DEF IInv, TypeOK, CallersOK
<1>3. ptr[u] # None => obj'[ptr[u]] = obj[ptr[u]]
  BY <1>2 DEF IInv, TypeOK
<1>4. ptr[u] # None =>
        /\ Async(ptr[u])' => Async(ptr[u])
        /\ Queued(ptr[u])' => Queued(ptr[u])
        /\ pc[u] = "free" => \A e \in Executors : run'[e] = ptr[u] => run[e] = ptr[u]
  BY <1>1, <1>2
<1> QED
  BY <1>1, <1>3, <1>4, CallerKept

\* Callers: a commit is freed by its caller when it is blocking, by its executor
\* otherwise.
LEMMA CallerStepOK ==
    ASSUME IInv, [Next]_vars, NEW u \in Callers
    PROVE  CallerOK(u)'
<1>0. /\ CallerOK(u) /\ None \notin Commits /\ (ptr[u] # None => ptr[u] \in Commits)
      /\ obj = [c \in Commits |-> obj[c]] /\ pc = [t \in Callers |-> pc[t]]
      /\ ptr = [t \in Callers |-> ptr[t]]
  BY AtomicConstants DEF IInv, TypeOK, CallersOK
<1>1. ASSUME NEW t \in Callers, NEW c \in Commits, NewCommit(t, c) PROVE CallerOK(u)'
  <2>1. ~Held(c) /\ ~Async(c)
    BY <1>1, FreeIsNowhere DEF NewCommit
  <2>2. SameAsync /\ UNCHANGED <<queue, run, step>>
    BY <1>1, NewEffect DEF NewCommit, exec
  <2>3. CASE u = t
    <3>1. ptr'[u] = c /\ pc'[u] = "enter" /\ ~obj'[c].alive
      BY <1>0, <1>1, <2>3 DEF NewCommit
    <3>2. ~Async(ptr[u])'
      BY <2>1, <2>2, <3>1 DEF SameAsync
    <3> QED
      BY <1>0, <3>1, <3>2 DEF CallerOK
  <2>4. CASE u # t
    <3>1. ptr'[u] = ptr[u] /\ pc'[u] = pc[u] /\ ptr[u] # c
      BY <1>0, <1>1, <2>1, <2>4 DEF NewCommit, Held
    <3>2. ptr[u] # None => obj'[ptr[u]] = obj[ptr[u]]
      BY <1>0, <1>1, <3>1 DEF NewCommit
    <3>3. ptr[u] # None => (Async(ptr[u])' => Async(ptr[u])) /\ (Queued(ptr[u])' => Queued(ptr[u]))
      BY <1>0, <2>2, <3>1 DEF SameAsync, Queued
    <3> QED
      BY <2>2, <3>1, <3>2, <3>3, CallerKept
  <2> QED
    BY <2>3, <2>4
<1>2. CASE msm_pdev_shutdown \/ UNCHANGED vars
  <2>1. Quiet /\ SameAsync
    BY <1>2, QuietSteps, QuietEffect
  <2>2. UNCHANGED <<ptr, obj, queue, run, step>>
    BY <2>1 DEF Quiet, exec
  <2>3. CASE pc'[u] = pc[u]
    <3>1. ptr[u] # None => (Async(ptr[u])' => Async(ptr[u])) /\ (Queued(ptr[u])' => Queued(ptr[u]))
      BY <1>0, <2>1, <2>2 DEF SameAsync, Queued
    <3> QED
      BY <2>2, <2>3, <3>1, CallerKept
  <2>4. CASE pc'[u] # pc[u]
    BY <2>1, <2>2, <2>4 DEF Quiet, CallerOK
  <2> QED
    BY <2>3, <2>4
<1>3. ASSUME NEW t \in Callers, \/ commit_init(t) \/ commit_refused(t) \/ flush_work(t)
                                \/ start_atomic_interrupted(t) \/ free_commit(t)
      PROVE  CallerOK(u)'
  <2>1. ptr[t] \in Commits /\ t \in Executors
    BY <1>3, HasCommit DEF commit_init, commit_refused, flush_work, start_atomic_interrupted,
                           free_commit, Executors
  <2>2. SameAsync /\ UNCHANGED <<ptr, queue, run, step>>
    BY <1>3, Advances, AdvanceEffect DEF Advance, exec
  <2>3. (\A d \in Commits : Queued(d)' => Queued(d)) /\ \A d \in Commits : Async(d)' => Async(d)
    BY <2>2 DEF Queued, SameAsync
  <2>4. CASE u # t
    <3>1. PICK s, x : /\ pc' = [pc EXCEPT ![t] = s]
                      /\ obj' = [obj EXCEPT ![ptr[t]] = x] \/ obj' = obj
      BY <1>3, Zenon DEF commit_init, commit_refused, flush_work, start_atomic_interrupted,
                         free_commit, Goto
    <3>2. ptr' = [ptr EXCEPT ![t] = ptr'[t]]
      BY <1>0, <2>2
    <3> QED
      BY <2>1, <2>2, <2>3, <2>4, <3>1, <3>2, OtherKept
  <2>5. CASE u = t /\ commit_init(t)
    <3>1. pc[u] = "enter" /\ pc'[u] = "wait" /\ obj'[ptr[u]].alive
      BY <1>0, <2>1, <2>5 DEF commit_init, Goto, IInv, TypeOK
    <3> QED
      BY <1>0, <2>1, <2>2, <2>3, <2>5, <3>1 DEF CallerOK
  <2>6. CASE u = t /\ commit_refused(t)
    <3>1. pc[u] = "enter" /\ pc'[u] = "failed" /\ obj' = obj
      BY <1>0, <2>6 DEF commit_refused, Goto
    <3> QED
      BY <1>0, <2>1, <2>2, <2>3, <2>6, <3>1 DEF CallerOK
  <2>7. CASE u = t /\ flush_work(t)
    <3>1. pc[u] = "flush" /\ pc'[u] = "free" /\ obj' = obj
      BY <1>0, <2>7 DEF flush_work, Goto
    <3>2. ~Queued(ptr[u]) /\ \A k \in Crtcs : run[k] # ptr[u]
      BY <2>7 DEF flush_work, Queued
    <3>3. \A v \in Callers : run[v] = ptr[u] => v = u
      BY <1>0, <2>1, <2>7 DEF IInv, ExecutorsOK, CallersOK
    <3> QED
      BY <1>0, <2>1, <2>2, <2>3, <2>7, <3>1, <3>2, <3>3 DEF CallerOK, Executors
  <2>8. CASE u = t /\ (start_atomic_interrupted(t) \/ free_commit(t))
    <3>1. Freed(obj[ptr[t]]) = [obj[ptr[t]] EXCEPT !.alive = FALSE]
      BY <1>0, <2>1, HeldRefs
    <3>2. obj' = [obj EXCEPT ![ptr[t]] = Freed(obj[ptr[t]])]
      BY <2>8 DEF start_atomic_interrupted, free_commit
    <3>3. ~obj'[ptr[u]].alive /\ obj'[ptr[u]].nonblock = obj[ptr[u]].nonblock
      BY <1>0, <2>1, <2>8, <3>1, <3>2 DEF IInv, TypeOK
    <3>4. CASE start_atomic_interrupted(t)
      <4>1. pc[u] = "wait" /\ pc'[u] = "failed"
        BY <1>0, <2>8, <3>4 DEF start_atomic_interrupted, Goto
      <4> QED
        BY <1>0, <2>1, <2>2, <2>3, <2>8, <3>3, <4>1 DEF CallerOK
    <3>5. CASE free_commit(t)
      <4>1. pc[u] = "free" /\ pc'[u] = "done" /\ run[u] = None
        BY <1>0, <2>8, <3>5 DEF free_commit, Goto
      <4>2. ~Async(ptr[u])
        BY <1>0, <2>1, <2>8, <4>1 DEF CallerOK, Async
      <4> QED
        BY <1>0, <2>1, <2>2, <2>3, <2>8, <3>3, <4>1, <4>2 DEF CallerOK
    <3> QED
      BY <2>8, <3>4, <3>5
  <2> QED
    BY <1>3, <2>4, <2>5, <2>6, <2>7, <2>8
<1>4. ASSUME NEW t \in Callers, start_atomic(t) \/ swap_state(t) PROVE CallerOK(u)'
  <2>1. ptr[t] \in Commits
    BY <1>4, HasCommit DEF start_atomic, swap_state
  <2>2. SameAsync /\ UNCHANGED <<ptr, queue, run, step>>
    BY <1>4, StartEffect, SwapEffect DEF start_atomic, swap_state, exec
  <2>3. (\A d \in Commits : Queued(d)' => Queued(d)) /\ \A d \in Commits : Async(d)' => Async(d)
    BY <2>2 DEF Queued, SameAsync
  <2>4. PICK s : /\ pc' = [pc EXCEPT ![t] = s]
                 /\ \/ pc[t] = "wait" /\ s = "swap" /\ obj' = obj
                    \/ /\ pc[t] = "swap" /\ s = "dispatch"
                       /\ obj' = [obj EXCEPT ![ptr[t]] = [obj[ptr[t]] EXCEPT !.refs = @ + 1]]
    BY <1>4, Zenon DEF start_atomic, swap_state, Goto
  <2>5. CASE u # t
    <3>1. PICK x : obj' = [obj EXCEPT ![ptr[t]] = x] \/ obj' = obj
      BY <2>4, Zenon
    <3>2. ptr' = [ptr EXCEPT ![t] = ptr'[t]]
      BY <1>0, <2>2
    <3> QED
      BY <2>1, <2>2, <2>3, <2>4, <2>5, <3>1, <3>2, OtherKept
  <2>6. CASE u = t
    <3>1. obj'[ptr[u]].alive = obj[ptr[u]].alive
      BY <1>0, <2>1, <2>4, <2>6 DEF IInv, TypeOK
    <3>2. pc[u] \in {"wait", "swap"} /\ pc'[u] \in {"swap", "dispatch"}
      BY <1>0, <2>4, <2>6
    <3> QED
      BY <1>0, <2>1, <2>2, <2>3, <2>6, <3>1, <3>2 DEF CallerOK
  <2> QED
    BY <2>5, <2>6
<1>5. ASSUME NEW t \in Callers, msm_atomic_commit_dispatch(t) PROVE CallerOK(u)'
  <2>1. /\ pc[t] = "dispatch" /\ ptr[t] \in Commits /\ t \in Executors
        /\ UNCHANGED <<ptr, obj>>
    BY <1>5, HasCommit DEF msm_atomic_commit_dispatch, Executors
  <2>2. /\ \A d \in Commits : Async(d)' => Async(d) \/ d = ptr[t]
        /\ \A d \in Commits : Queued(d)' => Queued(d) \/ d = ptr[t]
        /\ \/ /\ UNCHANGED run
              /\ pc' = [pc EXCEPT ![t] = IF obj[ptr[t]].nonblock THEN "done" ELSE "flush"]
           \/ /\ \A d \in Commits : Queued(d)' <=> Queued(d)
              /\ run' = [run EXCEPT ![t] = ptr[t]]
              /\ pc' = [pc EXCEPT ![t] = IF obj[ptr[t]].nonblock THEN "done" ELSE "free"]
    BY <1>5, DispatchEffect
  <2>3. CASE u # t
    <3>1. PICK s : pc' = [pc EXCEPT ![t] = s]
      BY <2>2
    <3>2. ptr' = [ptr EXCEPT ![t] = ptr'[t]]
      BY <1>0, <2>1
    <3>3. \A e \in Executors : run'[e] = run[e] \/ run'[e] = ptr[t]
      BY <2>2 DEF IInv, TypeOK
    <3> QED
      BY <2>1, <2>2, <2>3, <3>1, <3>2, <3>3, OtherKept
  <2>4. CASE u = t
    <3>1. /\ obj[ptr[u]].alive /\ ~Async(ptr[u]) /\ ptr'[u] = ptr[u] /\ ptr[u] # None
      BY <1>0, <2>1, <2>4 DEF CallerOK
    <3>2. ~Queued(ptr[u]) /\ \A e \in Executors : run[e] # ptr[u]
      BY <3>1 DEF Async
    <3>3. \/ pc'[u] = "done" /\ obj'[ptr[u]].nonblock
          \/ pc'[u] = "flush" /\ ~obj'[ptr[u]].nonblock
          \/ /\ pc'[u] = "free" /\ ~obj'[ptr[u]].nonblock /\ ~Queued(ptr[u])'
             /\ \A e \in Executors : run'[e] = ptr[u] => e = u
      BY <1>0, <2>1, <2>2, <2>4, <3>1, <3>2 DEF IInv, TypeOK
    <3> QED
      BY <2>1, <3>1, <3>3 DEF CallerOK
  <2> QED
    BY <2>3, <2>4
<1>6. ASSUME NEW t \in Callers, Return(t) PROVE CallerOK(u)'
  <2>1. pc[t] \in {"done", "failed"}
    BY <1>6 DEF Return
  <2>2. ptr[t] \in Commits
    BY <2>1, HasCommit
  <2>3. /\ SameAsync /\ UNCHANGED <<queue, run, step>> /\ ptr' = [ptr EXCEPT ![t] = None]
        /\ obj' = [obj EXCEPT ![ptr[t]] = Put(obj[ptr[t]])]
    BY <1>6, ReturnEffect DEF Return, exec
  <2>4. PICK s \in {"idle", "reset", "flag"} : pc' = [pc EXCEPT ![t] = s]
    BY <1>6 DEF Return, Goto
  <2>5. (\A d \in Commits : Queued(d)' => Queued(d)) /\ \A d \in Commits : Async(d)' => Async(d)
    BY <2>3 DEF Queued, SameAsync
  <2>6. CASE u # t
    <3>1. ptr' = [ptr EXCEPT ![t] = ptr'[t]]
      BY <1>0, <2>3
    <3> QED
      BY <2>2, <2>3, <2>4, <2>5, <2>6, <3>1, OtherKept
  <2>7. CASE u = t
    <3>1. ptr'[u] = None /\ pc'[u] \in {"idle", "reset", "flag"}
      BY <1>0, <2>3, <2>4, <2>7
    <3> QED
      BY <3>1 DEF CallerOK
  <2> QED
    BY <2>6, <2>7
<1>7. ASSUME NEW e \in Executors, program_hw(e) \/ complete_put(e) \/ end_atomic(e)
      PROVE  CallerOK(u)'
  <2>1. /\ SameAsync /\ \A d \in Commits : Queued(d)' <=> Queued(d)
    BY <1>7, Completions, CompleteEffect
  <2>2. UNCHANGED <<run, pc, ptr>>
    BY <1>7 DEF program_hw, complete_put, end_atomic
  <2>3. ptr[u] # None => obj'[ptr[u]].alive = obj[ptr[u]].alive
                         /\ obj'[ptr[u]].nonblock = obj[ptr[u]].nonblock
    <3>1. CASE complete_put(e)
      <4>1. /\ run[e] \in Commits
            /\ Put(obj[run[e]]) = [obj[run[e]] EXCEPT !.refs = @ - 1]
        BY <3>1, CleanupPut DEF complete_put
      <4>2. obj' = [obj EXCEPT ![run[e]] = Put(obj[run[e]])]
        BY <3>1 DEF complete_put
      <4> QED
        BY <1>0, <4>1, <4>2 DEF IInv, TypeOK
    <3>2. CASE ~complete_put(e)
      BY <1>7, <3>2 DEF program_hw, end_atomic
    <3> QED
      BY <3>1, <3>2
  <2>4. ptr[u] # None => (Async(ptr[u])' => Async(ptr[u])) /\ (Queued(ptr[u])' => Queued(ptr[u]))
    BY <1>0, <2>1, <2>2 DEF SameAsync
  <2> QED
    BY <2>2, <2>3, <2>4, CallerKept
<1>8. ASSUME NEW e \in Executors, commit_destroy(e) PROVE CallerOK(u)'
  <2>1. /\ run[e] \in Commits /\ Async(run[e])
        /\ \A d \in Commits : Async(d)' <=> Async(d) /\ d # run[e]
        /\ \A d \in Commits : Queued(d)' <=> Queued(d)
    BY <1>8, DestroyEffect
  <2>2. /\ UNCHANGED <<pc, ptr>> /\ run' = [run EXCEPT ![e] = None]
        /\ obj' = IF obj[run[e]].nonblock
                  THEN [obj EXCEPT ![run[e]] = Freed(obj[run[e]])] ELSE obj
    BY <1>8 DEF commit_destroy
  <2>3. CASE ptr[u] = run[e] /\ obj[run[e]].nonblock
    <3>1. pc[u] = "done"
      <4>1. ptr[u] # None /\ Async(ptr[u]) /\ obj[ptr[u]].nonblock
        BY <1>0, <2>1, <2>3
      <4>2. pc[u] \in {"idle", "enter", "wait", "swap", "dispatch", "flush", "free", "done",
                       "failed", "reset", "flag"}
        BY DEF IInv, TypeOK
      <4> QED
        BY <1>0, <4>1, <4>2 DEF CallerOK
    <3>2. Freed(obj[ptr[u]]) = [obj[ptr[u]] EXCEPT !.alive = FALSE]
      BY <1>0, <2>1, <2>3, HeldRefs
    <3>3. obj'[ptr[u]].nonblock
      BY <1>0, <2>1, <2>2, <2>3, <3>2 DEF IInv, TypeOK
    <3> QED
      BY <1>0, <2>1, <2>2, <2>3, <3>1, <3>3 DEF CallerOK
  <2>4. CASE ~(ptr[u] = run[e] /\ obj[run[e]].nonblock)
    <3>1. ptr[u] # None => obj'[ptr[u]] = obj[ptr[u]]
      BY <1>0, <2>1, <2>2, <2>4
    <3>2. ptr[u] # None =>
            /\ (Async(ptr[u])' => Async(ptr[u])) /\ (Queued(ptr[u])' => Queued(ptr[u]))
            /\ \A f \in Executors : run'[f] = ptr[u] => run[f] = ptr[u]
      BY <1>0, <2>1, <2>2 DEF IInv, TypeOK
    <3> QED
      BY <2>2, <3>1, <3>2, CallerKept
  <2> QED
    BY <2>3, <2>4
<1>9. ASSUME NEW k \in Crtcs, _msm_drm_commit_work_cb(k) PROVE CallerOK(u)'
  <2>1. UNCHANGED <<pc, ptr, obj>>
    BY <1>9 DEF _msm_drm_commit_work_cb
  <2>2. PICK c \in Commits :
          /\ SameAsync /\ run' = [run EXCEPT ![k] = c]
          /\ Queued(c) /\ \A d \in Commits : Queued(d)' <=> Queued(d) /\ d # c
    BY <1>9, WorkEffect
  <2>3. ptr[u] # None =>
          /\ (Async(ptr[u])' => Async(ptr[u])) /\ (Queued(ptr[u])' => Queued(ptr[u]))
          /\ pc[u] = "free" => \A f \in Executors : run'[f] = ptr[u] => run[f] = ptr[u]
    BY <1>0, <2>1, <2>2 DEF IInv, TypeOK, SameAsync, CallerOK
  <2> QED
    BY <2>1, <2>3, CallerKept
<1> QED
  BY <1>1, <1>2, <1>3, <1>4, <1>5, <1>6, <1>7, <1>8, <1>9,
     NextStepOf DEF StepOf, CallerStep, CompleteStep

\* Executors: the commit taken from a queue is queued no more, and no one frees
\* a commit that is queued or completed.
LEMMA ExecutorsStep ==
    IInv /\ [Next]_vars => ExecutorsOK'
<1> SUFFICES ASSUME IInv, [Next]_vars PROVE ExecutorsOK'
  OBVIOUS
<1>0. /\ ExecutorsOK /\ None \notin Commits /\ Callers \subseteq Executors
      /\ Crtcs \subseteq Executors /\ Callers \cap Crtcs = {}
      /\ \A e \in Executors : run[e] \in Commits \cup {None}
      /\ obj = [c \in Commits |-> obj[c]] /\ pc = [t \in Callers |-> pc[t]]
      /\ ptr = [t \in Callers |-> ptr[t]]
  BY AtomicConstants DEF IInv, TypeOK, Callers, Executors
\* the queues and the runs are as they were, and so is what they need
<1>a. ASSUME UNCHANGED <<queue, run, step>>,
             \A c \in Commits : Async(c) => obj'[c].alive,
             \A t \in Callers : run[t] # None => ptr'[t] = ptr[t] /\ pc'[t] \in {"done", "free"}
      PROVE  ExecutorsOK'
  <2>1. \A c : Queued(c)' <=> Queued(c)
    BY <1>a DEF Queued
  <2>2. \A k \in Crtcs : Works(k)' = Works(k)
    BY <1>a DEF Works
  <2>3. /\ \A e \in Executors : run[e] # None => obj'[run[e]].alive
        /\ \A c \in Commits : Queued(c) => obj'[c].alive
    BY <1>0, <1>a DEF Async
  <2> QED
    BY <1>0, <1>a, <2>1, <2>2, <2>3 DEF ExecutorsOK
<1>b. \A c \in Commits : Async(c) => obj[c].alive
  BY <1>0 DEF Async, ExecutorsOK
<1>1. ASSUME NEW t \in Callers, NEW c \in Commits, NewCommit(t, c) PROVE ExecutorsOK'
  <2>1. ~Async(c)
    BY <1>1, FreeIsNowhere DEF NewCommit
  <2>2. \A d \in Commits : Async(d) => obj'[d].alive
    BY <1>0, <1>b, <1>1, <2>1 DEF NewCommit
  <2>3. \A v \in Callers : run[v] # None => ptr'[v] = ptr[v] /\ pc'[v] \in {"done", "free"}
    BY <1>0, <1>1 DEF NewCommit, ExecutorsOK
  <2> QED
    BY <1>a, <1>1, <2>2, <2>3 DEF NewCommit, exec
<1>2. CASE msm_pdev_shutdown \/ UNCHANGED vars
  <2>1. \A v \in Callers : run[v] # None => ptr'[v] = ptr[v] /\ pc'[v] \in {"done", "free"}
    BY <1>0, <1>2, QuietSteps DEF Quiet, ExecutorsOK
  <2> QED
    BY <1>a, <1>b, <1>2, <2>1, QuietSteps DEF Quiet, exec
<1>3. ASSUME NEW t \in Callers, \/ commit_init(t) \/ commit_refused(t) \/ flush_work(t)
                                \/ start_atomic_interrupted(t) \/ free_commit(t)
                                \/ start_atomic(t) \/ swap_state(t)
      PROVE  ExecutorsOK'
  <2>1. UNCHANGED <<queue, run, step, ptr>>
    BY <1>3 DEF commit_init, commit_refused, flush_work, start_atomic_interrupted,
                free_commit, start_atomic, swap_state, exec
  <2>2. ptr[t] \in Commits /\ CallerOK(t)
    BY <1>3, HasCommit DEF commit_init, commit_refused, flush_work, IInv, CallersOK,
              start_atomic_interrupted, free_commit, start_atomic, swap_state
  <2>3. run[t] # None => pc[t] = "free" /\ pc'[t] = "done"
    BY <1>0, <1>3 DEF commit_init, commit_refused, flush_work, start_atomic_interrupted,
              free_commit, start_atomic, swap_state, Goto, ExecutorsOK
  <2>4. \A v \in Callers : run[v] # None => ptr'[v] = ptr[v] /\ pc'[v] \in {"done", "free"}
    <3>1. \A v \in Callers \ {t} : pc'[v] = pc[v]
      BY <1>0, <1>3 DEF commit_init, commit_refused, flush_work, start_atomic_interrupted,
              free_commit, start_atomic, swap_state, Goto
    <3> QED
      BY <1>0, <2>1, <2>3, <3>1 DEF ExecutorsOK
  <2>5. \A d \in Commits : Async(d) => obj'[d].alive
    <3>1. CASE start_atomic_interrupted(t) \/ free_commit(t)
      <4>1. ~Async(ptr[t])
        BY <2>2, <3>1 DEF start_atomic_interrupted, free_commit, CallerOK, Async
      <4>2. \A d \in Commits : d # ptr[t] => obj'[d] = obj[d]
        BY <1>0, <3>1 DEF start_atomic_interrupted, free_commit
      <4> QED
        BY <1>b, <4>1, <4>2
    <3>2. CASE commit_init(t) \/ swap_state(t)
      <4>1. obj' = [obj EXCEPT ![ptr[t]] = [obj[ptr[t]] EXCEPT !.alive = TRUE]]
            \/ obj' = [obj EXCEPT ![ptr[t]] = [obj[ptr[t]] EXCEPT !.refs = @ + 1]]
        BY <3>2, Zenon DEF commit_init, swap_state
      <4>2. obj'[ptr[t]].alive = TRUE \/ obj'[ptr[t]].alive = obj[ptr[t]].alive
        BY <1>0, <2>2, <4>1 DEF IInv, TypeOK
      <4>3. \A d \in Commits : d # ptr[t] => obj'[d] = obj[d]
        BY <1>0, <4>1
      <4> QED
        BY <1>b, <4>2, <4>3
    <3>3. CASE commit_refused(t) \/ flush_work(t) \/ start_atomic(t)
      BY <1>b, <3>3 DEF commit_refused, flush_work, start_atomic
    <3> QED
      BY <1>3, <3>1, <3>2, <3>3
  <2> QED
    BY <1>a, <2>1, <2>4, <2>5
<1>4. ASSUME NEW t \in Callers, msm_atomic_commit_dispatch(t) PROVE ExecutorsOK'
  <2>1. /\ UNCHANGED <<ptr, obj>> /\ pc[t] = "dispatch" /\ ptr[t] \in Commits
        /\ CallerOK(t) /\ t \in Executors
    BY <1>0, <1>4, HasCommit DEF msm_atomic_commit_dispatch, IInv, CallersOK
  <2>2. ~Queued(ptr[t]) /\ (\A e \in Executors : run[e] # ptr[t]) /\ obj[ptr[t]].alive
    BY <2>1 DEF CallerOK, Async
  <2>3. /\ \/ /\ \A d \in Commits : Queued(d)' <=> Queued(d) \/ d = ptr[t]
              /\ UNCHANGED <<run, step>>
              /\ pc' = [pc EXCEPT ![t] = IF obj[ptr[t]].nonblock THEN "done" ELSE "flush"]
           \/ /\ \A d \in Commits : Queued(d)' <=> Queued(d)
              /\ run' = [run EXCEPT ![t] = ptr[t]]
              /\ step' = [step EXCEPT ![t] = "program"]
              /\ pc' = [pc EXCEPT ![t] = IF obj[ptr[t]].nonblock THEN "done" ELSE "free"]
        /\ \A j, k \in Crtcs : j # k => Works(j)' \cap Works(k)' = {}
        /\ \A k \in Crtcs : \A i, j \in DOMAIN queue'[k] :
             queue'[k][i] = queue'[k][j] => i = j
    BY <1>4, DispatchEffect
  <2>4. run[t] = None
    BY <1>0, <2>1 DEF ExecutorsOK
  <2>5. ASSUME NEW e \in Executors
        PROVE  /\ run'[e] = None <=> step'[e] = "idle"
               /\ run'[e] # None => /\ obj'[run'[e]].alive /\ ~Queued(run[e])'
                                    /\ \A f \in Executors : run'[f] = run'[e] => f = e
    <3>1. CASE UNCHANGED <<run, step>> /\ \A d \in Commits : Queued(d)' <=> Queued(d) \/ d = ptr[t]
      BY <1>0, <2>1, <2>2, <3>1 DEF ExecutorsOK
    <3>2. CASE /\ \A d \in Commits : Queued(d)' <=> Queued(d)
               /\ run' = [run EXCEPT ![t] = ptr[t]] /\ step' = [step EXCEPT ![t] = "program"]
      <4>1. \A f \in Executors : /\ run'[f] = IF f = t THEN ptr[t] ELSE run[f]
                                 /\ step'[f] = IF f = t THEN "program" ELSE step[f]
        BY <3>2 DEF IInv, TypeOK
      <4> QED
        BY <1>0, <2>1, <2>2, <3>2, <4>1 DEF ExecutorsOK
    <3> QED
      BY <2>3, <3>1, <3>2
  <2>6. \A v \in Callers : run'[v] # None => ptr'[v] = run'[v] /\ pc'[v] \in {"done", "free"}
    BY <1>0, <2>1, <2>3, <2>4 DEF ExecutorsOK, IInv, TypeOK
  <2>7. \A c \in Commits : Queued(c)' => obj'[c].alive
    BY <1>0, <2>1, <2>2, <2>3 DEF ExecutorsOK
  <2> QED
    BY <2>3, <2>5, <2>6, <2>7 DEF ExecutorsOK
<1>5. ASSUME NEW t \in Callers, Return(t) PROVE ExecutorsOK'
  <2>1. /\ UNCHANGED <<queue, run, step>> /\ run[t] = None /\ ptr' = [ptr EXCEPT ![t] = None]
        /\ obj' = [obj EXCEPT ![ptr[t]] = Put(obj[ptr[t]])]
    BY <1>5 DEF Return, exec
  <2>2. PICK s : pc' = [pc EXCEPT ![t] = s]
    BY <1>5 DEF Return, Goto
  <2>3. \A v \in Callers : run[v] # None => ptr'[v] = ptr[v] /\ pc'[v] \in {"done", "free"}
    BY <1>0, <2>1, <2>2 DEF ExecutorsOK
  <2>4. \A d \in Commits : Async(d) => obj'[d].alive
    BY <1>0, <1>b, <2>1 DEF Put, IInv, TypeOK
  <2> QED
    BY <1>a, <2>1, <2>3, <2>4
<1>6. ASSUME NEW e \in Executors, program_hw(e) \/ complete_put(e) \/ end_atomic(e)
      PROVE  ExecutorsOK'
  <2>1. PICK b \in {"cleanup", "end", "destroy"} :
          /\ step' = [step EXCEPT ![e] = b] /\ step[e] # "idle" /\ UNCHANGED <<queue, run, pc, ptr>>
    BY <1>6 DEF program_hw, complete_put, end_atomic
  <2>2. \A d \in Commits : Async(d) => obj'[d].alive
    <3>1. obj' = obj \/ obj' = [obj EXCEPT ![run[e]] = Put(obj[run[e]])]
      BY <1>6 DEF program_hw, complete_put, end_atomic
    <3>2. CASE obj' = obj
      BY <1>b, <3>2
    <3>3. CASE obj' = [obj EXCEPT ![run[e]] = Put(obj[run[e]])]
      BY <1>0, <1>b, <3>3 DEF Put, IInv, TypeOK
    <3> QED
      BY <3>1, <3>2, <3>3
  <2>3. \A c : Queued(c)' <=> Queued(c)
    BY <2>1 DEF Queued
  <2>4. \A k \in Crtcs : Works(k)' = Works(k)
    BY <2>1 DEF Works
  <2>5. /\ \A f \in Executors : run[f] # None => obj'[run[f]].alive
        /\ \A c \in Commits : Queued(c) => obj'[c].alive
        /\ \A f \in Executors : run[f] = None <=> step'[f] = "idle"
    <3>1. \A f \in Executors : run[f] = None <=> step'[f] = "idle"
      <4>1. b # "idle" /\ \A f \in Executors : step'[f] = IF f = e THEN b ELSE step[f]
        BY <2>1 DEF IInv, TypeOK
      <4>2. \A f \in Executors : run[f] = None <=> step[f] = "idle"
        BY <1>0 DEF ExecutorsOK
      <4> QED
        BY <2>1, <4>1, <4>2
    <3> QED
      BY <1>0, <2>2, <3>1 DEF Async
  <2> QED
    BY <1>0, <2>1, <2>3, <2>4, <2>5 DEF ExecutorsOK
<1>7. ASSUME NEW e \in Executors, commit_destroy(e) PROVE ExecutorsOK'
  <2>1. /\ UNCHANGED <<queue, pc, ptr>> /\ run' = [run EXCEPT ![e] = None]
        /\ step' = [step EXCEPT ![e] = "idle"]
        /\ obj' = obj \/ obj' = [obj EXCEPT ![run[e]] = Freed(obj[run[e]])]
    BY <1>7 DEF commit_destroy
  <2>2. \A f \in Executors : /\ run'[f] = IF f = e THEN None ELSE run[f]
                             /\ step'[f] = IF f = e THEN "idle" ELSE step[f]
    BY <2>1 DEF IInv, TypeOK
  <2>3. run[e] \in Commits /\ \A d \in Commits : d # run[e] => obj'[d] = obj[d]
    BY <1>0, <1>7, <2>1, DestroyEffect
  <2>4. \A c : Queued(c)' <=> Queued(c)
    BY <2>1 DEF Queued
  <2>5. \A k \in Crtcs : Works(k)' = Works(k)
    BY <2>1 DEF Works
  <2>6. /\ \A f \in Executors \ {e} : run[f] # None => obj'[run[f]].alive
        /\ \A c \in Commits : Queued(c) => obj'[c].alive
    BY <1>0, <2>3 DEF ExecutorsOK
  <2> QED
    BY <1>0, <2>1, <2>2, <2>4, <2>5, <2>6 DEF ExecutorsOK
<1>8. ASSUME NEW k \in Crtcs, _msm_drm_commit_work_cb(k) PROVE ExecutorsOK'
  <2>1. UNCHANGED <<pc, ptr, obj>> /\ run[k] = None
    BY <1>8 DEF _msm_drm_commit_work_cb
  <2>2. PICK c \in Commits :
          /\ run' = [run EXCEPT ![k] = c] /\ step' = [step EXCEPT ![k] = "program"]
          /\ Queued(c) /\ \A d \in Commits : Queued(d)' <=> Queued(d) /\ d # c
          /\ \A i, j \in Crtcs : i # j => Works(i)' \cap Works(j)' = {}
          /\ \A h \in Crtcs : \A i, j \in DOMAIN queue'[h] :
               queue'[h][i] = queue'[h][j] => i = j
    BY <1>8, WorkEffect
  <2>3. \A f \in Executors : /\ run'[f] = IF f = k THEN c ELSE run[f]
                             /\ step'[f] = IF f = k THEN "program" ELSE step[f]
    BY <2>2 DEF IInv, TypeOK
  <2>4. ASSUME NEW e \in Executors
        PROVE  /\ run'[e] = None <=> step'[e] = "idle"
               /\ run'[e] # None => /\ obj'[run'[e]].alive /\ ~Queued(run[e])'
                                    /\ \A f \in Executors : run'[f] = run'[e] => f = e
    BY <1>0, <2>1, <2>2, <2>3 DEF ExecutorsOK
  <2>5. \A v \in Callers : run'[v] # None => ptr'[v] = run'[v] /\ pc'[v] \in {"done", "free"}
    BY <1>0, <2>1, <2>3 DEF ExecutorsOK
  <2>6. \A d \in Commits : Queued(d)' => obj'[d].alive
    BY <1>0, <2>1, <2>2 DEF ExecutorsOK
  <2> QED
    BY <2>2, <2>4, <2>5, <2>6 DEF ExecutorsOK
<1> QED
  BY <1>1, <1>2, <1>3, <1>4, <1>5, <1>6, <1>7, <1>8,
     NextStepOf DEF StepOf, CallerStep, CompleteStep
-----------------------------------------------------------------------------
(* The theorems.                                                           *)

\* No commit exists at first.
LEMMA InitInv == Init => IInv
<1> SUFFICES ASSUME Init PROVE IInv
  OBVIOUS
<1>1. /\ \A c \in Commits : ~Queued(c) /\ ~Async(c) /\ ~Held(c) /\ ~Holding(c) /\ ~InFlight(c)
      /\ \A k \in Crtcs : DOMAIN queue[k] = {} /\ Works(k) = {}
  <2>1. \A k \in Crtcs : DOMAIN queue[k] = {} /\ Works(k) = {}
    BY DEF Init, Works
  <2>2. \A c \in Commits : ~Queued(c)
    BY <2>1 DEF Queued, Works
  <2> QED
    BY <2>1, <2>2, AtomicConstants DEF Init, Async, Held, Holding, InFlight, Swapped
<1>2. TypeOK
  <2>1. FreeSlot \in Rec
    BY DEF Rec, FreeSlot
  <2>2. obj \in [Commits -> Rec]
    BY <2>1 DEF Init
  <2>3. queue \in [Crtcs -> Seq(Commits)]
    BY DEF Init
  <2> QED
    BY <2>2, <2>3 DEF Init, TypeOK, Rec
<1>3. CallersOK
  BY DEF Init, CallersOK, CallerOK
<1>4. ExecutorsOK
  <2>1. \A e \in Executors : run[e] = None /\ step[e] = "idle"
    BY DEF Init
  <2>2. \A t \in Callers : run[t] = None
    BY <2>1 DEF Executors
  <2> QED
    BY <1>1, <2>1, <2>2 DEF ExecutorsOK
<1>5. RefsExact
  BY <1>1 DEF Init, RefsExact, FreeSlot
<1>6. FlightOK
  BY <1>1 DEF Init, FlightOK, InFlight
<1>7. SwHwInSync /\ Programmed
  BY DEF Init, SwHwInSync, Programmed
<1> QED
  BY <1>2, <1>3, <1>4, <1>5, <1>6, <1>7 DEF IInv

\* IInv holds at first and every step of callers and display threads keeps it.
THEOREM InvInductive == Spec => []IInv
<1>1. IInv /\ [Next]_vars => IInv'
  <2> SUFFICES ASSUME IInv, [Next]_vars PROVE IInv'
    OBVIOUS
  <2>1. CallersOK'
    BY CallerStepOK, PtrStep DEF CallersOK
  <2> QED
    BY <2>1, TypeStep, ExecutorsStep, RefsStep, FlightStep, HwStep DEF IInv
<1> QED
  BY <1>1, InitInv, PTL DEF Spec

\* The reference count of a state has never more than its two holders, the
\* caller and the asynchronous part, and every variable keeps its type.
THEOREM TypeCorrect == Spec => []TypeOK
<1>1. IInv => TypeOK
  BY DEF IInv
<1> QED
  BY <1>1, InvInductive, PTL

\* Whoever is last, caller or display thread, frees the commit and puts the
\* state: nobody uses either afterwards.
THEOREM FreedByTheLast == Spec => []NoUseAfterFree
<1>1. IInv => NoUseAfterFree
  <2> SUFFICES ASSUME IInv PROVE NoUseAfterFree
    OBVIOUS
  <2>1. ASSUME NEW t \in Callers
        PROVE  /\ pc[t] \in {"wait", "swap", "dispatch", "flush", "free"} => obj[ptr[t]].alive
               /\ ptr[t] # None => obj[ptr[t]].refs > 0
    <3>1. ptr[t] # None => obj[ptr[t]].refs > 0
      <4>1. ptr[t] # None => ptr[t] \in Commits /\ obj[ptr[t]].refs >= 1
        BY HeldRefs
      <4>2. ptr[t] # None => obj[ptr[t]].refs \in Int
        <5>1. \A c \in Commits : obj[c].refs \in 0 .. 2
          BY DEF IInv, TypeOK
        <5> QED
          BY <4>1, <5>1
      <4> QED
        BY <4>1, <4>2
    <3> QED
      BY <3>1 DEF IInv, CallersOK, CallerOK
  <2>2. ASSUME NEW c \in Commits, Holding(c) PROVE obj[c].refs > 0
    BY <2>2 DEF IInv, RefsExact
  <2>3. ASSUME NEW c \in Commits, Queued(c) PROVE obj[c].alive /\ obj[c].refs > 0
    BY <2>2, <2>3 DEF IInv, ExecutorsOK, Holding
  <2>4. ASSUME NEW e \in Executors, run[e] # None
        PROVE  /\ obj[run[e]].alive
               /\ step[e] \in {"program", "cleanup"} => obj[run[e]].refs > 0
    <3>1. run[e] \in Commits /\ obj[run[e]].alive
      BY <2>4 DEF IInv, TypeOK, ExecutorsOK
    <3>2. step[e] \in {"program", "cleanup"} => Holding(run[e])
      BY DEF Holding
    <3> QED
      BY <2>2, <3>1, <3>2
  <2> QED
    BY <2>1, <2>3, <2>4 DEF NoUseAfterFree
<1> QED
  BY <1>1, InvInductive, PTL

\* The asynchronous part of a commit is over before another commit swaps the
\* state of its crtcs and planes: an executor programs its own commit's state.
THEOREM OwnStateProgrammed == Spec => []AsyncBeforeSwap
<1>1. IInv => AsyncBeforeSwap
  <2> SUFFICES ASSUME IInv, NEW e \in Executors, step[e] \in {"program", "cleanup", "end"}
               PROVE  \A r \in obj[run[e]].mask : owner[r] = run[e]
    BY DEF AsyncBeforeSwap
  <2>1. run[e] \in Commits
    BY DEF IInv, TypeOK, ExecutorsOK
  <2>2. Swapped(run[e])
    BY DEF Swapped
  <2> QED
    BY <2>1, <2>2 DEF IInv, FlightOK
<1> QED
  BY <1>1, InvInductive, PTL

\* A crtc that no commit is pending on shows what the software state says.
THEOREM ShowsSoftwareState == Spec => []SwHwInSync
<1>1. IInv => SwHwInSync
  BY DEF IInv
<1> QED
  BY <1>1, InvInductive, PTL
=============================================================================
