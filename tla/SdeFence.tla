------------------------------ MODULE SdeFence ------------------------------
(***************************************************************************)
(* One fence context of sde_fence.c: the release fences of a crtc or the   *)
(* retire fences of a connector.  Three threads use it without any lock    *)
(* above the two spinlocks of the context:                                 *)
(*   "ioctl"  the atomic ioctl, which creates fences while it sets the     *)
(*            OUTPUT_FENCE / RETIRE_FENCE properties, and prepares the     *)
(*            timeline before the commit is dispatched;                    *)
(*   "event"  the crtc's event thread, which signals a finished frame;     *)
(*   "disp"   the crtc's display thread, which resets the timeline when    *)
(*            the crtc is turned off.                                      *)
(* One critical section of ctx->lock or ctx->list_lock is one step.        *)
(***************************************************************************)
EXTENDS Integers, FiniteSets

CONSTANTS Fences,     \* fence objects that can exist at one time
          Offsets,    \* trigger offsets: 1 for command mode, 2 for video mode
          MaxOffset,  \* the largest of Offsets
          Half,       \* half the range of the counters: 2^31 in the driver
          MaxLag,     \* bound: commits prepared and not completed
          MaxAge,     \* bound: commits prepared beyond a live fence's seqno
          Errors      \* frame results the event thread may report (TRUE: error)

ASSUME FenceConstants ==
    /\ IsFiniteSet(Fences)
    /\ Half \in Nat /\ MaxLag \in Nat /\ MaxAge \in Nat /\ MaxOffset \in Nat
    /\ Offsets \subseteq 1 .. MaxOffset
    /\ MaxLag + MaxOffset < Half
    /\ MaxAge < Half
    /\ Errors \subseteq BOOLEAN

Modulus == 2 * Half
Counter == 0 .. Modulus - 1
Threads == {"ioctl", "event", "disp"}
NoFence == "none"

VARIABLES
    commit_count,   \* ctx->commit_count, an unsigned int
    done_count,     \* ctx->done_count, an unsigned int
    list,           \* fences on ctx->fence_list_head
    fence,          \* per fence: phase, seqno, error, whether its fd is open, refs
    ctxRefs,        \* ctx->kref
    owner,          \* the crtc or connector still holds its reference
    pc, local, err, cur, seqno

vars == <<commit_count, done_count, list, fence, ctxRefs, owner, pc, local,
          err, cur, seqno>>
ctxvars == <<commit_count, done_count>>

FreeFence == [phase |-> "free", seqno |-> 0, error |-> FALSE, fd |-> FALSE,
              refs |-> 0]

FenceType == [phase : {"free", "live", "signaled"}, seqno : Counter,
              error : BOOLEAN, fd : BOOLEAN, refs : 0 .. 2]

Live == {f \in Fences : fence[f].phase = "live"}
Allocated == {f \in Fences : fence[f].phase # "free"}

\* mutant: the counter does not wrap
AddNoWrap(a, n) == a + n
\* unsigned arithmetic of the counters, and the (int) cast of a difference
Add(a, n) == IF a + n >= Modulus THEN a + n - Modulus ELSE a + n
Diff(a, b) == LET d == IF a >= b THEN a - b ELSE a - b + Modulus
              IN  IF d >= Half THEN d - Modulus ELSE d

Init ==
    /\ commit_count = 0 /\ done_count = 0
    /\ list = {}
    /\ fence = [f \in Fences |-> FreeFence]
    /\ ctxRefs = 1 /\ owner = TRUE
    /\ pc = [t \in Threads |-> "idle"]
    /\ local = [t \in Threads |-> {}]
    /\ err = [t \in Threads |-> FALSE]
    /\ cur = [t \in Threads |-> NoFence]
    /\ seqno = 0
-----------------------------------------------------------------------------
(* Reference counts of a fence: one for its list entry, one for its fd.    *)

\* dma_fence_put, and sde_fence_release once the last reference is gone
Put(rec) == IF rec.refs = 1 THEN FreeFence ELSE [rec EXCEPT !.refs = @ - 1]
\* mutant: the released fence keeps its reference to the context
CtxRefsKept(rec) == ctxRefs
CtxRefsAfterPut(rec) == IF rec.refs = 1 THEN ctxRefs - 1 ELSE ctxRefs

\* mutant: an unsigned comparison, wrong once the counter has wrapped
sde_fence_signaled_unsigned(s) == s <= done_count
\* mutant: a fence is due only after its point
sde_fence_signaled_strict(s) == Diff(s, done_count) < 0
\* the fence operation behind dma_fence_is_signaled
sde_fence_signaled(s) == Diff(s, done_count) <= 0
-----------------------------------------------------------------------------
\* sde_fence_prepare, in the ioctl, under ctx->lock
sde_fence_prepare ==
    /\ pc["ioctl"] = "idle" /\ owner
    /\ Diff(commit_count, done_count) < MaxLag
    /\ \A f \in Live : Diff(commit_count, fence[f].seqno) < MaxAge
    /\ commit_count' = Add(commit_count, 1)
    /\ UNCHANGED <<done_count, list, fence, ctxRefs, owner, pc, local, err,
                   cur, seqno>>

\* sde_fence_create reads the timeline under ctx->lock ...
sde_fence_create(offset) ==
    /\ pc["ioctl"] = "idle" /\ owner
    /\ seqno' = Add(commit_count, offset)
    /\ pc' = [pc EXCEPT !["ioctl"] = "create"]
    /\ UNCHANGED <<ctxvars, list, fence, ctxRefs, owner, local, err, cur>>

\* ... _sde_fence_create_fd installs the fd and adds the fence to the list ...
_sde_fence_create_fd(f) ==
    /\ pc["ioctl"] = "create" /\ fence[f].phase = "free"
    /\ fence' = [fence EXCEPT ![f] = [phase |-> "live", seqno |-> seqno,
                                      error |-> FALSE, fd |-> TRUE, refs |-> 2]]
    /\ ctxRefs' = ctxRefs + 1
    /\ list' = list \cup {f}
    /\ seqno' = 0
    /\ err' = [err EXCEPT !["ioctl"] = FALSE]
    /\ pc' = [pc EXCEPT !["ioctl"] = "trigger"]
    /\ UNCHANGED <<ctxvars, owner, local, cur>>

\* ... or runs out of fds or memory: the fence is put again, nothing is triggered
sde_fence_create_fails ==
    /\ pc["ioctl"] = "create"
    /\ seqno' = 0
    /\ pc' = [pc EXCEPT !["ioctl"] = "idle"]
    /\ UNCHANGED <<ctxvars, list, fence, ctxRefs, owner, local, err, cur>>

\* mutant: an extra signal attempt advances the timeline
sde_fence_signal_extra(error) ==
    /\ pc["event"] = "idle" /\ owner
    /\ done_count' = Add(done_count, 1)
    /\ err' = [err EXCEPT !["event"] = error]
    /\ pc' = [pc EXCEPT !["event"] = "trigger"]
    /\ UNCHANGED <<commit_count, list, fence, ctxRefs, owner, local, cur, seqno>>

\* sde_fence_signal(SDE_FENCE_SIGNAL or SDE_FENCE_SIGNAL_ERROR) from the event
\* thread; an extra signal attempt changes nothing
sde_fence_signal(error) ==
    /\ pc["event"] = "idle" /\ owner
    /\ Diff(done_count, commit_count) < 0
    /\ done_count' = Add(done_count, 1)
    /\ err' = [err EXCEPT !["event"] = error]
    /\ pc' = [pc EXCEPT !["event"] = "trigger"]
    /\ UNCHANGED <<commit_count, list, fence, ctxRefs, owner, local, cur, seqno>>

\* sde_fence_signal(SDE_FENCE_RESET_TIMELINE) from sde_crtc_disable
sde_fence_reset_timeline ==
    /\ pc["disp"] = "idle" /\ owner
    /\ Diff(done_count, commit_count) < 0
    /\ done_count' = commit_count
    /\ err' = [err EXCEPT !["disp"] = FALSE]
    /\ pc' = [pc EXCEPT !["disp"] = "trigger"]
    /\ UNCHANGED <<commit_count, list, fence, ctxRefs, owner, local, cur, seqno>>
-----------------------------------------------------------------------------
(* _sde_fence_trigger, run by thread t                                     *)

\* mutant: the fences are copied to the local list and stay on the shared one
TakeByCopy(t) ==
    /\ pc[t] = "trigger" /\ list # {}
    /\ local' = [local EXCEPT ![t] = list]
    /\ pc' = [pc EXCEPT ![t] = "scan"]
    /\ UNCHANGED <<ctxvars, list, fence, ctxRefs, owner, err, cur, seqno>>

\* under list_lock the whole list moves to the caller's local list
TriggerTake(t) ==
    /\ pc[t] = "trigger" /\ list # {}
    /\ local' = [local EXCEPT ![t] = list]
    /\ list' = {}
    /\ pc' = [pc EXCEPT ![t] = "scan"]
    /\ UNCHANGED <<ctxvars, fence, ctxRefs, owner, err, cur, seqno>>

\* "nothing to trigger!"
TriggerEmpty(t) ==
    /\ pc[t] = "trigger" /\ list = {}
    /\ pc' = [pc EXCEPT ![t] = "idle"]
    /\ err' = [err EXCEPT ![t] = FALSE]
    /\ UNCHANGED <<ctxvars, list, fence, ctxRefs, owner, local, cur, seqno>>

\* under ctx->lock: stamp the fence and see whether its point is reached
TriggerCheck(t, f) ==
    /\ pc[t] = "scan" /\ f \in local[t]
    /\ cur' = [cur EXCEPT ![t] = f]
    /\ LET reached == fence[f].phase = "signaled"
                         \/ sde_fence_signaled(fence[f].seqno)
       IN  /\ fence' = [fence EXCEPT ![f] =
                          [@ EXCEPT !.error = err[t],
                             !.phase = IF reached THEN "signaled" ELSE fence[f].phase]]
           /\ pc' = [pc EXCEPT ![t] = IF reached THEN "put" ELSE "moveback"]
    /\ UNCHANGED <<ctxvars, list, ctxRefs, owner, local, err, seqno>>

\* the loop goes on, or the function returns and its locals are gone
Advance(t) ==
    /\ local' = [local EXCEPT ![t] = @ \ {cur[t]}]
    /\ cur' = [cur EXCEPT ![t] = NoFence]
    /\ pc' = [pc EXCEPT ![t] = IF local[t] = {cur[t]} THEN "idle" ELSE "scan"]
    /\ err' = [err EXCEPT ![t] = @ /\ local[t] # {cur[t]}]

\* signaled: off the list and drop the list's reference
TriggerPut(t) ==
    /\ pc[t] = "put"
    /\ fence' = [fence EXCEPT ![cur[t]] = Put(@)]
    /\ ctxRefs' = CtxRefsAfterPut(fence[cur[t]])
    /\ Advance(t)
    /\ UNCHANGED <<ctxvars, list, owner, seqno>>

\* not signaled: back to the shared list, under list_lock
TriggerMoveBack(t) ==
    /\ pc[t] = "moveback"
    /\ list' = list \cup {cur[t]}
    /\ Advance(t)
    /\ UNCHANGED <<ctxvars, fence, ctxRefs, owner, seqno>>
-----------------------------------------------------------------------------
(* The consumers of the fences.                                            *)

\* sde_sync_wait, or a query of the sync file, polls an open fence
sde_sync_wait(f) ==
    /\ fence[f].fd /\ fence[f].phase = "live"
    /\ sde_fence_signaled(fence[f].seqno)
    /\ fence' = [fence EXCEPT ![f].phase = "signaled"]
    /\ UNCHANGED <<ctxvars, list, ctxRefs, owner, pc, local, err, cur, seqno>>

\* the last user closes the fd, at any time: sde_sync_put
sde_sync_put(f) ==
    /\ fence[f].fd
    /\ fence' = [fence EXCEPT ![f] = Put([@ EXCEPT !.fd = FALSE])]
    /\ ctxRefs' = CtxRefsAfterPut(fence[f])
    /\ UNCHANGED <<ctxvars, list, owner, pc, local, err, cur, seqno>>

\* the crtc or connector is destroyed; no thread works for it any more
sde_fence_deinit ==
    /\ owner /\ \A t \in Threads : pc[t] = "idle"
    /\ owner' = FALSE
    /\ ctxRefs' = ctxRefs - 1
    /\ UNCHANGED <<ctxvars, list, fence, pc, local, err, cur, seqno>>

Trigger(t) ==
    \/ TriggerTake(t)
    \/ TriggerEmpty(t)
    \/ \E f \in Fences : TriggerCheck(t, f)
    \/ TriggerPut(t)
    \/ TriggerMoveBack(t)

Create ==
    \/ \E offset \in Offsets : sde_fence_create(offset)
    \/ \E f \in Fences : _sde_fence_create_fd(f)
    \/ sde_fence_create_fails

Next ==
    \/ sde_fence_prepare
    \/ Create
    \/ \E error \in Errors : sde_fence_signal(error)
    \/ sde_fence_reset_timeline
    \/ \E t \in Threads : Trigger(t)
    \/ \E f \in Fences : sde_sync_wait(f) \/ sde_sync_put(f)
    \/ sde_fence_deinit

\* A thread inside _sde_fence_trigger holds no lock for long: it runs on.
Fairness == \A t \in Threads : WF_vars(Trigger(t))

Spec == Init /\ [][Next]_vars /\ Fairness
-----------------------------------------------------------------------------
(* Properties.                                                             *)

\* Every variable keeps its type: counters stay 32-bit like, a fence's record
\* matches struct sde_fence, and each thread is at a step of its function.
TypeOK ==
    /\ commit_count \in Counter /\ done_count \in Counter /\ seqno \in Counter
    /\ list \subseteq Fences
    /\ fence \in [Fences -> FenceType]
    /\ ctxRefs \in Int /\ owner \in BOOLEAN
    /\ pc \in [Threads -> {"idle", "create", "trigger", "scan", "put", "moveback"}]
    /\ local \in [Threads -> SUBSET Fences]
    /\ err \in [Threads -> BOOLEAN]
    /\ cur \in [Threads -> Fences \cup {NoFence}]

\* where a fence is linked: the shared list and the local lists of the triggers
Homes(f) == {t \in Threads : f \in local[t]} \cup
            (IF f \in list THEN {"list"} ELSE {})

\* _sde_fence_trigger moves fences between a shared list and the private lists
\* of concurrent callers: an unsignaled fence is always on exactly one of them,
\* so no caller loses it and no two callers put it; and its reference count is
\* exactly its list entry plus its open fd.
OneHome ==
    \A f \in Fences :
        /\ Cardinality(Homes(f)) <= 1
        /\ fence[f].phase = "live" => Homes(f) # {}
        /\ fence[f].phase = "free" => Homes(f) = {}
        /\ fence[f].refs = (IF Homes(f) # {} THEN 1 ELSE 0)
                             + (IF fence[f].fd THEN 1 ELSE 0)

\* kref of the context: the owner plus every fence not yet released, so that
\* ctx->lock, which every fence uses as its own lock, outlives all of them.
ContextOutlivesFences ==
    ctxRefs = Cardinality(Allocated) + (IF owner THEN 1 ELSE 0)

\* The completed commits never overtake the prepared ones, over any wrap of
\* the counters: sde_fence_signal refuses an extra signal attempt.
DoneWithinCommits == Diff(commit_count, done_count) \in 0 .. MaxLag

\* sde_fence.c implements a timeline: with counters that wrap, lists that
\* move between threads and signals from three of them, a fence still signals
\* only after the completions its offset asked for, and is never released
\* unsignaled.
TL == INSTANCE Timeline WITH
        lag <- Diff(commit_count, done_count),
        wait <- [f \in Fences |-> IF fence[f].phase = "live"
                                  THEN Diff(fence[f].seqno, done_count) ELSE 0],
        phase <- [f \in Fences |-> fence[f].phase]
ImplementsTimeline == TL!TSpec

Due(f) == /\ fence[f].phase = "live"
          /\ Diff(fence[f].seqno, done_count) <= 0

\* _sde_fence_trigger makes progress: a fence that is due and on the shared
\* list while a trigger is about to run gets signaled, whichever of the
\* concurrent triggers takes it and however often the others find no list.
DueFenceSignals ==
    \A f \in Fences :
        (Due(f) /\ f \in list /\ \E t \in Threads : pc[t] = "trigger")
            ~> fence[f].phase # "live"

\* sde_fence.h on sde_fence_signal: "advance fence timeline to signal
\* outstanding fences".  Once every call has returned, no outstanding fence
\* whose point is reached is left unsignaled.
SignalReachesAll ==
    (\A t \in Threads : pc[t] = "idle") => \A f \in Fences : ~Due(f)
=============================================================================
