----------------------------- MODULE MsmAtomic -----------------------------
(***************************************************************************)
(* Atomic commits of msm_atomic.c.  Callers (ioctls, and the last close of *)
(* the device or its shutdown, in msm_drv.c) run msm_atomic_commit; the    *)
(* rest of a commit runs on the display thread of its first crtc, or in    *)
(* the caller when the state holds no crtc.  pending_crtcs and             *)
(* pending_planes, one set here, keep commits on the same objects apart.   *)
(* The DRM core is external: a caller holds the modeset locks of all       *)
(* objects in its state until it returns (back-offs are not modelled).     *)
(* A commit slot stands for a struct msm_commit and its drm_atomic_state.  *)
(***************************************************************************)
EXTENDS Naturals, Sequences, FiniteSets

CONSTANTS Crtcs,     \* crtcs
          CrtcIndex, \* drm_crtc_index
          Planes,    \* planes
          Clients,   \* threads that issue atomic ioctls
          Commits,   \* slots for the commits that exist at one time
          Faults,    \* TRUE: planes or memory may be unavailable
          None       \* no commit, no lock holder

ASSUME AtomicConstants ==
    /\ CrtcIndex \in [Crtcs -> Nat]
    /\ \A j, k \in Crtcs : CrtcIndex[j] = CrtcIndex[k] => j = k
    /\ Crtcs \cap (Planes \cup Clients \cup {"close"}) = {}
    /\ Faults \in BOOLEAN
    /\ None \notin Commits \cup Clients \cup {"close"}
    /\ "close" \notin Clients

Objects == Crtcs \cup Planes
Callers == Clients \cup {"close"}
Executors == Crtcs \cup Callers   \* display threads, and callers

VARIABLES
    lock,       \* modeset lock holder of each crtc and plane (external)
    pending,    \* pending_crtcs and pending_planes
    pc, ptr,    \* step and commit of each caller
    obj,        \* the commits: alive (not kfree'd), refs of the state, contents
    queue,      \* work queue of each display thread
    run, step,  \* commit an executor completes, and how far it is
    active,     \* crtc->state->active, the software state
    hw,         \* what the hardware was last programmed to
    owner,      \* whose new state the software state is, while pending
    how,        \* why "close" runs: the last close, or the shutdown
    shutdown    \* shutdown_in_progress

vars == <<lock, pending, pc, ptr, obj, queue, run, step, active, hw, owner, how,
          shutdown>>
swhw == <<active, hw, owner>>
exec == <<queue, run, step>>

FreeSlot == [alive |-> FALSE, refs |-> 0, mask |-> {}, on |-> "keep",
             nonblock |-> FALSE]

Init ==
    /\ lock = [r \in Objects |-> None] /\ pending = {}
    /\ pc = [t \in Callers |-> "idle"] /\ ptr = [t \in Callers |-> None]
    /\ obj = [c \in Commits |-> FreeSlot]
    /\ queue = [k \in Crtcs |-> <<>>]
    /\ run = [e \in Executors |-> None] /\ step = [e \in Executors |-> "idle"]
    /\ active = [k \in Crtcs |-> FALSE] /\ hw = [k \in Crtcs |-> FALSE]
    /\ owner = [r \in Objects |-> None]
    /\ how = "release" /\ shutdown = FALSE

Goto(t, s) == pc' = [pc EXCEPT ![t] = s]
\* kfree of the commit, drm_atomic_state_put; the slot is reused without both
Freed(rec) == IF rec.refs = 0 THEN FreeSlot ELSE [rec EXCEPT !.alive = FALSE]
Put(rec) == IF rec.refs = 1 /\ ~rec.alive THEN FreeSlot
            ELSE [rec EXCEPT !.refs = @ - 1]
-----------------------------------------------------------------------------
(* The DRM core around a commit.                                           *)

NewState(c, mask, on, nonblock) ==
    /\ obj[c] = FreeSlot
    /\ obj' = [obj EXCEPT ![c] = [alive |-> FALSE, refs |-> 1, mask |-> mask,
                                  on |-> on, nonblock |-> nonblock]]

\* drm_mode_atomic_ioctl locks the objects of its state and commits it
Ioctl(t, c, mask, on, nonblock) ==
    /\ pc[t] = "idle" /\ mask # {}
    /\ \A r \in mask : lock[r] = None
    /\ NewState(c, mask, on, nonblock)
    /\ lock' = [r \in Objects |-> IF r \in mask THEN t ELSE lock[r]]
    /\ ptr' = [ptr EXCEPT ![t] = c]
    /\ Goto(t, "enter")
    /\ UNCHANGED <<pending, exec, swhw, how, shutdown>>

\* msm_lastclose, from drm_release or msm_pdev_shutdown, locks everything and
\* disables all modes
msm_lastclose(c, h) ==
    /\ pc["close"] = "idle" /\ ~shutdown
    /\ \A r \in Objects : lock[r] = None
    /\ NewState(c, Objects, "off", FALSE)
    /\ lock' = [r \in Objects |-> "close"]
    /\ ptr' = [ptr EXCEPT !["close"] = c]
    /\ how' = h
    /\ Goto("close", "enter")
    /\ UNCHANGED <<pending, exec, swhw, shutdown>>

\* the caller puts its state and drops its locks
Return(t) ==
    /\ pc[t] \in {"done", "failed"} /\ run[t] = None
    /\ obj' = [obj EXCEPT ![ptr[t]] = Put(@)]
    /\ ptr' = [ptr EXCEPT ![t] = None]
    /\ LET reset == t = "close" /\ pc[t] = "done" /\ obj[ptr[t]].on = "off"
       IN  /\ lock' = IF reset THEN lock
                      ELSE [r \in Objects |-> IF lock[r] = t THEN None ELSE lock[r]]
           /\ Goto(t, IF reset THEN "reset"
                      ELSE IF t = "close" /\ how = "shutdown" THEN "flag" ELSE "idle")
    /\ UNCHANGED <<pending, exec, swhw, how, shutdown>>

\* after a successful disable sde_kms_lastclose resets the custom properties
sde_kms_lastclose(c) ==
    /\ pc["close"] = "reset"
    /\ NewState(c, Objects, "keep", FALSE)
    /\ ptr' = [ptr EXCEPT !["close"] = c]
    /\ Goto("close", "enter")
    /\ UNCHANGED <<lock, pending, exec, swhw, how, shutdown>>

\* "set this after lastclose to allow kickoff from lastclose"
msm_pdev_shutdown ==
    /\ pc["close"] = "flag"
    /\ shutdown' = TRUE /\ how' = "release"
    /\ Goto("close", "idle")
    /\ UNCHANGED <<lock, pending, ptr, obj, exec, swhw>>
-----------------------------------------------------------------------------
(* msm_atomic_commit                                                       *)

\* prepare the planes and allocate the commit
commit_init(t) ==
    /\ pc[t] = "enter" /\ ~shutdown
    /\ obj' = [obj EXCEPT ![ptr[t]].alive = TRUE]
    /\ Goto(t, "wait")
    /\ UNCHANGED <<lock, pending, ptr, exec, swhw, how, shutdown>>

\* refused during the shutdown, or the planes or the memory are not available
commit_refused(t) ==
    /\ pc[t] = "enter" /\ (shutdown \/ Faults)
    /\ Goto(t, "failed")
    /\ UNCHANGED <<lock, pending, ptr, obj, exec, swhw, how, shutdown>>

\* mutant: the pending planes are not looked at
start_atomic_crtcs_only(t) ==
    LET c == ptr[t] IN
    /\ pc[t] = "wait" /\ obj[c].mask \cap pending \cap Crtcs = {}
    /\ pending' = pending \cup obj[c].mask
    /\ Goto(t, "swap")
    /\ UNCHANGED <<lock, ptr, obj, exec, swhw, how, shutdown>>

\* mutant: nobody waits for the commit before
start_atomic_no_wait(t) ==
    /\ pc[t] = "wait"
    /\ pending' = pending \cup obj[ptr[t]].mask
    /\ Goto(t, "swap")
    /\ UNCHANGED <<lock, ptr, obj, exec, swhw, how, shutdown>>

\* wait until none of the objects is pending, and mark them
start_atomic(t) ==
    LET c == ptr[t] IN
    /\ pc[t] = "wait" /\ obj[c].mask \cap pending = {}
    /\ pending' = pending \cup obj[c].mask
    /\ Goto(t, "swap")
    /\ UNCHANGED <<lock, ptr, obj, exec, swhw, how, shutdown>>

\* a signal ends the wait; the commit is freed
start_atomic_interrupted(t) ==
    LET c == ptr[t] IN
    /\ pc[t] = "wait" /\ obj[c].mask \cap pending # {}
    /\ obj' = [obj EXCEPT ![c] = Freed(@)]
    /\ Goto(t, "failed")
    /\ UNCHANGED <<lock, pending, ptr, exec, swhw, how, shutdown>>

\* mutant: one reference too many is taken
swap_state_two_refs(t) ==
    LET c == ptr[t]
        want == [k \in Crtcs |-> IF obj[c].on = "keep" \/ k \notin obj[c].mask
                                 THEN active[k] ELSE obj[c].on = "on"]
    IN  /\ pc[t] = "swap"
        /\ active' = want
        /\ owner' = [r \in Objects |-> IF r \in obj[c].mask THEN c ELSE owner[r]]
        /\ obj' = [obj EXCEPT ![c].refs = @ + 2]
        /\ Goto(t, "dispatch")
        /\ UNCHANGED <<lock, pending, ptr, exec, hw, how, shutdown>>

\* drm_atomic_helper_swap_state, and a reference for the asynchronous part
swap_state(t) ==
    LET c == ptr[t]
        want == [k \in Crtcs |-> IF obj[c].on = "keep" \/ k \notin obj[c].mask
                                 THEN active[k] ELSE obj[c].on = "on"]
    IN  /\ pc[t] = "swap"
        /\ active' = want
        /\ owner' = [r \in Objects |-> IF r \in obj[c].mask THEN c ELSE owner[r]]
        /\ obj' = [obj EXCEPT ![c].refs = @ + 1]
        /\ Goto(t, "dispatch")
        /\ UNCHANGED <<lock, pending, ptr, exec, hw, how, shutdown>>

FirstCrtc(mask) ==
    CHOOSE k \in mask \cap Crtcs : \A j \in mask \cap Crtcs : CrtcIndex[k] <= CrtcIndex[j]

\* mutant: a blocking commit is freed without waiting for its work
dispatch_no_flush(t) ==
    LET c == ptr[t] IN
    /\ pc[t] = "dispatch"
    /\ \/ /\ obj[c].mask \cap Crtcs # {}
          /\ queue' = [queue EXCEPT ![FirstCrtc(obj[c].mask)] = Append(@, c)]
          /\ Goto(t, IF obj[c].nonblock THEN "done" ELSE "free")
          /\ UNCHANGED <<run, step>>
       \/ /\ obj[c].mask \cap Crtcs = {}
          /\ run' = [run EXCEPT ![t] = c] /\ step' = [step EXCEPT ![t] = "program"]
          /\ Goto(t, IF obj[c].nonblock THEN "done" ELSE "free")
          /\ UNCHANGED queue
    /\ UNCHANGED <<lock, pending, ptr, obj, swhw, how, shutdown>>

\* msm_atomic_commit_dispatch: nonblock is read before the work is queued on the
\* thread of the first crtc; without a crtc the caller completes the commit.
\* (Every crtc has a thread: msm_drm_init fails otherwise.)
msm_atomic_commit_dispatch(t) ==
    LET c == ptr[t] IN
    /\ pc[t] = "dispatch"
    /\ \/ /\ obj[c].mask \cap Crtcs # {}
          /\ queue' = [queue EXCEPT ![FirstCrtc(obj[c].mask)] = Append(@, c)]
          /\ Goto(t, IF obj[c].nonblock THEN "done" ELSE "flush")
          /\ UNCHANGED <<run, step>>
       \/ /\ obj[c].mask \cap Crtcs = {}
          /\ run' = [run EXCEPT ![t] = c] /\ step' = [step EXCEPT ![t] = "program"]
          /\ Goto(t, IF obj[c].nonblock THEN "done" ELSE "free")
          /\ UNCHANGED queue
    /\ UNCHANGED <<lock, pending, ptr, obj, swhw, how, shutdown>>

\* kthread_flush_work
flush_work(t) ==
    /\ pc[t] = "flush"
    /\ \A k \in Crtcs : run[k] # ptr[t] /\ ptr[t] \notin {queue[k][i] : i \in DOMAIN queue[k]}
    /\ Goto(t, "free")
    /\ UNCHANGED <<lock, pending, ptr, obj, exec, swhw, how, shutdown>>

\* the caller frees a blocking commit
free_commit(t) ==
    /\ pc[t] = "free" /\ run[t] = None
    /\ obj' = [obj EXCEPT ![ptr[t]] = Freed(@)]
    /\ Goto(t, "done")
    /\ UNCHANGED <<lock, pending, ptr, exec, swhw, how, shutdown>>
-----------------------------------------------------------------------------
(* complete_commit, on executor e                                          *)

\* the display thread takes the next work
_msm_drm_commit_work_cb(k) ==
    /\ run[k] = None /\ queue[k] # <<>>
    /\ run' = [run EXCEPT ![k] = Head(queue[k])]
    /\ queue' = [queue EXCEPT ![k] = Tail(@)]
    /\ step' = [step EXCEPT ![k] = "program"]
    /\ UNCHANGED <<lock, pending, pc, ptr, obj, swhw, how, shutdown>>

\* wait for the input fences; then disables, planes, enables: the hardware gets
\* the current software state
program_hw(e) ==
    /\ step[e] = "program"
    /\ hw' = [k \in Crtcs |-> IF k \in obj[run[e]].mask THEN active[k] ELSE hw[k]]
    /\ step' = [step EXCEPT ![e] = "cleanup"]
    /\ UNCHANGED <<lock, pending, pc, ptr, obj, queue, run, active, owner, how, shutdown>>

\* wait for the hardware, clean up the planes, put the state
complete_put(e) ==
    /\ step[e] = "cleanup"
    /\ obj' = [obj EXCEPT ![run[e]] = Put(@)]
    /\ step' = [step EXCEPT ![e] = "end"]
    /\ UNCHANGED <<lock, pending, pc, ptr, queue, run, swhw, how, shutdown>>

\* mutant: the planes stay pending
end_atomic_crtcs_only(e) ==
    LET c == run[e] IN
    /\ step[e] = "end"
    /\ pending' = pending \ (obj[c].mask \cap Crtcs)
    /\ owner' = [r \in Objects |-> IF r \in obj[c].mask THEN None ELSE owner[r]]
    /\ step' = [step EXCEPT ![e] = "destroy"]
    /\ UNCHANGED <<lock, pc, ptr, obj, queue, run, active, hw, how, shutdown>>

end_atomic(e) ==
    LET c == run[e] IN
    /\ step[e] = "end"
    /\ pending' = pending \ obj[c].mask
    /\ owner' = [r \in Objects |-> IF r \in obj[c].mask THEN None ELSE owner[r]]
    /\ step' = [step EXCEPT ![e] = "destroy"]
    /\ UNCHANGED <<lock, pc, ptr, obj, queue, run, active, hw, how, shutdown>>

\* ... and frees a nonblocking commit
commit_destroy(e) ==
    /\ step[e] = "destroy"
    /\ obj' = IF obj[run[e]].nonblock THEN [obj EXCEPT ![run[e]] = Freed(@)] ELSE obj
    /\ run' = [run EXCEPT ![e] = None] /\ step' = [step EXCEPT ![e] = "idle"]
    /\ UNCHANGED <<lock, pending, pc, ptr, queue, swhw, how, shutdown>>
-----------------------------------------------------------------------------
CallerStep(t) ==
    \/ commit_init(t) \/ start_atomic(t) \/ swap_state(t)
    \/ msm_atomic_commit_dispatch(t) \/ flush_work(t) \/ free_commit(t) \/ Return(t)

CloseStep ==
    \/ \E c \in Commits : sde_kms_lastclose(c)
    \/ msm_pdev_shutdown

CompleteStep(e) ==
    \/ program_hw(e) \/ complete_put(e)
    \/ end_atomic(e) \/ commit_destroy(e)

Worker(k) == _msm_drm_commit_work_cb(k) \/ CompleteStep(k)

Next ==
    \/ \E t \in Clients, c \in Commits, mask \in SUBSET Objects, on \in {"on", "off"},
         nonblock \in BOOLEAN : Ioctl(t, c, mask, on, nonblock)
    \/ \E c \in Commits, h \in {"release", "shutdown"} : msm_lastclose(c, h)
    \/ CloseStep
    \/ \E t \in Callers :
         \/ CallerStep(t) \/ commit_refused(t) \/ start_atomic_interrupted(t)
         \/ CompleteStep(t)
    \/ \E k \in Crtcs : Worker(k)

\* Callers and display threads run on, input fences signal, memory is freed.
Fairness ==
    /\ \A t \in Callers : WF_vars(CallerStep(t) \/ commit_refused(t) \/ CompleteStep(t))
    /\ WF_vars(CloseStep)
    /\ \A k \in Crtcs : WF_vars(Worker(k))

Spec == Init /\ [][Next]_vars /\ Fairness
-----------------------------------------------------------------------------
(* Properties.                                                             *)

\* Every variable keeps its type; the reference count of a state stays within
\* its two holders, the caller and the asynchronous part.
TypeOK ==
    /\ lock \in [Objects -> Callers \cup {None}]
    /\ pending \subseteq Objects
    /\ pc \in [Callers -> {"idle", "enter", "wait", "swap", "dispatch", "flush", "free",
                           "done", "failed", "reset", "flag"}]
    /\ ptr \in [Callers -> Commits \cup {None}]
    /\ obj \in [Commits -> [alive : BOOLEAN, refs : 0 .. 2, mask : SUBSET Objects,
                            on : {"on", "off", "keep"}, nonblock : BOOLEAN]]
    /\ queue \in [Crtcs -> Seq(Commits)]
    /\ run \in [Executors -> Commits \cup {None}]
    /\ step \in [Executors -> {"idle", "program", "cleanup", "end", "destroy"}]
    /\ active \in [Crtcs -> BOOLEAN] /\ hw \in [Crtcs -> BOOLEAN]
    /\ owner \in [Objects -> Commits \cup {None}]
    /\ how \in {"release", "shutdown"} /\ shutdown \in BOOLEAN

Queued(c) == \E k \in Crtcs : c \in {queue[k][i] : i \in DOMAIN queue[k]}

\* The commit and its state are freed by whoever is last, caller or display
\* thread: nobody holds, queues or completes a commit that was freed, and the
\* state is there until its last user has put it.
NoUseAfterFree ==
    /\ \A t \in Callers :
         /\ pc[t] \in {"wait", "swap", "dispatch", "flush", "free"} => obj[ptr[t]].alive
         /\ ptr[t] # None => obj[ptr[t]].refs > 0
    /\ \A c \in Commits : Queued(c) => obj[c].alive /\ obj[c].refs > 0
    /\ \A e \in Executors : run[e] # None =>
         /\ obj[run[e]].alive
         /\ step[e] \in {"program", "cleanup"} => obj[run[e]].refs > 0

\* "It must be guaranteed that the asynchronous work has either been cancelled
\* or completed before the new state gets committed on the software side": the
\* state an executor programs is the one its own commit has swapped in.
AsyncBeforeSwap ==
    \A e \in Executors : step[e] \in {"program", "cleanup", "end"} =>
        \A r \in obj[run[e]].mask : owner[r] = run[e]

\* A crtc that no commit is pending on shows what the software state says.
SwHwInSync == \A k \in Crtcs \ pending : hw[k] = active[k]

\* Every call of msm_atomic_commit returns, and no object stays pending: the
\* modeset locks keep others from overtaking a caller that waits.
CommitsReturn ==
    /\ \A t \in Callers : (pc[t] # "idle") ~> (pc[t] = "idle")
    /\ \A r \in Objects : (r \in pending) ~> (r \notin pending)

\* msm_drv.c on msm_disable_all_modes: "disables all planes and crtcs via an
\* atomic commit".  When the last close is over and the commits before it have
\* completed, every crtc is off.
LastCloseTurnsOff ==
    pc["close"] \in {"done", "failed"} /\ pending = {} => \A k \in Crtcs : ~hw[k]
=============================================================================
