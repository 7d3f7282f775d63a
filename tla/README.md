# Verification of the display drivers

The repository holds the Qualcomm display drivers: the DRM/KMS driver (`msm/`),
its SDE display engine (`msm/sde/`), DSI and DisplayPort (`msm/dsi/`, `msm/dp/`),
and the rotator, PLL and lease drivers. This directory models the part of it
that is concurrent, long-lived and hard to test: how an atomic commit travels
from an ioctl to the hardware and back to user space, how clocks, power,
interrupts and hardware blocks follow it, and how a DisplayPort comes and goes.

    ioctl thread            display thread of a crtc            event thread, irqs
    msm_atomic_commit  -->  complete_commit                     frame done, vsync
      create fences           mode_set / enable / kickoff  -->    frame_event_work
      start_atomic            resource control (KICKOFF..)        sde_fence_signal
      swap, prepare fence     delayed off work (IDLE)             ESD trigger work
      dispatch, flush         vblank work                       ESD status work

`MsmAtomic` models the left half and the hand-over, `EncoderRC` the middle and
the right, `SdeFence` the fences that connect the right with the left. Below the
display thread, `SdeRm` models which mixers, CTLs and compression blocks a commit
gets, and `DsiClk` the clocks, supplies and power votes it switches. `DpDisplay`
models the hot plug that makes user space commit at all.

## 1. Inventory

**Fence timelines** (`msm/sde/sde_fence.c`). A context per crtc (release fences)
and per connector (retire fences): `commit_count`, `done_count`, a list of
fences and a kref. Operations: prepare, create, signal (also with error), reset,
deinit; user space polls and closes the fences. The ioctl, the event thread and
the display thread run `_sde_fence_trigger` concurrently; each moves the shared
list to a local one. Correct when no fence is lost or put twice, none signals
before its frame is done, the counters survive their wrap, and the context
outlives its fences.

**Atomic commits** (`msm/msm_atomic.c`, `msm/msm_drv.c`). State: the pending
crtcs and planes, one work queue per crtc, a commit object and a reference
counted state per commit. Operations: commit (blocking or not), completion on
the display thread or in the caller, last close, shutdown. Correct when nobody
touches a freed commit, a state is swapped in only after the commit before it
is complete, hardware and software agree when nothing is pending, and every
caller returns.

**Encoder resource control** (`msm/sde/sde_encoder.c`). A state machine (OFF,
PRE_OFF, ON, MODESET, IDLE) under `rc_lock` with eight events, raised by commits,
the idle timer, input, the ping-pong interrupt and the ESD recovery. It holds a
power vote, a DSI clock vote, interrupt registrations and an RSC vote. Correct
when the votes follow the state, no collapse happens under a frame in flight, the
idle timer is neither lost nor re-initialised while armed, and no wait is
circular.

**Physical encoders** (`sde_encoder_phys_cmd.c`, `_vid.c`, `_wb.c`). Pending
kickoff counts, the vblank interrupt refcount, waits with timeouts.

**Crtc** (`sde_crtc.c`). `enabled`, `vblank_requested`, `frame_pending`, a pool of
frame events handled on the event thread.

**Connector and ESD check** (`sde_connector.c`, `msm/dsi/dsi_display.c`,
`dsi_drm.c`). A periodic status work; a dead panel is reported once, guarded by
`esd_recovery_pending`; a timed-out frame wait checks the panel too and cancels
the status work.

**DSI clock manager** (`msm/dsi/dsi_clk_manager.c`). Refcounts and ON /
EARLY_GATE / OFF states per client for core and link clocks, aggregated into the
state of the manager; callbacks around every switch, which change supplies,
clamps, ULPS and the PHY; steps that can fail; a forced update of the clock rate.
Its callers are the display thread, the encoder, backlight, ESD check, sysfs and
debugfs. Correct when a clock believed on is on, votes come back, core clocks
enclose link clocks, nobody loses the link in the middle of a transfer, and lanes
in ULPS survive the collapse.

**Resource manager** (`msm/sde/sde_rm.c`). Current and next reservation of every
hardware block, under `rm_lock`. Operations: reserve (in the check phase as a
test, with LOCK or CLEAR, in `mode_set` for good) and release. Correct when a
failed or test-only call leaves the current reservations, no display takes or
loses blocks of another, a lit display has all its topology needs, and a locked
reservation is still there for its commit.

**RSC** (`msm/sde_rsc.c`, `sde_rsc_hw*.c`). State: the vote of every client (IDLE,
CLK, CMD, VID), the controller's own state, its power collapse and clocks, and the
number of vsyncs still to wait for. A request may be refused, redirected to
another client's state, or have to wait. Correct when the controller is in the
state all votes ask for, does not collapse while the power handle needs it, and
leaves no wait behind.

**KMS layer, core interrupts, power handle** (`sde_kms.c`, `sde_core_irq.c`,
`sde_power_handle.c`). Power votes around a commit, suspend and resume, secure
transitions; callback lists with enable counts; refcounted power clients. Correct
when the handle's state matches its resources, also after an enable that failed.

**DisplayPort** (`msm/dp/`). A hot plug detector, a work queue with connect and
attention work, the bridge calls of a commit, and power management share
`dp_display_private`: whether the host is initialised, connected, powered,
aborted, suspended, which streams are active, what user space was told. Correct
when a stream runs only on an initialised host, counts never underflow (a PHY test
of the sink breaks this, see section 3), user space was told the truth, an abort ends, an unplug is torn down to the last clock
and a plug is not lost.

**HDCP** (`msm/sde_hdcp_*.c`, `msm/dp/dp_hdcp2p2.c`). Authentication machines.

**The rest.** Planes, catalog, color processing, reg DMA and hardware blocks are
register programming; `sde_dbg` is diagnostics; GEM/SMMU manage buffers; the
rotator, PLL, lease and shared-display drivers stand beside the display path.

`PROJECT.json` lists every component with what is and is not modelled, and under
`hazards` what is hard to test, at its line.

## 2. Modules

| module | models |
|---|---|
| `Timeline` | what a fence timeline promises, without lists, locks or counter width |
| `SdeFence` | one context of `sde_fence.c`, three threads and the users of the fences |
| `SdeFenceProofs` | the inductive invariant of `SdeFence` and its theorems |
| `EncoderRC` | resource control of a primary DSI encoder and everything that drives it |
| `MsmAtomic` | atomic commits, display threads, last close and shutdown |
| `SdePower` | the power handle as a value, with the calls on it |
| `DsiClk` | the DSI clock manager, its callbacks and callers, on top of `SdePower` |
| `Reservations` | what a resource manager promises, without topologies or searches |
| `SdeRm` | the resource manager, between checks, commits and disables of several encoders |
| `DpDisplay` | hot plug of a DisplayPort against commits and system sleep |
| `SdeRsc` | the RSC between the power handle and the encoders, on top of `SdePower` |
| `EncoderRCProofs`, `MsmAtomicProofs`, `DsiClkProofs`, `SdeRmProofs`, `SdeRscProofs`, `DpDisplayProofs` | the inductive invariants of these modules and their theorems |
| `SdeRmSearchProofs` | what the search of `SdeRm` for mixers and compression blocks finds; `SdeRmProofs` extends it |
| `MCSdeFence`, `MCEncoderRC`, `MCMsmAtomic`, `MCDsiClk`, `MCSdeRm`, `MCSdeRsc` | constants for TLC |

Definitions keep the names of the functions they translate. An operator marked
"mutant" in a comment is no part of a specification: it is a wrong version of
the definition below it, used to see that a property notices the difference.

### SdeFence

One step is one critical section of `ctx->lock` or `ctx->list_lock`. `fence[f]`
holds what `struct sde_fence` and its `dma_fence` hold: phase, seqno, error, open
fd, references. Each of the threads `ioctl`, `event`, `disp` has a program counter
and the locals of `_sde_fence_trigger` (`local`, `cur`, `err`). Lists are sets: the
code never relies on the order. `Add` and `Diff` are the unsigned addition and the
signed difference `(int)(a - b)` at a width of `2 * Half`, so that the wrap
happens in small runs.

`MaxLag` bounds the commits prepared and not completed, `MaxAge` how far the
timeline may run past a live fence. The driver has no such check; it relies on
the display being slower than 2^31 commits behind. Both are assumptions of the
model, stated as `FenceConstants`, and the theorems need no more of them than
`MaxLag + MaxOffset < Half` and `MaxAge < Half`. The age bound restricts only
`sde_fence_prepare`; a fence that stays unsignaled that long is due anyway.

`Timeline` is the abstract specification. The refinement maps `lag` to
`Diff(commit_count, done_count)`, `wait[f]` to `Diff(seqno, done_count)` of a live
fence and `phase` to the phase. It says that a fence signals only after the
completions its offset asked for and is released only after it signaled.

### EncoderRC

`rc` is `rc_state`; `res` is what the encoder holds: `power` and `clk` votes, `vbl`,
the refcount of the vblank interrupt, `irqs` and the `rsc` vote. Each event of
`sde_encoder_resource_control` is an operator `Rc...` used by the actions of the
threads. `disp` is the display thread: a commit is a sequence of steps, from
`mode_set` or `pre_modeset` or `bridge_disable` to the end. The ping-pong handler is
four steps, since FRAME_DONE runs there without a lock. The ESD status work is
`esd`, the event thread runs `frame_event_work` and `esd_trigger_work`.

`cfg` is fixed at boot: video or command mode, seamless mode switches (DMS), ESD
checks, and which faults occur (votes, reservation, lost frames). In command mode
`mode_set` starts the vblank refcount again from 0 (`cmd_mode_set`), and a vblank request
is refused, with a result that nobody reads, until a first reservation has set `hw_pp`.
So `VblankRefExact` has two parts: there are never more references than users, whatever
fails, and there are exactly as many unless a KICKOFF has failed since the display was
enabled or no reservation ever succeeded.

Abstractions: the encoder has one physical encoder; autorefresh is off; LP modes
and pm_qos do not matter to the state; the vsync event timer, which STOP also
cancels, is not modelled; waits in video mode do not time out; when a wait times
out the ping-pong handler of that frame is assumed not to be running
(`FrameLost`). The last is an assumption about time (84 ms), see the hazards.
A commit may be followed by at most `MaxPending` unreported frames.

### MsmAtomic

A commit slot is a `struct msm_commit` (`alive`) with its `drm_atomic_state` (`refs`,
`mask`, requested `on`). Callers are the clients and `"close"`, which stands for
`msm_lastclose`, from the release of the device or from `msm_pdev_shutdown`. The DRM
core is external: it locks the objects of a state before `msm_atomic_commit` and
unlocks them after. `start_atomic` waits for the pending objects, can be
interrupted by a signal, and everything after it cannot fail. `dispatch` queues on
the thread of the first crtc or completes in the caller. Completion is four
steps: program the hardware, put the state, clear the pending marks, free.
Left out: lock back-off (`-EDEADLK`), the early returns of the last close for the
splash screen and fbdev, and the KMS power votes.

### DsiClk

Two handles vote: `"dsi"`, shared by all users in `dsi_display.c`, and `"mdp"`, the
encoder's. A request (`dsi_clk_req_state`) changes the client's refcount and state
under the clock mutex and computes from all votes which switches are due; `upd`
holds the ones left. One step is one switch of core, LP or HS clocks with its
callbacks, so that the panel lock, `esd_recovery_pending` and the power handle can
change between two of them. `io` is what the callbacks handle: controller
supplies, clamps, ULPS as the driver believes and as the lanes are, the PHY.
`Calls` lists the requests: where each starts, and where its thread goes on
success and on failure. Threads: the display thread (a commit from `prepare_commit`
to `complete_commit`), idle collapse and wake-up, the panel thread (backlight or
status check), debugfs; a clock rate written to sysfs is one step.

Each failing step ends the way its error path ends it. What the paths leave
behind is part of the model: a failed enable of the core clocks leaves the
controller supplies on, and a later enable fails on "No change in state"; a failed
forced update leaves the link marked on with its clocks off and the rate pending
until the next commit tries again; a failed `prepare_commit` leaves the refcount
of the power client raised. Hence `BelievedIsOn` holds whatever failed, but for a
pending rate, while `VotesComeBack`, `LiveLink` and `UlpsSurvives` are stated for
behaviours without a failure.

Left out: EARLY_GATE, which no caller in the repository requests; the second
controller of a split display, which follows the master; seamless commits
(`EncoderRC` has them).

### SdeRm

A block is `<<type, id>>`, `rsvp` its current and `nxt` its proposed reservation. A
call runs under `rm_lock` and is one step: `sde_rm_reserve` returns the new
reservations, whether it succeeded and the topology. The search for mixers
(connected blocks, pairs, dedicated and concurrent writeback mixers), CTLs, DSC,
CDM, QDSS and interfaces is translated; where the code takes the first of a list,
ids give the order (`Rounds` runs the search round by round, as a recursive function
on the number of rounds). `hw` is what an encoder drives between `mode_set` and
`disable`. Displays lit by the boot loader take their blocks through the same
`sde_rm_reserve`, one after another (`sde_encoder_update_caps_for_cont_splash`, phase
"boot"), while other displays may already be checked and committed.

Assumed of user space and the DRM core: LOCK and CLEAR are used for a display that
is off and has no commit under way; a display is not switched while it is cloned,
since the two share a crtc. The first commit on a display lit by the boot loader
skips the disable; a `mode_set` that fails leaves the display unenabled, a seamless
one leaves it in its old mode. Left out: ROI MISR, blocks of shared displays,
topology NONE.

Assumed of the catalog: blocks have ids from 1 (`LM_0` and `DSC_0` are 1, 0 stands for
none), and `PairsMatch`: a mixer or compression block names at most one peer, not
itself, and is its peer's peer. `sde_mixer_parse_dt` and the parser for DSC set one bit
of the mask, and their default for DSC pairs neighbours; that a mask is mutual the
device tree must see to, since the masks say which blocks one CTL can drive together.

`Reservations` is the abstract specification, with `holder <- rsvp`: the blocks of
a display that is on change only when it is switched itself, and no switch takes a
block from another display.

### DpDisplay

The port has one stream and a branch device whose display may come and go. Four
threads: the detector (`dp_gpio_hpd.c`, a work per edge), the work queue of
`dp_display.c`, the commit thread with the bridge calls, power management. `dp`
holds `dp_display_private` and the part of `dp_ctrl` and `dp_link` it relies on.
One step is one section under `session_lock`; only the probe of the sink holds it
over several steps. A PHY test that the sink asks for is handled without the lock
(`dp_ctrl_process_phy_test_request`): the places `phy`, `phy_count`, `phy_off` and
`phy_on` of the display's work queue are its steps, and `seen` is the `stream_count`
it read before a commit may have counted. That count is unsigned and taken modulo
`Values`; `dp.phy` is the PHY test bit of `sink_request`, with which
`dp_ctrl_stream_on` does not count a stream. Requests to train the link again and
link status updates change none of this state. Waits for user space (`notification_comp`) end with the answer
or with the timeout; the disconnect sequence abort, flush, cancel, reset is a step
each, since that is where hot plugs meet.

User space lights the port only when it was told of a display. The driver's own
suspend and resume, which switch displays off and on, lie between `dp_pm_prepare`
and `dp_pm_complete`. `MaxLeaks` bounds the streams and DSC blocks that an unplug
during an enable leaves counted (see the findings): without it the counts would
grow for ever. Left out: MST, bonded ports, HDCP, audio, debugfs simulation, USB-PD
and LPHW detectors.

### SdeRsc

`vote` is `current_state` of each client, `rsc` the controller: its state, the state
its hardware was programmed for, `power_collapse`, the refcount of its clocks and
`rsc_vsync_wait`. A request runs under `client_lock` and is one step; only one that
meets a vsync still awaited stays inside (`pend`) until the count is zero or 68 ms
have passed. Encoders take the power handle, vote, and wait for the primary's
vblank if they are asked to; they read and lower the count without the lock. The
power handle is that of `SdePower`, with its failing clocks and its vote taken
back; refcount, vote and clocks of a switch are one step where `phandle_lock`
covers them and no other client can tell.

`Configs` pairs the versions: version 2 with displays that vote for VID, version 3
with the rules for SDE 6.2 (externals vote for CLK) or with clones only, since
version 3 refuses VID to an external display. `failed` is a history variable: the
driver does not undo a vote whose switch failed, and until the next successful
switch nothing is claimed about the state. Left out: bandwidth votes and their
`trigger_vote`, timers (only that a new configuration arrives), hibernation,
destruction of clients, debugfs.

## 3. Runs

| run | checks | instance |
|---|---|---|
| `fence` | `TypeOK` `OneHome` `ContextOutlivesFences` `DoneWithinCommits` `ImplementsTimeline` `DueFenceSignals` | 2 fences, counters mod 6, offset 1, lag 1, age 0 |
| `fence_lost` | `SignalReachesAll`: violated | 2 fences |
| `enc` | `TypeOK` `PowerMatchesState` `VblankRefExact` `NoCollapseWhileBusy` `OffWorkQuiescentAtReinit` `NoCircularWait` `EventuallyIdle` `CommitsEnd` | command mode with DMS, command mode with ESD, video mode; all faults |
| `enc_leak` | `StopReleasesAll`: violated | video mode with DMS |
| `enc_recovery` | `NoCheckDuringRecovery`: violated | command mode with ESD and DMS |
| `atomic` | `TypeOK` `NoUseAfterFree` `AsyncBeforeSwap` `SwHwInSync` `CommitsReturn` | 2 crtcs, 1 plane, a client and the close, 2 commits |
| `atomic_lastclose` | `LastCloseTurnsOff`: violated | 1 crtc, 1 plane |
| `dsiclk` | `TypeOK` `BelievedIsOn` `VotesComeBack` `LiveLink` `UlpsSurvives` `CoreBeforeLinkUnlessFault` | six panels (command and video mode, ULPS settings, boot splash), one failure at any of ten sites |
| `dsiclk_ulps` | `NoUlpsWhenBlank`: violated | the same panels, a failing status check |
| `rm` | `TypeOK` `DrivesItsOwn` `Complete` `LockHolds` `ImplementsReservations` | DSI (one or two pipes with DSC, lit at boot), DP (3D merge with DSC and CDM, or one pipe), cloning writeback; 4 mixers, 5 CTLs, 3 DSCs, 1 CDM |
| `dp` | `TypeOK` `ActiveNeedsHost` `ToldIsTrue` `CountsCover` `AbortEnds` `UnplugTornDown` `PlugNoticed` | 2 changes of the cable, 1 of the sink, 1 request for a video or PHY test, 1 fault, 1 sleep, 1 leak; at most 5 of these events together, a PHY test being two; `stream_count` mod 4 |
| `rsc` | `TypeOK` `VotesHonoured` `PowerMeansAwake` | a primary, a DP and a writeback display; five pairings of RSC version, display engine and panel; 2 faults |

**Why the bounds are enough.** Fences: two on the list and three triggers give
every way to split, miss and return a list; the counters wrap many times; larger
offsets, lags and widths are the business of the theorems. Encoder:
the state space is finite but for `frame_pending`, of which only 0, 1 and "more"
matter to FRAME_DONE. Commits: two in flight are what it takes to overtake, reuse
or block; two crtcs with distinct indices make the choice of the first crtc and
overlapping masks happen. The client's nonblocking commits run on while it issues
the next one, and the last close is a second caller; a second client (checked
for the invariants, too large for the liveness property) adds only callers on
objects that the modeset locks keep apart. Clocks: without faults the state is finite
and explored in full; one failure is what the error paths are written for, and
commits go on after it without a bound. Resources: the three displays together
ask for more mixers than there are, so that requests fail and displays get in each
other's way. DisplayPort: two changes of the cable are an unplug and a replug (or
the reverse, the first state being either); the races of the findings need no
more. At most five of all events come together (`MaxEvents`), so that a PHY test does
not multiply the states of everything else: with it come, say, a plug, an unplug and
a sleep or a fault. `Values` only has to exceed the counts that are reached without a
wrap. Work, waits and commits are not bounded. RSC: two external displays are what it
takes for one to block what the other asks for; two faults let an error path meet
a second error; requests are not bounded.

**Deadlock** is checked in all runs but those of `SdeFence`, where after
`sde_fence_deinit` and the last put nothing is left to do. In `DpDisplay` a system
at rest with nothing left to happen steps by `Quiet`, which requires that no thread
is half way.

**What the violations show** (`findings` in `PROJECT.json`):
- `fence_lost`: a signal that meets another thread's trigger returns at "nothing to
  trigger!" and leaves a due fence to the next trigger.
- `enc_leak`: PRE_MODESET from the video mode IDLE state votes twice, STOP drops one.
- `enc_recovery`: a DMS commit clears `esd_recovery_pending` while the status work
  still reports the dead panel; the status work may even cancel itself. The passing
  run `enc` shows that without this combination there is no circular wait.
- `atomic_lastclose`: the retry condition of `msm_disable_all_modes` is always true,
  so that an interrupted wait leaves the display on.
- `dsiclk_ulps`: a status check that fails while the link wakes up blocks the exit
  from ULPS, and the panel is blanked with its lanes in ULPS and no clamps.

Further findings have no run of their own. The properties are stated with a
premise that excludes them, and dropping the premise gives the counterexample:
- after a failing step core and link clocks may switch in the wrong order
  (`CoreBeforeLink` without its premise);
- a reservation that fails in a seamless switch leaves the resource control in
  MODESET, where every KICKOFF is refused and a second PRE_MODESET votes again
  (`NoClash` in the theorems; the run `enc` has no such configuration);
- the crtc's vblank interrupt can be off although `vblank_enabled` is set: a request while
  there is no `hw_pp` is dropped (`sde_encoder_phys_cmd.c:820`, the result is ignored at
  `sde_encoder.c:4323`), and after a failed KICKOFF a mode switch finds OFF, PRE_MODESET
  leaves the references alone and `mode_set` resets the count (`sde_encoder_phys_cmd.c:386`);
  only a disable or a mode switch through MODESET repairs it (the premise of the second
  part of `VblankRefExact`; both happen in the run `enc`);
- `_sde_rm_make_next_rsvp` ignores the result of the search for CTLs, so that a
  display can be on without one (`Complete` does not ask for CTLs);
- an abort raised by `dp_pm_prepare` can outlive the resume (`AbortEnds` is about a
  system that did not sleep);
- an unplug between prepare and enable, or while lit, leaves a stream count or DSC
  blocks behind (`CountsCover` is an inequality);
- a PHY test takes `stream_count` below the active streams: `dp_ctrl_stream_on` returns
  before it counts (`dp_ctrl.c:1071-1074`), and the test itself lowers the count of a
  lit stream and does not raise it again (`dp_ctrl.c:806-819`). The `dp_ctrl_stream_off`
  of the next disable then wraps the u32 (`dp_ctrl.c:1156`), and from then on
  `dp_ctrl_fec_dsc_setup` returns early (`dp_ctrl.c:1031`) and a link maintenance sends
  video that is not there (`dp_ctrl.c:775`). `CountsCover` speaks of `stream_count` only
  while no PHY test was asked for (`NoPhyTest`); without this premise the run `dp`
  violates it;
- a sink that returns while its absence is still being handled is not noticed
  (`PlugNoticed` assumes a sink that stays).

One more is a wait that only its timeout ends: an external display that took the
RSC from CMD to CLK waits for a vblank that the primary's thread has to enable,
while that thread waits under `client_lock` for the external one (`SdeRsc` reaches
`pend.by = "prim"` with `rsc.wait > 0` and no fault).

**Fairness.** Weak fairness only. `SdeFence`: a thread inside the trigger holds
spinlocks for a few instructions. `EncoderRC`: kernel threads, works and timers
run when they are due, handlers complete, and a kicked-off frame is reported or
its wait times out. Commits, input, vblank requests and failing checks have no
fairness. `MsmAtomic`: threads run on and input fences signal; nothing is assumed
about ioctls, signals or the scheduling between callers. That a waiting caller is
not overtaken for ever follows from the modeset locks it holds. `DpDisplay`: the
detector's and the display's work queues run, a wait for user space times out, and
a commit that has begun goes on; cable, sink, the start of a commit and the system's
sleep have no fairness. `DsiClk`, `SdeRm` and `SdeRsc` state safety only.

## 4. Proofs

TLAPS proves the following for every value of the constants that satisfies the
named assumption of the module: any fences, crtcs, planes, clients, commits, catalogs,
displays, any number of faults. The runs of section 3 check the same definitions on
one instance.

| module | theorem | statement |
|---|---|---|
| `SdeFenceProofs` | `Invariance` | `Spec => []IInv` |
| (`FenceConstants`) | `TypeCorrect` | `Spec => []TypeOK` |
| | `DoneNeverOvertakes` | `Spec => []DoneWithinCommits` |
| | `OneHomeAlways` | `Spec => []OneHome` |
| | `ContextOutlives` | `Spec => []ContextOutlivesFences` |
| | `FencesImplementTimeline` | `Spec => ImplementsTimeline` |
| `EncoderRCProofs` | `InvInductive` | `Spec /\ NoClash => []IInv` |
| (`RCConstants`) | `TypeCorrect` | `Spec /\ NoClash => []TypeOK` |
| | `VotesFollowState` | `Spec /\ NoClash => []PowerMatchesState` |
| | `VblankReferences` | `Spec /\ NoClash => []VblankRefExact` |
| | `ReinitQuiescent` | `Spec /\ NoClash => []OffWorkQuiescentAtReinit` |
| | `FrameKeepsPower` | `Spec /\ NoClash /\ NoRecoveryClash => []NoCollapseWhileBusy` |
| | `NobodyWaitsInACircle` | `Spec /\ NoClash /\ NoRecoveryClash => []NoCircularWait` |
| `MsmAtomicProofs` | `InvInductive` | `Spec => []IInv` |
| (`AtomicConstants`) | `TypeCorrect` | `Spec => []TypeOK` |
| | `FreedByTheLast` | `Spec => []NoUseAfterFree` |
| | `OwnStateProgrammed` | `Spec => []AsyncBeforeSwap` |
| | `ShowsSoftwareState` | `Spec => []SwHwInSync` |
| `DpDisplayProofs` | `InvInductive` | `Spec => []IInv` |
| (`DpConstants`) | `TypeCorrect` | `Spec => []TypeOK` |
| | `HostUnderStream` | `Spec => []ActiveNeedsHost` |
| | `UserspaceKnows` | `Spec => []ToldIsTrue` |
| | `NoUnderflow` | `Spec => []CountsCover` |
| | `RestAccepts` | `Spec => []AbortEnds` |
| `SdeRmProofs` | `InvInductive` | `Spec => []IInv` |
| (`RmConstants`) | `TypeCorrect` | `Spec => []TypeOK` |
| | `NoSharedBlocks` | `Spec => []DrivesItsOwn` |
| (also `PairsMatch`) | `LocksHold` | `Spec => []LockHolds` |
| (also `PairsMatch`) | `DisplaysComplete` | `PrimaryHasDspp` yields `Spec => []Complete` |
| | `StepImplements` | `TypeOK /\ [Next]_vars => [R!Next]_R!vars` |
| | `Refinement` | `Spec => ImplementsReservations` |
| `SdeRmSearchProofs` | `SearchFinds` | what a search found fits, has the size asked for and is in pairs but for one if that is odd |
| | `SearchAgain` | a search succeeds again on a list where what it found is still free |
| `DsiClkProofs` | `InvInductive` | `Spec => []IInv` |
| (`DsiClkConstants`) | `TypeCorrect` | `Spec => []TypeOK` |
| | `BelievedClocksRun` | `Spec => []BelievedIsOn` |
| | `EveryVoteComesBack` | `Spec => []VotesComeBack` |
| | `CommandsFindALiveLink` | `Spec => []LiveLink` |
| | `UlpsSurvivesCollapse` | `Spec => []UlpsSurvives` |
| | `CoreClocksFirst` | `Spec => []CoreBeforeLinkUnlessFault` |
| `SdeRscProofs` | `InvInductive` | `Spec => []IInv` |
| (`RscConstants`) | `TypeCorrect` | `Spec => []TypeOK` |
| | `NoVoteForgotten` | `Spec => []VotesHonoured` |
| | `AwakeUnderPower` | `Spec => []PowerMeansAwake` |

Every `IInv` was model-checked before it was proved. Each proof has lemmas on what an
operator of the model may do (`...Effect`, `...Outcome`), then one per action or one per
conjunct of `IInv`.

**SdeFence.** `IInv` is `TypeOK /\ ListsDisjoint /\ RefsExact /\ Close`:
- `ListsDisjoint` adds to `OneHome` where the threads are: a fence being put or moved
  back is on the local list of its thread, local lists are empty outside the
  trigger, and no two lists meet. Without it moving a fence back could duplicate it.
- `RefsExact` counts the references of a fence, ties them to its phase, and keeps a
  free slot clean.
- `Close` bounds the distances on the counter circle: of `done_count` behind
  `commit_count`, of every live seqno and of the seqno a creation holds between its
  two critical sections. `Diff` is a distance only while it stays below `Half`; the
  refinement needs `Diff(s, done_count + 1) = Diff(s, done_count) - 1`, which
  `DiffTriangle` gives from these bounds.

The refinement has one lemma per kind of step (`CompleteMaps`, `SignalMaps`,
`PutMaps`) and `StepMaps` to combine them. `ContextOutlives` is a second induction on
top of `IInv`, with the cardinality facts of the finite set library.

**EncoderRC.** `NoClash` is a premise on the configuration of a boot: where seamless
switches are used, the panel is in command mode and reservations succeed;
`NoRecoveryClash`: it has no ESD checks. These are the combinations of the findings;
without each premise TLC violates a property that needs it. 40 of the 64 combinations
of panel and faults satisfy `NoClash`, 36 of them both; the run `enc` covers three. In
`IInv`, `Held` makes what the encoder holds a function of `rc_state`, the panel and the
vblank request, from which the votes and references are read off; of the references
some may be missing after a failed KICKOFF, and all are without a `hw_pp` (`Sound`). That
nothing else loses one needs `Powered`: a display that is up and in OFF has seen a failed
KICKOFF, and so has one whose mode is set in a seamless switch outside MODESET. `Held` is
kept only together with where the display thread is: `RcPlaces` (MODESET is left before anyone
else runs, PRE_OFF only between PRE_STOP and STOP), `Upness` (master and crtc), `Requests`.
`Quiet` says what cannot run while the display is down; that the last frame's interrupt
has finished by then needs `Frames` (a handler that runs still counts its frame,
and a busy frame has somebody who will report it), and `Tokens` bounds the frame events
by the frames counted. Each `Rc...` event has a lemma on its effect, each action one on
`IInv` with a step per part that it can disturb. `MaxPending` is 3 in the proofs as in
the runs.

**MsmAtomic.** `IInv` says for each commit who still uses it. `CallersOK` and
`ExecutorsOK`: one caller and at most one queue slot or executor per commit, and at
which point of the caller the asynchronous part may exist at all. `RefsExact` derives
the reference count from these places: one for the caller, one for the asynchronous
part until it has put it; `NoUseAfterFree` follows, since whoever uses a commit is
among the counted. `FlightOK`: the objects of commits in flight are pending and
disjoint, and from the swap to the end of the commit they are owned by it; this is
what `AsyncBeforeSwap` states, and it is inductive only together with the disjointness
that `start_atomic` waits for. `Programmed` carries the equality of hardware and
software state over the clean-up steps to `SwHwInSync`.

**DpDisplay.** `Aborting`: from the abort on only a connect work can be queued and none
gets through. `Powered` ties `active` and `power_on` to the point of the commit thread,
`Told` lists the points at which `is_connected` and what user space was told may differ.
`Counted` bounds the DSC count, and without a PHY test the stream count, by the leaks so
far; since that bound is below `Values`, the count modulo `Values` is the true one there
(`Modulo`). `PhyTested` says that without a PHY test no part of one is anywhere, and
`NoPhyTest` never comes back once it is lost. `Counted` also corrected the
model: the type invariant had allowed for one lost stream fewer than a leak in each
suspend can add. `AbortHandled` names the thread that will clear an abort.

**SdeRm.** `IInv` is `TypeOK /\ DrivesItsOwn`. The work is in the search: `RoundFits`
says a round adds blocks that fit the request, `SearchFits` that the whole search
does (an induction on the rounds, done by taking the least round that would fail), and
`ProposalFree` that a proposal takes only blocks that are free or the display's own. No step of it looks
at the catalog, so these theorems hold for each. The proof corrected the initial states:
with two displays lit by the boot loader the model had given both their blocks
at once, without the order in which the code reserves them.

`Complete` and `LockHolds` depend on how many blocks a search finds.
`SearchFinds` counts them: a round adds a block, or a block and its peer, and never a
block that is already there, so after a successful search the number is the one asked
for, and no more than one block is without its peer. `ProposalFulfils` puts mixers,
compression blocks and what is wired to them together (CTLs are not part of it, see the
remark on `_sde_rm_make_next_rsvp` in section 3), `DisplaysComplete` follows it
through commit and `mode_set`. Its premise `PrimaryHasDspp` is needed:
`_sde_rm_check_lm_and_get_connected_blks` skips the check for a DSPP on mixers that are
marked for the primary display, so a catalog with a primary mixer that has none would
give a DSI panel a mixer without.

`LockHolds` says a locked display could reserve again. That is not inductive as it
stands, because the blocks that other displays hold change. `LockInv` says
more: for every holding of the other blocks in which those the display holds are free
or its own, its reservation succeeds (`Suffice`), and a display that it clones has no
commit under way. It follows from `SearchAgain`. The two searches look at the same
list, with possibly more or other blocks free, so the second need not find the same
blocks. It finds no fewer: pairs are taken before a last single block, so while the
search is short of blocks one of the pairs found before is still whole, or the number
is odd and one block is left. For searches pinned by the boot loader's picture both
look for the same ids. `StepLock` then shows for each action that it leaves the blocks of
a locked display alone or drops the lock. `LockInv` quantifies over all holdings and is
the one strengthening that TLC cannot evaluate; TLC checks what it implies, `LockHolds`.

**DsiClk.** `IInv` is `Base /\ PanelLock /\ Clean`. `Base` survives every failure: what
is left of a request is one of fifteen lists of switches (`Todos`) and belongs to a
thread that waits for it; what is still to be switched is not yet switched (`MngrOK`), which
makes a clock believed to be on run (`ClkOK`); `EncOK` ties the encoder's votes to
`rc_lock`; `PowOK` says that the counts of the power handle cover the votes granted (a
refused vote may leave one more) and that the handle is on while one of them is there, so
that no vote is returned with the handle off. `Clean` holds until the first failure and
is exact: `RefsExact` counts the votes of both clients from where each thread is
in its calls (`Eff`: votes change when a request starts, the label when it ends),
`MngrExact` says that the manager wants what the votes want or is about to switch it, and
that a thread past its request has the link; `ClkExact`, `IoExact` and `PowExact` read
clocks, lanes and power off that. `PanelLock` keeps a change of the clock rate, the
one step that takes the link from its users, out of commands. The lemmas go by operator
(`SwitchesKinds`, `VoteCounts`, `PowerOn`, `PowerOff`, `CallHolds`), then one per action;
those of the switches share `SwitchOk`, `SwitchFails` and `SwitchClean`.

**SdeRsc.** `Sane`: an encoder votes only under the vote of the power handle. `Places`,
`Counted`: which encoders hold the power handle, and that its count covers them.
`Pending`: only an encoder waits under `client_lock`, and the hardware is already in the
state that all votes ask for. `Awake`: clocks and collapse against the state.
`SwitchOutcome` says what a `sde_rsc_switch_to_*` may do (reach the wanted state, find it
taken, be refused because another vote outweighs it, fail), and `WantKept` that a
refusal or a taken state leaves what the votes want. The proof shows in addition that
the power handle's own request never waits for a vsync.

Only model-checked: everything liveness (`DueFenceSignals`, `EventuallyIdle`,
`CommitsEnd`, `CommitsReturn`, `UnplugTornDown`, `PlugNoticed`), since the prover
handles neither fairness nor `ENABLED`, and the runs that show a violation. Every
invariant of a passing run is stated by a theorem. None of the modules declares a
RECURSIVE operator.

## 5. Plan

Done: all modules, and the proofs of `SdeFence`, `EncoderRC`, `MsmAtomic`, `DsiClk`,
`SdeRm`, `SdeRsc` and `DpDisplay`. What would come next: suspend and resume of the KMS
layer, composed with `MsmAtomic`; blocks of shared displays in `SdeRm`.

## 6. Not modelled

Most of the lines of the repository keep no protocol state: planes, catalog, hardware blocks,
color processing, reg DMA and PLLs compute and write registers; much of
`dsi_panel.c` and `dsi_display.c` parses the device tree; `sde_dbg` dumps. A model of
them would repeat the code. The share of source lines that the modules translate is
small for this reason.

Protocols that are left out: HDCP talks to a TrustZone application whose behaviour
is not in the repository; MST and bonded ports multiply `DpDisplay` by ports; the
writeback encoder is a third physical encoder of the frame protocol of
`EncoderRC`; secure transitions depend on the secure monitor; the rotator is a V4L2
driver of its own; GEM, SMMU, lease and shared displays stand beside the path
modelled here.
