----------------------------- MODULE DpDisplay -----------------------------
(***************************************************************************)
(* DisplayPort hot plug: the GPIO hot plug detector (dp_gpio_hpd.c), the   *)
(* connection state machine (dp_display.c), the power state of the         *)
(* controller (dp_ctrl.c), and the bridge calls a commit makes             *)
(* (dp_drm.c), for one single-stream port behind a branch device.  Four    *)
(* threads meet here: the detector's work queue ("hpd"), the display's     *)
(* ("wq"), the thread that commits ("com") and power management.           *)
(* One step is one section under session_lock, or one section between two  *)
(* points where another thread's step matters; only reading the sink's     *)
(* capabilities and training the link hold the lock over several steps.    *)
(* A PHY test request of the sink is handled without the lock, and its     *)
(* u32 stream_count is taken modulo the number of its values.  Requests to *)
(* train the link again and link status updates change no modelled state.  *)
(* Left out: MST, bonded ports, HDCP, audio, debugfs simulation.           *)
(***************************************************************************)
EXTENDS Naturals, Sequences

CONSTANTS MaxPlugs,    \* how often the cable changes
          MaxSinks,    \* how often the branch loses or finds its display
          MaxAsks,     \* how often the sink asks for attention
          MaxPhyTests, \* how many of these may be PHY tests
          MaxFaults,   \* how many probes, trainings or streams fail
          MaxSuspends, \* how often the system sleeps
          MaxEvents,   \* how many of all these, a PHY test being two
          MaxLeaks,    \* streams and DSC blocks lost when a commit still starts
          Values       \* the values of the unsigned stream_count, 2^32 in C

ASSUME DpConstants ==
    /\ {MaxPlugs, MaxSinks, MaxAsks, MaxPhyTests, MaxFaults, MaxSuspends,
        MaxEvents, MaxLeaks, Values} \subseteq Nat
    /\ Values > MaxLeaks + MaxSuspends + 1

VARIABLES
    cable,  \* the hot plug line is high
    sink,   \* the branch device has a display
    test,   \* the test request the sink has latched
    hpd,    \* the detector: edge it waits for, pending interrupt work, hpd_high
    dp,     \* dp_display_private, and the part of dp_ctrl and dp_link it uses
    queue,  \* works pending on dp->wq, in order
    pc,     \* where each thread is
    again,  \* handle_disconnect was called for a video test
    seen,   \* the stream_count the PHY test read, without session_lock
    sleep,  \* "lit": switched off by the driver's suspend; "relit": and on again
    failed, \* a probe failed since the detector last saw the cable come
    left    \* what the environment may still do

vars == <<cable, sink, test, hpd, dp, queue, pc, again, seen, sleep, failed, left>>

Budget == [plug |-> MaxPlugs, sink |-> MaxSinks, ask |-> MaxAsks,
           phy |-> MaxPhyTests, fault |-> MaxFaults, suspend |-> MaxSuspends,
           any |-> MaxEvents]

Init ==
    /\ cable \in BOOLEAN /\ sink \in BOOLEAN /\ test = "none"
    /\ hpd = [edge |-> "none", work |-> TRUE, high |-> FALSE]
    /\ dp = [core_initialized |-> FALSE, power_on |-> FALSE,
             is_connected |-> FALSE, aborted |-> FALSE, suspended |-> FALSE,
             told |-> FALSE, comp |-> FALSE, active |-> 0, dsc |-> 0,
             known |-> FALSE, ctrl_on |-> FALSE, ctrl_aborted |-> FALSE,
             streams |-> 0, phy |-> FALSE]
    /\ queue = <<>>
    /\ pc = [hpd |-> "idle", wq |-> "idle", com |-> "off"]
    /\ again = FALSE /\ seen = 0 /\ sleep = "no" /\ failed = FALSE
    /\ left = Budget

\* session_lock is held across steps only while the sink is probed
Unlocked == pc.wq # "probe"
Go(t, to) == pc' = [pc EXCEPT ![t] = to]
Spend(what) ==
    /\ left[what] > 0 /\ left.any > 0
    /\ left' = [left EXCEPT ![what] = @ - 1, !.any = @ - 1]
\* the sink never asked for a PHY test
NoPhyTest == left.phy = MaxPhyTests
\* mutant: a pending work is queued once more
queue_work_twice(q, w) == Append(q, w)

queue_work(q, w) == IF \E i \in DOMAIN q : q[i] = w THEN q ELSE Append(q, w)

-----------------------------------------------------------------------------
(* The controller and the host: functions of the driver's state.           *)

dp_display_is_ready(d) == hpd.high /\ d.is_connected /\ d.known

dp_ctrl_off(d) == [d EXCEPT !.ctrl_on = FALSE]

Less1(count) == (count + Values - 1) % Values

\* a controller that is off keeps the count and the clocks of its stream
dp_ctrl_stream_off(d) ==
    IF d.ctrl_on THEN [d EXCEPT !.streams = Less1(@)] ELSE d

\* a stream that shows a PHY test pattern is not counted
dp_ctrl_stream_on(d) ==
    IF d.phy THEN d ELSE [d EXCEPT !.streams = (@ + 1) % Values]

\* in shallow mode a training that fails does not matter
dp_ctrl_on_shallow(d) ==
    IF d.ctrl_aborted THEN d ELSE [d EXCEPT !.ctrl_on = TRUE]

dp_display_host_init(d) ==
    IF d.core_initialized THEN d
    ELSE [d EXCEPT !.core_initialized = TRUE, !.ctrl_aborted = FALSE]

dp_display_host_deinit(d) ==
    IF d.active > 0 THEN d ELSE [d EXCEPT !.core_initialized = FALSE]

dp_display_stream_disable(d) ==
    IF d.active = 0 THEN d ELSE [dp_ctrl_stream_off(d) EXCEPT !.active = @ - 1]

\* the DSC blocks of the stream are not returned here
dp_display_clean(d) ==
    dp_ctrl_off([dp_display_stream_disable(d) EXCEPT !.power_on = FALSE])

\* what the user is told, and whether the caller waits for a commit to answer
Notified(d) == [d EXCEPT !.told = d.is_connected, !.comp = FALSE]
Waits(d) == ~d.suspended /\ d.power_on # d.is_connected

-----------------------------------------------------------------------------
(* The cable and the sink.                                                 *)

Interrupt(edge) == [hpd EXCEPT !.work = @ \/ hpd.edge = edge]

Plug ==
    /\ Spend("plug")
    /\ cable' = ~cable
    /\ hpd' = Interrupt(IF cable THEN "falling" ELSE "rising")
    /\ test' = "none"
    /\ UNCHANGED <<sink, dp, queue, pc, again, seen, sleep, failed>>

\* the display behind the branch goes or comes, with a short pulse
SinkChange ==
    /\ cable /\ Spend("sink")
    /\ sink' = ~sink
    /\ hpd' = Interrupt("falling")
    /\ UNCHANGED <<cable, test, dp, queue, pc, again, seen, sleep, failed>>

\* a short pulse, with or without a test request
SinkAsks ==
    /\ cable
    /\ \/ Spend("ask") /\ test' \in {test, "video"}
       \/ /\ left.ask > 0 /\ left.phy > 0 /\ test' = "phy"
          /\ left.any > 1
          /\ left' = [left EXCEPT !.ask = @ - 1, !.phy = @ - 1, !.any = @ - 2]
    /\ hpd' = Interrupt("falling")
    /\ UNCHANGED <<cable, sink, dp, queue, pc, again, seen, sleep, failed>>

-----------------------------------------------------------------------------
(* The detector's work.                                                    *)

dp_display_usbpd_attention_cb(q) ==
    IF dp.core_initialized THEN queue_work(q, "attention")
    ELSE IF ~dp.is_connected THEN queue_work(q, "connect")
    ELSE q

\* dp_gpio_set_edge follows the line until it agrees with the edge
dp_gpio_hpd_work ==
    /\ pc.hpd = "idle" /\ hpd.work
    /\ \/ /\ hpd.edge # "falling" /\ cable
          /\ hpd' = [edge |-> "falling", work |-> FALSE, high |-> TRUE]
          /\ failed' = FALSE
          /\ Go("hpd", "configure")
          /\ UNCHANGED queue
       \/ /\ hpd.edge # "falling" /\ ~cable
          /\ hpd' = [hpd EXCEPT !.edge = "rising", !.work = FALSE]
          /\ UNCHANGED <<queue, failed, pc>>
       \/ /\ hpd.edge = "falling" /\ cable
          /\ hpd' = [hpd EXCEPT !.work = FALSE]
          \* the line may also come back after the polling
          /\ queue' \in {queue, dp_display_usbpd_attention_cb(queue)}
          /\ UNCHANGED <<failed, pc>>
       \/ /\ hpd.edge = "falling" /\ ~cable
          /\ hpd' = [edge |-> "rising", work |-> FALSE, high |-> FALSE]
          /\ Go("hpd", "abort")
          /\ UNCHANGED <<queue, failed>>
    /\ UNCHANGED <<cable, sink, test, dp, again, seen, sleep, left>>

\* hpd_high was set by the caller, so the work is always queued
dp_display_usbpd_configure_cb ==
    /\ pc.hpd = "configure" /\ Unlocked
    /\ dp' = dp_display_host_init(dp)
    /\ queue' = queue_work(queue, "connect")
    /\ Go("hpd", "idle")
    /\ UNCHANGED <<cable, sink, test, hpd, again, seen, sleep, failed, left>>

\* first half of dp_display_disconnect_sync
disconnect_abort ==
    /\ pc.hpd = "abort"
    /\ dp' = [dp EXCEPT !.aborted = TRUE, !.ctrl_aborted = TRUE]
    /\ queue' = <<>>
    /\ Go("hpd", "flush")
    /\ UNCHANGED <<cable, sink, test, hpd, again, seen, sleep, failed, left>>

disconnect_flush ==
    /\ pc.hpd = "flush" /\ pc.wq = "idle"
    /\ Go("hpd", "low")
    /\ UNCHANGED <<cable, sink, test, hpd, dp, queue, again, seen, sleep, failed, left>>

\* mutant: the abort flag stays
disconnect_without_reset ==
    /\ pc.hpd = "reset"
    /\ Go("hpd", "idle")
    /\ UNCHANGED <<cable, sink, test, hpd, dp, queue, again, seen, sleep, failed, left>>

disconnect_reset ==
    /\ pc.hpd = "reset"
    /\ dp' = [dp EXCEPT !.aborted = FALSE]
    /\ Go("hpd", "idle")
    /\ UNCHANGED <<cable, sink, test, hpd, queue, again, seen, sleep, failed, left>>

-----------------------------------------------------------------------------
(* dp_display_handle_disconnect, on either work queue.                     *)

process_hpd_low(t) ==
    /\ pc[t] = "low" /\ Unlocked
    /\ dp' = [dp EXCEPT !.is_connected = FALSE]
    /\ Go(t, "tell")
    /\ UNCHANGED <<cable, sink, test, hpd, queue, again, seen, sleep, failed, left>>

\* mutant: nothing is told in suspend
notification_skipped(t) ==
    /\ pc[t] = "tell"
    /\ dp' = IF dp.suspended THEN dp ELSE Notified(dp)
    /\ Go(t, IF Waits(dp) THEN "wait" ELSE "off")
    /\ UNCHANGED <<cable, sink, test, hpd, queue, again, seen, sleep, failed, left>>

dp_display_send_hpd_notification(t) ==
    /\ pc[t] = "tell"
    /\ dp' = Notified(dp)
    /\ Go(t, IF Waits(dp) THEN "wait" ELSE "off")
    /\ UNCHANGED <<cable, sink, test, hpd, queue, again, seen, sleep, failed, left>>

\* mutant: the wait has no timeout
wait_forever(t) ==
    /\ pc[t] = "wait" /\ dp.comp
    /\ Go(t, "off")
    /\ UNCHANGED <<cable, sink, test, hpd, dp, queue, again, seen, sleep, failed, left>>

\* a commit completes the wait, or five seconds pass
notification_wait(t) ==
    /\ pc[t] = "wait"
    /\ Go(t, IF dp.comp THEN "off" ELSE "late")
    /\ UNCHANGED <<cable, sink, test, hpd, dp, queue, again, seen, sleep, failed, left>>

\* after a wait that timed out, pending requests of the link are aborted
process_hpd_low_off(t) ==
    /\ pc[t] \in {"off", "late"} /\ Unlocked
    /\ LET d == IF dp.active = 0 THEN dp_ctrl_off(dp) ELSE dp
       IN  dp' = [d EXCEPT !.ctrl_aborted = @ \/ pc[t] = "late"]
    /\ Go(t, "clean")
    /\ UNCHANGED <<cable, sink, test, hpd, queue, again, seen, sleep, failed, left>>

\* mutant: the streams are left to the commit that disables them
handle_disconnect_unclean(t) ==
    /\ pc[t] = "clean" /\ Unlocked
    /\ dp' = dp_display_host_deinit([dp EXCEPT !.is_connected = FALSE])
    /\ Go(t, IF t = "hpd" THEN "reset" ELSE "idle")
    /\ IF t = "wq" /\ again
       THEN queue' = queue_work(queue, "connect") /\ again' = FALSE
       ELSE UNCHANGED <<queue, again>>
    /\ UNCHANGED <<cable, sink, test, hpd, seen, sleep, failed, left>>

handle_disconnect(t) ==
    /\ pc[t] = "clean" /\ Unlocked
    /\ LET d == IF dp.power_on THEN dp_display_clean(dp) ELSE dp
       IN  dp' = dp_display_host_deinit([d EXCEPT !.is_connected = FALSE])
    /\ Go(t, IF t = "hpd" THEN "reset" ELSE "idle")
    /\ IF t = "wq" /\ again
       THEN queue' = queue_work(queue, "connect") /\ again' = FALSE
       ELSE UNCHANGED <<queue, again>>
    /\ UNCHANGED <<cable, sink, test, hpd, seen, sleep, failed, left>>

-----------------------------------------------------------------------------
(* dp->wq: one work at a time.                                             *)

dp_display_connect_work ==
    /\ pc.wq = "idle" /\ queue # <<>> /\ Head(queue) = "connect"
    /\ queue' = Tail(queue)
    /\ IF dp.aborted \/ ~hpd.high \/ dp.is_connected
       THEN UNCHANGED <<dp, pc>>
       ELSE /\ dp' = dp_display_host_init([dp EXCEPT !.is_connected = TRUE])
            /\ Go("wq", "probe")
    /\ UNCHANGED <<cable, sink, test, hpd, again, seen, sleep, failed, left>>

\* read_sink_caps, process_request and the controller's on: the sink must
\* answer, with a display behind it, and the link must train
\* of all requests process_request records one, or a port change
probe_succeeds ==
    /\ pc.wq = "probe"
    /\ cable /\ sink /\ ~dp.ctrl_aborted
    /\ \E phy \in {FALSE, test = "phy"} :
           dp' = [dp EXCEPT !.known = TRUE, !.ctrl_on = TRUE, !.phy = phy]
    /\ Go("wq", "connected")
    /\ UNCHANGED <<cable, sink, test, hpd, queue, again, seen, sleep, failed, left>>

\* the host stays initialised
ProbeFailed(known, phy) ==
    /\ dp' = [dp EXCEPT !.is_connected = FALSE, !.known = known, !.phy = phy]
    /\ Go("wq", "idle")
    /\ UNCHANGED <<cable, sink, test, hpd, queue, again, seen, sleep>>

probe_no_display ==
    /\ pc.wq = "probe"
    /\ cable /\ ~sink /\ ~dp.ctrl_aborted
    /\ ProbeFailed(FALSE, dp.phy)
    /\ UNCHANGED <<failed, left>>

probe_fails ==
    /\ pc.wq = "probe"
    /\ \/ (~cable \/ dp.ctrl_aborted) /\ UNCHANGED left
       \/ cable /\ ~dp.ctrl_aborted /\ Spend("fault")
    /\ \E known \in {dp.known, dp.known \/ sink}, phy \in {dp.phy, FALSE, test = "phy"} :
           ProbeFailed(known, phy)
    /\ failed' = TRUE

process_hpd_high_tell ==
    /\ pc.wq = "connected"
    /\ dp' = Notified(dp)
    /\ Go("wq", IF Waits(dp) THEN "answer" ELSE "idle")
    /\ UNCHANGED <<cable, sink, test, hpd, queue, again, seen, sleep, failed, left>>

process_hpd_high_wait ==
    /\ pc.wq = "answer"
    /\ Go("wq", "idle")
    /\ UNCHANGED <<cable, sink, test, hpd, dp, queue, again, seen, sleep, failed, left>>

\* what the sink wants is read now, one request of several; a change of its
\* port is reported by its count or by a status bit
dp_display_attention_work ==
    /\ pc.wq = "idle" /\ queue # <<>> /\ Head(queue) = "attention"
    /\ IF ~dp.core_initialized \/ ~cable \/ dp.ctrl_aborted
       THEN /\ queue' = Tail(queue)
            /\ dp' = [dp EXCEPT !.phy = @ /\ ~dp.core_initialized]
            /\ UNCHANGED <<test, pc, again>>
       ELSE \/ /\ ~sink
               /\ dp' = [dp EXCEPT !.known = FALSE, !.phy = FALSE]
               /\ Go("wq", "low")
               /\ queue' = Tail(queue)
               /\ UNCHANGED <<test, again>>
            \/ /\ sink
               /\ dp' = [dp EXCEPT !.known = TRUE, !.phy = FALSE]
               /\ queue' = queue_work(Tail(queue), "connect")
               /\ UNCHANGED <<test, pc, again>>
            \/ /\ sink = dp.known /\ test = "video"
               /\ dp' = [dp EXCEPT !.phy = FALSE]
               /\ test' = "none" /\ again' = TRUE
               /\ Go("wq", "low")
               /\ queue' = Tail(queue)
            \/ /\ sink = dp.known /\ test = "phy"
               /\ dp' = [dp EXCEPT !.phy = TRUE]
               /\ test' = "none"
               /\ Go("wq", "phy")
               /\ queue' = Tail(queue)
               /\ UNCHANGED again
            \/ /\ sink = dp.known /\ test # "video"
               /\ dp' = [dp EXCEPT !.phy = FALSE]
               /\ queue' = Tail(queue)
               /\ UNCHANGED <<test, pc, again>>
    /\ UNCHANGED <<cable, sink, hpd, seen, sleep, failed, left>>

(* dp_ctrl_process_phy_test_request: without session_lock, so each access  *)
(* to the controller's state is a step and a commit may come in between.   *)

\* no pattern may be selected; a controller that is off keeps its count
phy_test_begins ==
    /\ pc.wq = "phy"
    /\ \/ Go("wq", "idle") /\ UNCHANGED seen
       \/ ~dp.ctrl_on /\ Go("wq", "phy_off") /\ UNCHANGED seen
       \/ dp.ctrl_on /\ seen' = dp.streams /\ Go("wq", "phy_count")
    /\ UNCHANGED <<cable, sink, test, hpd, dp, queue, again, sleep, failed, left>>

\* stream_off's decrement: when a commit has counted since the read, either
\* update may be lost
phy_test_stream_off ==
    /\ pc.wq = "phy_count"
    /\ \E count \in IF seen = dp.streams THEN {seen}
                    ELSE {seen, dp.streams, (dp.streams + 1) % Values} :
           dp' = [dp EXCEPT !.streams = Less1(count)]
    /\ seen' = 0
    /\ Go("wq", "phy_off")
    /\ UNCHANGED <<cable, sink, test, hpd, queue, again, sleep, failed, left>>

phy_test_off ==
    /\ pc.wq = "phy_off"
    /\ dp' = dp_ctrl_off(dp)
    /\ Go("wq", "phy_on")
    /\ UNCHANGED <<cable, sink, test, hpd, queue, again, seen, sleep, failed, left>>

\* the results of the controller's on and of stream_on are ignored
phy_test_on ==
    /\ pc.wq = "phy_on"
    /\ \/ /\ dp' = IF dp.ctrl_aborted THEN dp ELSE [dp EXCEPT !.ctrl_on = TRUE]
          /\ UNCHANGED left
       \/ ~dp.ctrl_on /\ ~dp.ctrl_aborted /\ Spend("fault") /\ UNCHANGED dp
    /\ Go("wq", "idle")
    /\ UNCHANGED <<cable, sink, test, hpd, queue, again, seen, sleep, failed>>

-----------------------------------------------------------------------------
(* The bridge calls of a commit.  Userspace lights a port it was told of;  *)
(* while it is frozen only the suspend and resume of the driver commit.    *)

dp_display_prepare ==
    /\ pc.com = "off" /\ Unlocked
    /\ IF dp.suspended THEN sleep = "lit"
       ELSE /\ dp.told /\ dp.dsc <= MaxLeaks
            /\ NoPhyTest => dp.streams <= MaxLeaks
    /\ dp' = IF dp.aborted \/ dp.power_on \/ ~dp_display_is_ready(dp) THEN dp
             ELSE dp_ctrl_on_shallow(dp_display_host_init(dp))
    /\ sleep' = IF dp.suspended THEN "relit" ELSE sleep
    /\ Go("com", "prepared")
    /\ UNCHANGED <<cable, sink, test, hpd, queue, again, seen, failed, left>>

\* mutant: the host is not looked at
enable_unchecked ==
    /\ pc.com = "prepared" /\ Unlocked
    /\ dp' = [dp_ctrl_stream_on(dp) EXCEPT !.active = @ + 1, !.dsc = @ + 1,
                                           !.power_on = TRUE]
    /\ Go("com", "enabled")
    /\ UNCHANGED <<cable, sink, test, hpd, queue, again, seen, sleep, failed, left>>

dp_display_enable ==
    /\ pc.com = "prepared" /\ Unlocked
    /\ dp' = IF ~dp.core_initialized THEN dp
             ELSE [dp_ctrl_stream_on(dp) EXCEPT !.active = @ + 1, !.dsc = @ + 1,
                                                !.power_on = TRUE]
    /\ Go("com", "enabled")
    /\ UNCHANGED <<cable, sink, test, hpd, queue, again, seen, sleep, failed, left>>

\* the stream clocks do not start: the bridge unprepares
dp_display_enable_fails ==
    /\ pc.com = "prepared" /\ Unlocked
    /\ dp.core_initialized /\ Spend("fault")
    /\ Go("com", "undo")
    /\ UNCHANGED <<cable, sink, test, hpd, dp, queue, again, seen, sleep, failed>>

dp_display_post_enable ==
    /\ pc.com = "enabled" /\ Unlocked
    /\ dp' = [dp EXCEPT !.comp = TRUE]
    /\ Go("com", "on")
    /\ UNCHANGED <<cable, sink, test, hpd, queue, again, seen, sleep, failed, left>>

\* mutant: the DSC blocks are returned even when the link is already off
disable_returns_twice ==
    /\ pc.com = "on" /\ Unlocked
    /\ sleep = "no"
    /\ sleep' = IF dp.suspended THEN "lit" ELSE "no"
    /\ LET d == IF dp.power_on /\ dp.core_initialized
                THEN dp_display_stream_disable(dp) ELSE dp
       IN  dp' = [d EXCEPT !.dsc = @ - 1]
    /\ Go("com", "disabled")
    /\ UNCHANGED <<cable, sink, test, hpd, queue, again, seen, failed, left>>

dp_display_disable ==
    /\ pc.com = "on" /\ Unlocked
    /\ sleep = "no"
    /\ sleep' = IF dp.suspended THEN "lit" ELSE "no"
    /\ dp' = IF dp.power_on /\ dp.core_initialized
             THEN [dp_display_stream_disable(dp) EXCEPT !.dsc = @ - 1] ELSE dp
    /\ Go("com", "disabled")
    /\ UNCHANGED <<cable, sink, test, hpd, queue, again, seen, failed, left>>

dp_display_unprepare ==
    /\ pc.com \in {"disabled", "undo"} /\ Unlocked
    /\ LET d == IF dp_display_is_ready(dp)
                THEN dp_display_host_deinit(dp_ctrl_off(dp)) ELSE dp
       IN  dp' = IF dp.active > 0 THEN dp
                 ELSE [d EXCEPT !.power_on = FALSE, !.comp = TRUE]
    /\ Go("com", IF pc.com = "undo" THEN "enabled" ELSE "off")
    /\ UNCHANGED <<cable, sink, test, hpd, queue, again, seen, sleep, failed, left>>

-----------------------------------------------------------------------------
(* System sleep.                                                           *)

dp_pm_prepare ==
    /\ ~dp.suspended /\ Spend("suspend")
    /\ dp' = [dp EXCEPT !.suspended = TRUE,
                        !.ctrl_aborted = @ \/ (dp.is_connected /\ ~dp.power_on)]
    /\ UNCHANGED <<cable, sink, test, hpd, queue, pc, again, seen, sleep, failed>>

\* the driver has resumed, so what was lit is lit again
dp_pm_complete ==
    /\ dp.suspended /\ sleep # "lit" /\ sleep' = "no"
    /\ dp' = [dp EXCEPT !.suspended = FALSE,
                        !.ctrl_aborted = @ /\ ~(dp.is_connected /\ ~dp.power_on)]
    /\ UNCHANGED <<cable, sink, test, hpd, queue, pc, again, seen, failed, left>>

-----------------------------------------------------------------------------
\* no event is pending or handled, no commit is half way
Idle == pc.hpd = "idle" /\ ~hpd.work /\ pc.wq = "idle" /\ queue = <<>>
Rest == Idle /\ pc.com \in {"off", "on"} /\ ~dp.suspended
Quiet == Rest /\ UNCHANGED vars

Detector ==
    \/ dp_gpio_hpd_work \/ dp_display_usbpd_configure_cb
    \/ disconnect_abort \/ disconnect_flush \/ disconnect_reset
Disconnecting == {"low", "tell", "wait", "off", "late", "clean"}
HandleDisconnect(t) ==
    \/ process_hpd_low(t) \/ dp_display_send_hpd_notification(t)
    \/ notification_wait(t) \/ process_hpd_low_off(t) \/ handle_disconnect(t)
Works ==
    \/ dp_display_connect_work \/ dp_display_attention_work
    \/ probe_succeeds \/ probe_no_display \/ probe_fails
    \/ process_hpd_high_tell \/ process_hpd_high_wait
    \/ phy_test_begins \/ phy_test_stream_off \/ phy_test_off \/ phy_test_on
Finish == dp_display_enable \/ dp_display_post_enable \/ dp_display_unprepare
Next ==
    \/ Plug \/ SinkChange \/ SinkAsks
    \/ Detector \/ Works \/ \E t \in {"hpd", "wq"} : HandleDisconnect(t)
    \/ Finish \/ dp_display_prepare \/ dp_display_enable_fails \/ dp_display_disable
    \/ dp_pm_prepare \/ dp_pm_complete \/ Quiet

\* the work queues run (a wait for userspace times out), and a commit that has begun goes on
Fairness ==
    /\ WF_vars(Detector \/ HandleDisconnect("hpd"))
    /\ WF_vars(Works \/ HandleDisconnect("wq"))
    /\ WF_vars(Finish)
Spec == Init /\ [][Next]_vars /\ Fairness

-----------------------------------------------------------------------------
\* Every field has its type, one stream is active at most, each work is
\* queued once, and two threads never disconnect at the same time.
TypeOK ==
    /\ {cable, sink, again, failed} \subseteq BOOLEAN
    /\ test \in {"none", "video", "phy"} /\ seen \in 0..(Values - 1)
    /\ hpd \in [edge : {"none", "rising", "falling"}, work : BOOLEAN, high : BOOLEAN]
    /\ dp \in [core_initialized : BOOLEAN, power_on : BOOLEAN,
              is_connected : BOOLEAN, aborted : BOOLEAN, suspended : BOOLEAN,
              told : BOOLEAN, comp : BOOLEAN, active : 0..1,
              dsc : 0..(MaxLeaks + MaxSuspends + 1), known : BOOLEAN, ctrl_on : BOOLEAN,
              ctrl_aborted : BOOLEAN, streams : 0..(Values - 1), phy : BOOLEAN]
    /\ queue \in {<<>>, <<"connect">>, <<"attention">>,
                 <<"connect", "attention">>, <<"attention", "connect">>}
    /\ sleep \in {"no", "lit", "relit"} /\ (sleep # "no" => dp.suspended)
    /\ pc.hpd \in Disconnecting => pc.wq = "idle"

\* A stream is active, or the display counts as powered, only on a host that
\* is initialised: dp_display_enable looks at core_initialized alone, however
\* much of an unplug came between prepare and enable, and a host with a
\* stream is not deinitialised.
ActiveNeedsHost == dp.active > 0 \/ dp.power_on => dp.core_initialized

\* When no hot plug event is pending or handled, userspace was last told the
\* truth: a disconnect that raced a connect, an aborted probe or a swallowed
\* pulse never leaves is_sst_connected behind is_connected.
ToldIsTrue == Idle => dp.told = dp.is_connected

\* The DSC blocks in use cover the active streams, so giving them back never
\* takes their count below zero, whichever of dp_display_clean and
\* dp_display_disable comes first.  The controller's unsigned stream_count does
\* too as long as the sink asked for no PHY test: dp_ctrl_stream_on does not
\* count a stream with a test pattern, and process_phy_test_request takes a
\* counted one away, so after a test the next stream_off may wrap the count.
CountsCover ==
    /\ dp.active <= dp.dsc
    /\ NoPhyTest => dp.active <= dp.streams

\* Unless the system slept, an abort never outlives the disconnect that
\* raised it (dp_display_disconnect_sync, or the wait that timed out in
\* dp_display_handle_disconnect): a host at rest accepts connections.
AbortEnds ==
    Rest /\ dp.core_initialized /\ left.suspend = MaxSuspends => ~dp.ctrl_aborted

\* A cable that stays out is noticed and everything is shut down, even a
\* display lit in shallow mode after the cable had gone, and even when
\* userspace never answers.
UnplugTornDown ==
    <>[]~cable => <>[](~dp.is_connected /\ ~dp.power_on /\ dp.active = 0
                       /\ ~dp.core_initialized)

\* A cable that stays in, with a display that stays behind it, is connected
\* in the end unless a probe failed since the detector saw it come: no connect
\* is lost to the abort flag, to a cancelled work or to a work already queued.
PlugNoticed == []sink /\ <>[]cable => <>[](dp.is_connected \/ failed)
=============================================================================
