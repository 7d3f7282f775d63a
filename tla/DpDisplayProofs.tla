-------------------------- MODULE DpDisplayProofs --------------------------
(***************************************************************************)
(* Proofs about DpDisplay, for any number of plugs, sink changes, requests *)
(* of the sink, PHY tests, faults, suspends and leaks.                     *)
(***************************************************************************)
EXTENDS DpDisplay, SequenceTheorems, TLAPS

-----------------------------------------------------------------------------
(* The inductive invariant.                                                *)

PhyTest == {"phy", "phy_count", "phy_off", "phy_on"}
Pcs == [hpd : {"idle", "configure", "abort", "flush", "reset"} \cup Disconnecting,
        wq : {"idle", "probe", "connected", "answer"} \cup PhyTest \cup Disconnecting,
        com : {"off", "prepared", "enabled", "on", "disabled", "undo"}]
Lefts == [plug : Nat, sink : Nat, ask : Nat, phy : 0 .. MaxPhyTests, fault : Nat,
          suspend : 0 .. MaxSuspends, any : Nat]

Places ==
    /\ pc \in Pcs /\ left \in Lefts
    /\ dp.suspended => left.suspend < MaxSuspends

\* from the abort on, no work gets past the display's queue
Aborting ==
    pc.hpd \in {"flush", "reset"} \cup Disconnecting =>
      dp.aborted /\ queue \in {<<>>, <<"connect">>}

\* the display is powered from dp_display_enable to dp_display_unprepare or to
\* dp_display_clean, and its stream is active until dp_display_disable
Powered ==
    /\ dp.active = 1 <=> dp.power_on /\ pc.com \in {"enabled", "on"}
    /\ dp.power_on => dp.core_initialized /\ pc.com \in {"enabled", "on", "disabled"}

\* is_connected and what was told differ only while a thread is about to tell
Told ==
    /\ pc.wq \in {"probe", "connected"} => dp.is_connected /\ ~dp.told
    /\ \A t \in {"hpd", "wq"} :
         /\ pc[t] = "tell" => ~dp.is_connected
         /\ pc[t] \in {"wait", "off", "late", "clean"} => ~dp.is_connected /\ ~dp.told
    /\ pc.wq \notin {"probe", "connected", "tell"} /\ pc.hpd # "tell" =>
         dp.told = dp.is_connected

\* the suspends that may have lost a stream: a suspend does so when the driver
\* lights the display again
Relit == (MaxSuspends - left.suspend) - (IF dp.suspended /\ sleep # "relit" THEN 1 ELSE 0)
Room == MaxLeaks + Relit + (IF pc.com \in {"prepared", "undo"} THEN 0 ELSE 1)
Counted == dp.dsc <= Room /\ (NoPhyTest => dp.streams <= Room)

\* without a PHY test no part of one is anywhere
PhyTested == NoPhyTest => test # "phy" /\ ~dp.phy /\ pc.wq \notin PhyTest

\* an aborted controller is on its way to the end of a disconnect
AbortHandled ==
    dp.core_initialized /\ dp.ctrl_aborted /\ left.suspend = MaxSuspends =>
      pc.hpd \in {"flush"} \cup Disconnecting \/ pc.wq = "clean"

IInv ==
    /\ TypeOK /\ Places /\ Aborting /\ Powered /\ Told /\ Counted /\ CountsCover
    /\ PhyTested /\ AbortHandled

-----------------------------------------------------------------------------
(* The queue and the driver's state.                                       *)

Queues == {<<>>, <<"connect">>, <<"attention">>,
           <<"connect", "attention">>, <<"attention", "connect">>}

\* Short sequences: what Append, Head and Tail make of them.
LEMMA Short ==
    ASSUME NEW a, NEW b
    PROVE  /\ Append(<<>>, a) = <<a>> /\ Append(<<a>>, b) = <<a, b>>
           /\ Tail(<<a>>) = <<>> /\ Head(<<a>>) = a
           /\ Tail(<<a, b>>) = <<b>> /\ Head(<<a, b>>) = a
<1>1. Append(<<a>>, b) = <<a, b>>
  <2>1. <<a>> \in Seq({a, b}) /\ <<a, b>> \in Seq({a, b}) /\ Len(<<a, b>>) = 2
    OBVIOUS
  <2>2. /\ Append(<<a>>, b) \in Seq({a, b}) /\ Len(Append(<<a>>, b)) = 2
        /\ Append(<<a>>, b)[1] = a /\ Append(<<a>>, b)[2] = b
    BY <2>1, AppendProperties
  <2>3. \A i \in 1 .. Len(<<a, b>>) : i = 1 \/ i = 2
    BY <2>1
  <2>4. <<a, b>>[1] = a /\ <<a, b>>[2] = b
    OBVIOUS
  <2>5. \A i \in 1 .. Len(<<a, b>>) : Append(<<a>>, b)[i] = <<a, b>>[i]
    BY <2>2, <2>3, <2>4
  <2> QED
    BY <2>1, <2>2, <2>5, SeqEqual
<1>2. Append(<<>>, a) = <<a>>
  OBVIOUS
<1>3. Tail(<<a>>) = <<>> /\ Head(<<a>>) = a
  OBVIOUS
<1>4. Tail(<<a, b>>) = <<b>>
  OBVIOUS
<1>5. Head(<<a, b>>) = a
  OBVIOUS
<1> QED
  BY <1>1, <1>2, <1>3, <1>4, <1>5

\* A work is queued once: a work that is pending is not queued again.
LEMMA QueueWork ==
    /\ \A q \in Queues, w \in {"connect", "attention"} : queue_work(q, w) \in Queues
    /\ \A q \in {<<>>, <<"connect">>} : queue_work(q, "connect") \in {<<>>, <<"connect">>}
<1>1. \A a, w : queue_work(<<a>>, w) = IF a = w THEN <<a>> ELSE <<a, w>>
  <2>1. \A a, w : queue_work(<<a>>, w) = IF a = w THEN <<a>> ELSE Append(<<a>>, w)
    BY DEF queue_work
  <2>2. \A a, w : Append(<<a>>, w) = <<a, w>>
    BY Short, Zenon
  <2> QED
    BY <2>1, <2>2, Zenon
<1>2. \A w : queue_work(<<>>, w) = <<w>>
  BY DEF queue_work
<1>3. \A a, b, w : w \in {a, b} => queue_work(<<a, b>>, w) = <<a, b>>
  BY DEF queue_work
<1>4. ASSUME NEW q \in Queues, NEW w \in {"connect", "attention"}
      PROVE queue_work(q, w) \in Queues
  <2>1. CASE q = <<>>
    BY <1>2, <2>1, Zenon DEF Queues
  <2>2. CASE q = <<"connect">>
    BY <1>1, <2>2 DEF Queues
  <2>3. CASE q = <<"attention">>
    BY <1>1, <2>3 DEF Queues
  <2>4. CASE q = <<"connect", "attention">>
    BY <1>3, <2>4, Zenon DEF Queues
  <2>5. CASE q = <<"attention", "connect">>
    BY <1>3, <2>5, Zenon DEF Queues
  <2> QED
    BY <2>1, <2>2, <2>3, <2>4, <2>5, Zenon DEF Queues
<1>5. queue_work(<<>>, "connect") = <<"connect">> /\ queue_work(<<"connect">>, "connect") = <<"connect">>
  BY <1>1, <1>2
<1> QED
  BY <1>4, <1>5

\* The next work is one of the two, and the others stay queued.
LEMMA NextWork ==
    ASSUME NEW q \in Queues, q # <<>>
    PROVE  Tail(q) \in Queues /\ Head(q) \in {"connect", "attention"}
<1>1. CASE q = <<"connect">>
  BY <1>1, Short DEF Queues
<1>2. CASE q = <<"attention">>
  BY <1>2, Short DEF Queues
<1>3. CASE q = <<"connect", "attention">>
  BY <1>3, Short, Zenon DEF Queues
<1>4. CASE q = <<"attention", "connect">>
  BY <1>4, Short, Zenon DEF Queues
<1> QED
  BY <1>1, <1>2, <1>3, <1>4, Zenon DEF Queues

Count == 0 .. (MaxLeaks + MaxSuspends + 1)
Unsigned == 0 .. (Values - 1)
DpType == [core_initialized : BOOLEAN, power_on : BOOLEAN,
           is_connected : BOOLEAN, aborted : BOOLEAN, suspended : BOOLEAN,
           told : BOOLEAN, comp : BOOLEAN, active : 0 .. 1,
           dsc : Count, known : BOOLEAN, ctrl_on : BOOLEAN,
           ctrl_aborted : BOOLEAN, streams : Unsigned, phy : BOOLEAN]

\* Assigning a value of its type to a field of the driver's state keeps the type.
LEMMA Assign ==
    ASSUME NEW d \in DpType
    PROVE  /\ \A b \in BOOLEAN :
                /\ [d EXCEPT !.core_initialized = b] \in DpType
                /\ [d EXCEPT !.power_on = b] \in DpType
                /\ [d EXCEPT !.is_connected = b] \in DpType
                /\ [d EXCEPT !.aborted = b] \in DpType
                /\ [d EXCEPT !.suspended = b] \in DpType
                /\ [d EXCEPT !.told = b] \in DpType
                /\ [d EXCEPT !.comp = b] \in DpType
                /\ [d EXCEPT !.known = b] \in DpType
                /\ [d EXCEPT !.ctrl_on = b] \in DpType
                /\ [d EXCEPT !.ctrl_aborted = b] \in DpType
                /\ [d EXCEPT !.phy = b] \in DpType
           /\ \A n \in 0 .. 1 : [d EXCEPT !.active = n] \in DpType
           /\ \A n \in Count : [d EXCEPT !.dsc = n] \in DpType
           /\ \A n \in Unsigned : [d EXCEPT !.streams = n] \in DpType
BY Zenon DEF DpType

\* The functions of the driver's state keep its type.
LEMMA HostType ==
    ASSUME NEW d \in DpType
    PROVE  /\ dp_display_host_init(d) \in DpType
           /\ dp_display_host_deinit(d) \in DpType
           /\ dp_ctrl_off(d) \in DpType
           /\ dp_ctrl_on_shallow(d) \in DpType
           /\ Notified(d) \in DpType
<1>1. dp_display_host_init(d) \in DpType
  BY DEF dp_display_host_init, DpType
<1>2. dp_display_host_deinit(d) \in DpType
  BY DEF dp_display_host_deinit, DpType
<1>3. dp_ctrl_off(d) \in DpType
  BY DEF dp_ctrl_off, DpType
<1>4. dp_ctrl_on_shallow(d) \in DpType
  BY DEF dp_ctrl_on_shallow, DpType
<1>5. Notified(d) \in DpType
  BY DEF Notified, DpType
<1> QED
  BY <1>1, <1>2, <1>3, <1>4, <1>5


\* Counting up and down modulo the number of values, where nothing wraps.
LEMMA Modulo ==
    ASSUME NEW n \in Unsigned
    PROVE  /\ Less1(n) \in Unsigned /\ (n + 1) % Values \in Unsigned
           /\ n > 0 => Less1(n) = n - 1
           /\ n + 1 < Values => (n + 1) % Values = n + 1
<1>0. Values \in Nat /\ Values > 1
  BY DpConstants
<1>1. Less1(n) \in Unsigned
  BY <1>0 DEF Less1, Unsigned
<1>2. (n + 1) % Values \in Unsigned
  BY <1>0 DEF Unsigned
<1>3. n > 0 => Less1(n) = n - 1
  BY <1>0 DEF Less1, Unsigned
<1>4. n + 1 < Values => (n + 1) % Values = n + 1
  BY <1>0 DEF Unsigned
<1> QED
  BY <1>1, <1>2, <1>3, <1>4

\* Disabling the stream takes its count from the controller, unless it is off.
LEMMA StreamDisable ==
    ASSUME NEW d \in DpType
    PROVE  \E e \in DpType :
           /\ dp_display_stream_disable(d) = e
           /\ e.active = 0 /\ e.dsc = d.dsc
           /\ d.active <= d.streams => e.streams <= d.streams
           /\ e.core_initialized = d.core_initialized /\ e.power_on = d.power_on
           /\ e.is_connected = d.is_connected /\ e.told = d.told /\ e.aborted = d.aborted
           /\ e.suspended = d.suspended /\ e.ctrl_aborted = d.ctrl_aborted /\ e.comp = d.comp
           /\ e.known = d.known /\ e.phy = d.phy
<1>0. d.active \in {0, 1} /\ d.streams \in Unsigned /\ d.streams \in Nat /\ d.streams <= d.streams
  BY DpConstants DEF DpType, Unsigned
<1>1. CASE d.active = 0
  <2>1. dp_display_stream_disable(d) = d
    BY <1>1 DEF dp_display_stream_disable
  <2> QED
    BY <1>0, <1>1, <2>1
<1>2. CASE d.active = 1 /\ ~d.ctrl_on
  <2>1. dp_display_stream_disable(d) = [d EXCEPT !.active = 0]
    BY <1>2 DEF dp_display_stream_disable, dp_ctrl_stream_off
  <2>2. [d EXCEPT !.active = 0] \in DpType
    <3>1. 0 \in 0 .. 1
      OBVIOUS
    <3> QED
      BY <3>1, Assign, Zenon
  <2> QED
    BY <1>0, <2>1, <2>2 DEF DpType
<1>3. CASE d.active = 1 /\ d.ctrl_on
  <2>1. PICK n \in Unsigned : n = Less1(d.streams)
    BY <1>0, Modulo, Zenon
  <2>2. dp_display_stream_disable(d) = [[d EXCEPT !.streams = n] EXCEPT !.active = 0]
    <3>1. dp_ctrl_stream_off(d) = [d EXCEPT !.streams = n]
      BY <1>3, <2>1, Zenon DEF dp_ctrl_stream_off
    <3>2. [d EXCEPT !.streams = n].active = 1 /\ 1 - 1 = 0 /\ d.active # 0
      BY <1>3 DEF DpType
    <3>3. [[d EXCEPT !.streams = n] EXCEPT !.active = @ - 1]
            = [[d EXCEPT !.streams = n] EXCEPT !.active = 0]
      BY <3>2
    <3> QED
      BY <3>1, <3>2, <3>3 DEF dp_display_stream_disable
  <2>3. [[d EXCEPT !.streams = n] EXCEPT !.active = 0] \in DpType
    <3>1. 0 \in 0 .. 1
      OBVIOUS
    <3> QED
      BY <3>1, Assign, Zenon
  <2>4. d.active <= d.streams => n <= d.streams
    <3>1. ASSUME d.active <= d.streams PROVE n = d.streams - 1
      <4>1. d.streams > 0
        BY <1>0, <1>3, <3>1
      <4> QED
        BY <1>0, <2>1, <4>1, Modulo
    <3> QED
      BY <1>0, <3>1
  <2> DEFINE f == [[d EXCEPT !.streams = n] EXCEPT !.active = 0]
  <2>5. /\ f.active = 0 /\ f.streams = n /\ f.dsc = d.dsc
        /\ f.core_initialized = d.core_initialized /\ f.power_on = d.power_on
        /\ f.is_connected = d.is_connected /\ f.told = d.told /\ f.aborted = d.aborted
        /\ f.suspended = d.suspended /\ f.ctrl_aborted = d.ctrl_aborted /\ f.comp = d.comp
        /\ f.known = d.known /\ f.phy = d.phy
    BY DEF DpType
  <2> QED
    BY <2>2, <2>3, <2>4, <2>5, Zenon
<1> QED
  BY <1>0, <1>1, <1>2, <1>3

\* The end of a disconnect: no stream, no power, and the host deinitialised.
LEMMA DisconnectEnds ==
    ASSUME NEW d \in DpType, d.active = 1 => d.power_on
    PROVE  \E e \in DpType :
           /\ dp_display_host_deinit([(IF d.power_on THEN dp_display_clean(d) ELSE d)
                                       EXCEPT !.is_connected = FALSE]) = e
           /\ e.active = 0 /\ ~e.power_on /\ ~e.core_initialized /\ ~e.is_connected
           /\ d.active <= d.streams => e.streams <= d.streams
           /\ e.dsc = d.dsc /\ e.phy = d.phy
           /\ e.told = d.told /\ e.aborted = d.aborted /\ e.suspended = d.suspended
           /\ e.ctrl_aborted = d.ctrl_aborted
<1>0. d.active \in {0, 1} /\ d.streams <= d.streams
  BY DpConstants DEF DpType, Unsigned
<1>1. CASE d.power_on
  <2>1. PICK e \in DpType :
           /\ dp_display_stream_disable(d) = e
           /\ e.active = 0 /\ e.dsc = d.dsc /\ e.phy = d.phy
           /\ d.active <= d.streams => e.streams <= d.streams
           /\ e.told = d.told /\ e.aborted = d.aborted
           /\ e.suspended = d.suspended /\ e.ctrl_aborted = d.ctrl_aborted
    BY StreamDisable
  <2> DEFINE f == [e EXCEPT !.power_on = FALSE, !.ctrl_on = FALSE, !.is_connected = FALSE,
                            !.core_initialized = FALSE]
  <2>2. dp_display_host_deinit([dp_display_clean(d) EXCEPT !.is_connected = FALSE]) = f
    BY <2>1 DEF dp_display_host_deinit, dp_display_clean, dp_ctrl_off, DpType
  <2>3. f \in DpType
    BY Assign, Zenon
  <2>4. /\ f.active = 0 /\ ~f.power_on /\ ~f.core_initialized /\ ~f.is_connected
        /\ f.streams = e.streams /\ f.dsc = e.dsc /\ f.phy = e.phy
        /\ f.told = e.told /\ f.aborted = e.aborted /\ f.suspended = e.suspended
        /\ f.ctrl_aborted = e.ctrl_aborted
    BY <2>1 DEF DpType
  <2> QED
    BY <1>1, <2>1, <2>2, <2>3, <2>4, Zenon
<1>2. CASE ~d.power_on
  <2> DEFINE f == [d EXCEPT !.is_connected = FALSE, !.core_initialized = FALSE]
  <2>1. d.active = 0
    BY <1>0, <1>2
  <2>2. dp_display_host_deinit([d EXCEPT !.is_connected = FALSE]) = f
    BY <2>1 DEF dp_display_host_deinit, DpType
  <2>3. f \in DpType
    BY Assign, Zenon
  <2>4. /\ f.active = 0 /\ ~f.power_on /\ ~f.core_initialized /\ ~f.is_connected
        /\ f.streams = d.streams /\ f.dsc = d.dsc /\ f.phy = d.phy
        /\ f.told = d.told /\ f.aborted = d.aborted /\ f.suspended = d.suspended
        /\ f.ctrl_aborted = d.ctrl_aborted
    BY <1>2, <2>1 DEF DpType
  <2> QED
    BY <1>0, <1>2, <2>2, <2>3, <2>4
<1> QED
  BY <1>1, <1>2
-----------------------------------------------------------------------------
(* The steps that change several fields.                                   *)

\* what most of these steps leave alone
SameFlags ==
    /\ dp'.is_connected = dp.is_connected /\ dp'.aborted = dp.aborted
    /\ dp'.suspended = dp.suspended /\ dp'.told = dp.told /\ dp'.phy = dp.phy

\* The state of the driver, and the bounds its counts are within.
LEMMA Driver ==
    ASSUME IInv
    PROVE  /\ dp \in DpType /\ dp.active \in {0, 1}
           /\ dp.streams \in Nat /\ dp.dsc \in Nat /\ MaxLeaks \in Nat /\ MaxSuspends \in Nat
           /\ (NoPhyTest => dp.active <= dp.streams) /\ dp.active <= dp.dsc
           /\ dp.active = 1 => dp.power_on /\ dp.core_initialized
           /\ pc \in Pcs
           /\ left.suspend \in 0 .. MaxSuspends
<1>1. dp \in DpType
  BY DEF IInv, TypeOK, DpType, Count, Unsigned
<1>2. MaxLeaks \in Nat /\ MaxSuspends \in Nat /\ Values \in Nat
  BY DpConstants
<1>3. dp.active \in {0, 1} /\ dp.streams \in Nat /\ dp.dsc \in Nat
  BY <1>1, <1>2 DEF DpType, Count, Unsigned
<1>4. left.suspend \in 0 .. MaxSuspends /\ pc \in Pcs
  BY DEF IInv, Places, Lefts
<1> QED
  BY <1>1, <1>2, <1>3, <1>4 DEF IInv, CountsCover, Powered

\* The counts are natural numbers.
LEMMA Naturals == \A d \in DpType : d.streams \in Nat /\ d.dsc \in Nat
BY DpConstants DEF DpType, Count, Unsigned

\* handle_disconnect shuts everything down.
LEMMA HandleEffect ==
    ASSUME IInv, NEW t \in {"hpd", "wq"}, handle_disconnect(t)
    PROVE  /\ dp' \in DpType
           /\ dp'.active = 0 /\ ~dp'.power_on /\ ~dp'.core_initialized /\ ~dp'.is_connected
           /\ NoPhyTest => dp'.streams <= dp.streams
           /\ dp'.dsc = dp.dsc /\ dp'.phy = dp.phy
           /\ dp'.told = dp.told /\ dp'.aborted = dp.aborted /\ dp'.suspended = dp.suspended
           /\ dp'.ctrl_aborted = dp.ctrl_aborted
<1>1. dp' = dp_display_host_deinit([(IF dp.power_on THEN dp_display_clean(dp) ELSE dp)
                                     EXCEPT !.is_connected = FALSE])
  BY DEF handle_disconnect
<1> QED
  BY <1>1, Driver, DisconnectEnds

\* dp_display_enable adds a stream and its DSC blocks.
LEMMA EnableEffect ==
    ASSUME IInv, dp_display_enable
    PROVE  /\ dp' \in DpType /\ SameFlags
           /\ dp'.core_initialized = dp.core_initialized /\ dp'.ctrl_aborted = dp.ctrl_aborted
           /\ dp'.active = (IF dp.core_initialized THEN 1 ELSE 0)
           /\ dp'.power_on <=> dp.core_initialized
           /\ dp.core_initialized =>
                dp'.dsc = dp.dsc + 1 /\ (NoPhyTest => dp'.streams = dp.streams + 1)
           /\ ~dp.core_initialized => dp' = dp
           /\ dp'.dsc <= dp.dsc + 1 /\ (NoPhyTest => dp'.streams <= dp.streams + 1)
<1>1. /\ dp \in DpType /\ dp.active = 0 /\ ~dp.power_on /\ dp.streams \in Nat /\ dp.dsc \in Nat
      /\ dp.power_on \in BOOLEAN /\ dp.streams \in Unsigned
  BY Driver DEF dp_display_enable, IInv, Powered, DpType
<1>2. CASE ~dp.core_initialized
  BY <1>1, <1>2 DEF dp_display_enable, SameFlags
<1>3. CASE dp.core_initialized
  <2>0. Room <= MaxLeaks + MaxSuspends /\ Room \in Int
    BY Driver DEF dp_display_enable, Room, Relit
  <2>1. PICK m \in Count : m = dp.dsc + 1
    <3>1. dp.dsc <= MaxLeaks + MaxSuspends
      BY <1>1, <2>0, Driver DEF IInv, Counted
    <3> QED
      BY <1>1, <3>1, Driver DEF Count
  <2>2. PICK n \in Unsigned :
          /\ dp_ctrl_stream_on(dp) = [dp EXCEPT !.streams = n]
          /\ NoPhyTest => n = dp.streams + 1
    <3>1. CASE dp.phy
      <4>1. dp_ctrl_stream_on(dp) = [dp EXCEPT !.streams = dp.streams]
        BY <1>1, <3>1 DEF dp_ctrl_stream_on, DpType
      <4> QED
        BY <1>1, <3>1, <4>1 DEF IInv, PhyTested
    <3>2. CASE ~dp.phy
      <4>1. PICK n \in Unsigned : n = (dp.streams + 1) % Values
        BY <1>1, Modulo, Zenon
      <4>2. dp_ctrl_stream_on(dp) = [dp EXCEPT !.streams = n]
        BY <3>2, <4>1, Zenon DEF dp_ctrl_stream_on
      <4>3. NoPhyTest => dp.streams + 1 < Values
        BY <1>1, <2>0, DpConstants DEF IInv, Counted
      <4> QED
        BY <1>1, <4>1, <4>2, <4>3, Modulo, Zenon
    <3> QED
      BY <3>1, <3>2
  <2>3. 0 + 1 = 1 /\ 1 \in 0 .. 1
    OBVIOUS
  <2>4. dp' = [dp EXCEPT !.streams = n, !.active = 1, !.dsc = m, !.power_on = TRUE]
    <3>1. dp' = [[dp EXCEPT !.streams = n]
                  EXCEPT !.active = @ + 1, !.dsc = @ + 1, !.power_on = TRUE]
      BY <1>3, <2>2 DEF dp_display_enable
    <3> QED
      BY <1>1, <2>1, <2>3, <3>1 DEF DpType
  <2>5. [dp EXCEPT !.streams = n, !.active = 1, !.dsc = m, !.power_on = TRUE] \in DpType
    BY <1>1, <2>3, Assign, Zenon
  <2>6. /\ dp'.streams = n /\ dp'.dsc = m /\ dp'.active = 1 /\ dp'.power_on /\ SameFlags
        /\ dp'.core_initialized = dp.core_initialized /\ dp'.ctrl_aborted = dp.ctrl_aborted
    BY <1>1, <2>4 DEF DpType, SameFlags
  <2>7. /\ dp'.dsc = dp.dsc + 1 /\ (NoPhyTest => dp'.streams = dp.streams + 1)
        /\ dp'.dsc <= dp.dsc + 1 /\ (NoPhyTest => dp'.streams <= dp.streams + 1)
    BY <1>1, <2>1, <2>2, <2>6
  <2>8. dp' \in DpType
    BY <2>4, <2>5
  <2> QED
    BY <1>3, <2>6, <2>7, <2>8, Zenon
<1> QED
  BY <1>2, <1>3

\* dp_display_disable gives back the stream and its DSC blocks.
LEMMA DisableEffect ==
    ASSUME IInv, dp_display_disable
    PROVE  /\ dp' \in DpType /\ SameFlags
           /\ dp'.core_initialized = dp.core_initialized /\ dp'.ctrl_aborted = dp.ctrl_aborted
           /\ dp'.active = 0 /\ dp'.power_on = dp.power_on
           /\ (NoPhyTest => dp'.streams <= dp.streams) /\ dp'.dsc <= dp.dsc
<1>0. /\ dp \in DpType /\ dp.streams \in Nat /\ dp.dsc \in Nat /\ dp.active \in {0, 1}
      /\ MaxLeaks \in Nat /\ MaxSuspends \in Nat
  BY Driver
<1>1. CASE ~(dp.power_on /\ dp.core_initialized)
  <2>1. dp' = dp /\ dp.active = 0
    BY <1>0, <1>1, Driver DEF dp_display_disable
  <2> QED
    BY <1>0, <2>1 DEF SameFlags
<1>2. CASE dp.power_on /\ dp.core_initialized
  <2>1. dp.active = 1 /\ dp.dsc >= 1
    BY <1>0, <1>2, Driver DEF dp_display_disable, IInv, Powered
  <2>2. PICK e \in DpType :
           /\ dp_display_stream_disable(dp) = e
           /\ e.active = 0 /\ e.dsc = dp.dsc /\ e.phy = dp.phy
           /\ dp.active <= dp.streams => e.streams <= dp.streams
           /\ e.core_initialized = dp.core_initialized /\ e.power_on = dp.power_on
           /\ e.is_connected = dp.is_connected /\ e.told = dp.told /\ e.aborted = dp.aborted
           /\ e.suspended = dp.suspended /\ e.ctrl_aborted = dp.ctrl_aborted
    BY Driver, StreamDisable
  <2>3. PICK m \in Count : m = dp.dsc - 1
    BY <1>0, <2>1 DEF DpType, Count
  <2>4. dp' = [e EXCEPT !.dsc = m]
    BY <1>2, <2>2, <2>3 DEF dp_display_disable
  <2>5. [e EXCEPT !.dsc = m] \in DpType
    BY Assign, Zenon
  <2>6. /\ dp'.active = e.active /\ dp'.streams = e.streams /\ dp'.dsc = m
        /\ dp'.core_initialized = e.core_initialized /\ dp'.power_on = e.power_on
        /\ dp'.is_connected = e.is_connected /\ dp'.told = e.told /\ dp'.aborted = e.aborted
        /\ dp'.suspended = e.suspended /\ dp'.ctrl_aborted = e.ctrl_aborted
        /\ dp'.phy = e.phy
    BY <2>4 DEF DpType
  <2>7. m <= dp.dsc /\ (NoPhyTest => dp.active <= dp.streams)
    BY <1>0, <2>3, Driver
  <2> QED
    BY <2>2, <2>4, <2>5, <2>6, <2>7 DEF SameFlags
<1> QED
  BY <1>1, <1>2

\* dp_display_prepare initialises the host of a port that is ready.
LEMMA PrepareEffect ==
    ASSUME IInv, dp_display_prepare
    PROVE  /\ dp' \in DpType /\ SameFlags
           /\ dp'.power_on = dp.power_on /\ dp'.active = dp.active
           /\ dp'.streams = dp.streams /\ dp'.dsc = dp.dsc
           /\ dp.core_initialized => dp'.core_initialized /\ dp'.ctrl_aborted = dp.ctrl_aborted
           /\ ~dp.core_initialized /\ dp'.core_initialized => ~dp'.ctrl_aborted
<1>1. dp \in DpType
  BY Driver
<1>2. CASE dp' = dp
  BY <1>1, <1>2 DEF SameFlags
<1>3. CASE dp' = dp_ctrl_on_shallow(dp_display_host_init(dp))
  <2>1. dp' \in DpType
    BY <1>1, <1>3, HostType, Zenon
  <2> QED
    BY <1>1, <1>3, <2>1 DEF dp_ctrl_on_shallow, dp_display_host_init, SameFlags, DpType
<1> QED
  BY <1>2, <1>3 DEF dp_display_prepare

\* dp_display_unprepare powers the display off.
LEMMA UnprepareEffect ==
    ASSUME IInv, dp_display_unprepare
    PROVE  /\ dp' \in DpType /\ SameFlags
           /\ ~dp'.power_on /\ dp'.active = 0 /\ dp.active = 0
           /\ dp'.streams = dp.streams /\ dp'.dsc = dp.dsc
           /\ dp'.core_initialized => dp.core_initialized
           /\ dp'.ctrl_aborted = dp.ctrl_aborted
<1>1. dp \in DpType /\ dp.active = 0 /\ ~(dp.active > 0)
  BY Driver DEF dp_display_unprepare, IInv, Powered
<1>2. PICK d \in {dp, dp_display_host_deinit(dp_ctrl_off(dp))} :
        dp' = [d EXCEPT !.power_on = FALSE, !.comp = TRUE]
  BY <1>1, Zenon DEF dp_display_unprepare
<1>3. /\ d \in DpType /\ d.active = 0 /\ d.streams = dp.streams /\ d.dsc = dp.dsc
      /\ d.core_initialized => dp.core_initialized
      /\ d.ctrl_aborted = dp.ctrl_aborted
      /\ d.is_connected = dp.is_connected /\ d.aborted = dp.aborted
      /\ d.suspended = dp.suspended /\ d.told = dp.told /\ d.phy = dp.phy
  <2>1. CASE d = dp
    BY <1>1, <2>1
  <2>2. CASE d = dp_display_host_deinit(dp_ctrl_off(dp))
    <3>1. d \in DpType
      BY <1>1, <2>2, HostType, Zenon
    <3> QED
      BY <1>1, <2>2, <3>1 DEF dp_display_host_deinit, dp_ctrl_off, DpType
  <2> QED
    BY <1>2, <2>1, <2>2
<1>4. [d EXCEPT !.power_on = FALSE, !.comp = TRUE] \in DpType
  BY <1>3, Assign, Zenon
<1> QED
  BY <1>1, <1>2, <1>3, <1>4 DEF SameFlags, DpType

\* An event is paid for out of its budget and out of the common one.
LEMMA SpendEffect ==
    ASSUME left \in Lefts, NEW what \in {"plug", "sink", "ask", "fault", "suspend"}, Spend(what)
    PROVE  /\ left' \in Lefts /\ left'.phy = left.phy
           /\ left'.suspend = (IF what = "suspend" THEN left.suspend - 1 ELSE left.suspend)
<1>0. left.any > 0 /\ left.any \in Nat /\ MaxSuspends \in Nat
  BY DpConstants DEF Spend, Lefts
<1>1. PICK n \in Nat : n = left.any - 1
  BY <1>0
<1>2. CASE what # "suspend"
  <2>1. left[what] \in Nat /\ left[what] > 0
    BY <1>2 DEF Spend, Lefts
  <2>2. PICK m \in Nat : m = left[what] - 1
    BY <2>1
  <2>3. left' = [left EXCEPT ![what] = m, !.any = n]
    BY <1>1, <2>2 DEF Spend
  <2> QED
    BY <1>2, <2>3 DEF Lefts
<1>3. CASE what = "suspend"
  <2>1. left.suspend \in 0 .. MaxSuspends /\ left.suspend > 0
    BY <1>3 DEF Spend, Lefts
  <2>2. PICK m \in 0 .. MaxSuspends : m = left.suspend - 1
    BY <1>0, <2>1
  <2>3. left' = [left EXCEPT !.suspend = m, !.any = n]
    BY <1>1, <1>3, <2>2 DEF Spend
  <2> QED
    BY <1>3, <2>2, <2>3 DEF Lefts
<1> QED
  BY <1>2, <1>3

\* A request of the sink pays for a PHY test as well when it is one.
LEMMA AskEffect ==
    ASSUME left \in Lefts, SinkAsks
    PROVE  /\ left' \in Lefts /\ left'.suspend = left.suspend
           /\ NoPhyTest' => NoPhyTest /\ test' \in {test, "video"}
<1>0. MaxPhyTests \in Nat
  BY DpConstants
<1>1. CASE Spend("ask") /\ test' \in {test, "video"}
  <2>1. left' \in Lefts /\ left'.phy = left.phy /\ left'.suspend = left.suspend
    BY <1>1, SpendEffect
  <2> QED
    BY <1>1, <2>1 DEF NoPhyTest
<1>2. CASE left.ask > 0 /\ left.phy > 0 /\ left.any > 1
           /\ left' = [left EXCEPT !.ask = @ - 1, !.phy = @ - 1, !.any = @ - 2]
  <2>1. PICK a \in Nat, b \in 0 .. MaxPhyTests, c \in Nat :
          a = left.ask - 1 /\ b = left.phy - 1 /\ c = left.any - 2
    BY <1>0, <1>2 DEF Lefts
  <2>2. left' = [left EXCEPT !.ask = a, !.phy = b, !.any = c]
    BY <1>2, <2>1
  <2>3. left' \in Lefts /\ left'.suspend = left.suspend /\ left'.phy = b
    BY <2>2 DEF Lefts
  <2>4. b # MaxPhyTests
    BY <1>0, <2>1 DEF Lefts
  <2> QED
    BY <2>3, <2>4 DEF NoPhyTest
<1> QED
  BY <1>1, <1>2 DEF SinkAsks

\* A value of these is a test request of the sink or none, so no request is
\* recorded when there was none.
LEMMA Recorded ==
    ASSUME IInv, NEW phy \in {dp.phy, FALSE, test = "phy"}
    PROVE  phy \in BOOLEAN /\ (NoPhyTest => ~phy)
<1>1. dp.phy \in BOOLEAN
  BY Driver DEF DpType
<1>2. NoPhyTest => test # "phy" /\ ~dp.phy
  BY DEF IInv, PhyTested
<1>3. CASE phy = dp.phy
  BY <1>1, <1>2, <1>3, Zenon
<1>4. CASE phy = FALSE
  BY <1>4, Zenon
<1>5. CASE phy = (test = "phy")
  BY <1>2, <1>5, Zenon
<1> QED
  BY <1>3, <1>4, <1>5, Zenon

\* process_hpd_high knows the sink, trains the link and records its request.
LEMMA ProbeEffect ==
    ASSUME IInv, probe_succeeds
    PROVE  \E phy \in BOOLEAN :
             /\ dp' = [dp EXCEPT !.known = TRUE, !.ctrl_on = TRUE, !.phy = phy]
             /\ NoPhyTest => ~phy
<1>1. PICK phy \in {FALSE, test = "phy"} :
        dp' = [dp EXCEPT !.known = TRUE, !.ctrl_on = TRUE, !.phy = phy]
  BY Zenon DEF probe_succeeds
<1>2. phy \in {dp.phy, FALSE, test = "phy"}
  BY Zenon
<1>3. phy \in BOOLEAN /\ (NoPhyTest => ~phy)
  BY <1>2, Recorded, Zenon
<1> QED
  BY <1>1, <1>3, Zenon

\* A probe that fails leaves no connection.
LEMMA ProbeFailsEffect ==
    ASSUME IInv, probe_no_display \/ probe_fails
    PROVE  \E known \in BOOLEAN, phy \in BOOLEAN :
             /\ dp' = [dp EXCEPT !.is_connected = FALSE, !.known = known, !.phy = phy]
             /\ NoPhyTest => ~phy
<1>0. dp.known \in BOOLEAN /\ sink \in BOOLEAN /\ dp.phy \in BOOLEAN
  BY Driver DEF DpType, IInv, TypeOK
<1>1. PICK known \in {FALSE, dp.known, dp.known \/ sink}, phy \in {dp.phy, FALSE, test = "phy"} :
        dp' = [dp EXCEPT !.is_connected = FALSE, !.known = known, !.phy = phy]
  BY Zenon DEF probe_no_display, probe_fails, ProbeFailed
<1>2. phy \in BOOLEAN /\ (NoPhyTest => ~phy)
  BY Recorded, Zenon
<1>3. known \in BOOLEAN
  BY <1>0, Zenon
<1> QED
  BY <1>1, <1>2, <1>3, Zenon

\* What a failed probe leaves alone.
LEMMA ProbeFailsKeeps ==
    ASSUME IInv, probe_fails
    PROVE  /\ dp'.active = dp.active /\ dp'.power_on = dp.power_on
           /\ dp'.core_initialized = dp.core_initialized
           /\ dp'.ctrl_aborted = dp.ctrl_aborted /\ dp'.aborted = dp.aborted
           /\ dp'.suspended = dp.suspended /\ dp'.told = dp.told /\ dp'.is_connected = FALSE
           /\ dp'.streams = dp.streams /\ dp'.dsc = dp.dsc
           /\ pc.wq = "probe" /\ pc'.wq = "idle" /\ pc'.hpd = pc.hpd /\ pc'.com = pc.com
           /\ queue' = queue /\ sleep' = sleep /\ left'.suspend = left.suspend
<1>1. PICK known \in BOOLEAN, phy \in BOOLEAN :
        dp' = [dp EXCEPT !.is_connected = FALSE, !.known = known, !.phy = phy]
  BY ProbeFailsEffect
<1>2. dp \in DpType /\ pc \in Pcs /\ left \in Lefts
  BY Driver DEF IInv, Places
<1>3. /\ dp'.active = dp.active /\ dp'.power_on = dp.power_on
      /\ dp'.core_initialized = dp.core_initialized
      /\ dp'.ctrl_aborted = dp.ctrl_aborted /\ dp'.aborted = dp.aborted
      /\ dp'.suspended = dp.suspended /\ dp'.told = dp.told /\ dp'.is_connected = FALSE
      /\ dp'.streams = dp.streams /\ dp'.dsc = dp.dsc
  BY <1>1, <1>2 DEF DpType
<1>4. pc.wq = "probe" /\ pc' = [pc EXCEPT !.wq = "idle"] /\ queue' = queue /\ sleep' = sleep
  BY DEF probe_fails, ProbeFailed, Go
<1>5. pc'.wq = "idle" /\ pc'.hpd = pc.hpd /\ pc'.com = pc.com
  BY <1>2, <1>4 DEF Pcs
<1>6. left' = left \/ Spend("fault")
  BY DEF probe_fails
<1>7. left'.suspend = left.suspend
  BY <1>2, <1>6 DEF Spend, Lefts
<1> QED
  BY <1>3, <1>4, <1>5, <1>7

\* The attention work records what the sink wants.
LEMMA AttentionEffect ==
    ASSUME IInv, dp_display_attention_work
    PROVE  \E known \in BOOLEAN, phy \in BOOLEAN :
             /\ dp' = [dp EXCEPT !.known = known, !.phy = phy]
             /\ NoPhyTest => ~phy /\ pc'.wq \notin PhyTest /\ test' # "phy"
             /\ pc' \in {pc, [pc EXCEPT !.wq = "low"], [pc EXCEPT !.wq = "phy"]} /\ left' = left
<1>0. /\ dp.known \in BOOLEAN /\ dp.phy \in BOOLEAN /\ dp \in DpType
      /\ dp.core_initialized \in BOOLEAN /\ pc \in Pcs /\ pc.wq = "idle"
  BY Driver DEF DpType, dp_display_attention_work
<1>1. NoPhyTest => test # "phy" /\ ~dp.phy
  BY DEF IInv, PhyTested
<1>2. /\ pc' \in {pc, [pc EXCEPT !.wq = "low"], [pc EXCEPT !.wq = "phy"]}
      /\ left' = left
  BY Zenon DEF dp_display_attention_work, Go
<1>3. CASE ~dp.core_initialized \/ ~cable \/ dp.ctrl_aborted
  <2>1. PICK phy \in BOOLEAN : phy <=> (dp.phy /\ ~dp.core_initialized)
    BY Zenon
  <2>2. dp' = [dp EXCEPT !.phy = phy]
    <3>1. phy = (dp.phy /\ ~dp.core_initialized)
      BY <2>1
    <3> QED
      BY <1>3, <3>1 DEF dp_display_attention_work
  <2>3. [dp EXCEPT !.phy = phy] = [dp EXCEPT !.known = dp.known, !.phy = phy]
    BY <1>0 DEF DpType
  <2>4. test' = test /\ pc' = pc
    BY <1>3 DEF dp_display_attention_work
  <2> QED
    BY <1>0, <1>1, <1>2, <2>1, <2>2, <2>3, <2>4, Zenon DEF PhyTest
<1>4. CASE ~(~dp.core_initialized \/ ~cable \/ dp.ctrl_aborted)
  <2>1. CASE /\ test = "phy" /\ dp' = [dp EXCEPT !.phy = TRUE]
    <3>1. [dp EXCEPT !.phy = TRUE] = [dp EXCEPT !.known = dp.known, !.phy = TRUE]
      BY <1>0 DEF DpType
    <3>2. TRUE \in BOOLEAN
      OBVIOUS
    <3> QED
      BY <1>0, <1>1, <1>2, <2>1, <3>1, <3>2, Zenon
  <2>2. CASE /\ \E known \in BOOLEAN : dp' = [dp EXCEPT !.known = known, !.phy = FALSE]
             /\ test' \in {test, "none"} /\ (pc' = pc \/ Go("wq", "low"))
    <3>1. pc'.wq \in {"idle", "low"}
      BY <1>0, <2>2 DEF Go, Pcs
    <3>2. pc'.wq \notin PhyTest
      BY <3>1 DEF PhyTest
    <3>3. NoPhyTest => test' # "phy"
      BY <1>1, <2>2, Zenon
    <3>4. FALSE \in BOOLEAN
      OBVIOUS
    <3> QED
      BY <1>2, <2>2, <3>2, <3>3, <3>4, Zenon
  <2>3. [dp EXCEPT !.phy = FALSE] = [dp EXCEPT !.known = dp.known, !.phy = FALSE]
    BY <1>0 DEF DpType
  <2>4. TRUE \in BOOLEAN /\ FALSE \in BOOLEAN
    OBVIOUS
  <2> QED
    BY <1>0, <1>2, <1>4, <2>1, <2>2, <2>3, <2>4, Zenon DEF dp_display_attention_work
<1> QED
  BY <1>3, <1>4

\* The unlocked decrement of the PHY test leaves a value of the count.
LEMMA StreamOffEffect ==
    ASSUME IInv, phy_test_stream_off
    PROVE  \E n \in Unsigned : dp' = [dp EXCEPT !.streams = n]
<1>1. seen \in Unsigned /\ dp.streams \in Unsigned
  BY Driver DEF IInv, TypeOK, DpType, Unsigned
<1>2. (dp.streams + 1) % Values \in Unsigned
  BY <1>1, Modulo, Zenon
<1>3. PICK count \in {seen, dp.streams, (dp.streams + 1) % Values} :
        dp' = [dp EXCEPT !.streams = Less1(count)]
  BY Zenon DEF phy_test_stream_off
<1>4. Less1(count) \in Unsigned
  BY <1>1, <1>2, Modulo, Zenon
<1> QED
  BY <1>3, <1>4, Zenon
-----------------------------------------------------------------------------
(* Every step preserves the inductive invariant, part by part.             *)

\* The display is powered only while its stream may run, on an initialised host.
LEMMA PowerStep ==
    ASSUME IInv, [Next]_vars PROVE Powered'
<1>0. /\ dp \in DpType /\ dp.active \in {0, 1} /\ dp.streams \in Nat /\ dp.dsc \in Nat
      /\ dp.active <= dp.dsc /\ pc \in Pcs
  BY Driver
<1>p. Powered
  BY DEF IInv
<1>1. CASE Plug
  BY <1>1, <1>0, <1>p
     DEF Plug, Spend, Interrupt, Powered, DpType, Disconnecting, Pcs, PhyTest, Lefts
<1>2. CASE SinkChange
  BY <1>2, <1>0, <1>p
     DEF SinkChange, Spend, Interrupt, Powered, DpType, Disconnecting, Pcs, PhyTest, Lefts
<1>3. CASE SinkAsks
  BY <1>3, <1>0, <1>p
     DEF SinkAsks, Spend, Interrupt, Powered, DpType, Disconnecting, Pcs, PhyTest, Lefts
<1>4. CASE dp_gpio_hpd_work
  BY <1>4, <1>0, <1>p DEF dp_gpio_hpd_work, Go, Powered, DpType, Disconnecting, Pcs, PhyTest
<1>5. CASE dp_display_usbpd_configure_cb
  BY <1>5, <1>0, <1>p
     DEF dp_display_usbpd_configure_cb, Go, Powered, DpType, Disconnecting,
         dp_display_host_init, Pcs, PhyTest
<1>6. CASE disconnect_abort
  BY <1>6, <1>0, <1>p DEF disconnect_abort, Go, Powered, DpType, Disconnecting, Pcs, PhyTest
<1>7. CASE disconnect_flush
  BY <1>7, <1>0, <1>p DEF disconnect_flush, Go, Powered, DpType, Disconnecting, Pcs, PhyTest
<1>8. CASE disconnect_reset
  BY <1>8, <1>0, <1>p DEF disconnect_reset, Go, Powered, DpType, Disconnecting, Pcs, PhyTest
<1>9. ASSUME NEW t \in {"hpd", "wq"}, process_hpd_low(t) PROVE Powered'
  BY <1>9, <1>0, <1>p DEF process_hpd_low, Go, Powered, DpType, Disconnecting, Pcs, PhyTest
<1>10. ASSUME NEW t \in {"hpd", "wq"}, dp_display_send_hpd_notification(t) PROVE Powered'
  BY <1>10, <1>0, <1>p
     DEF dp_display_send_hpd_notification, Go, Powered, DpType, Disconnecting, Notified,
         Waits, Pcs, PhyTest
<1>11. ASSUME NEW t \in {"hpd", "wq"}, notification_wait(t) PROVE Powered'
  BY <1>11, <1>0, <1>p DEF notification_wait, Go, Powered, DpType, Disconnecting, Pcs, PhyTest
<1>12. ASSUME NEW t \in {"hpd", "wq"}, process_hpd_low_off(t) PROVE Powered'
  BY <1>12, <1>0, <1>p
     DEF process_hpd_low_off, Go, Powered, DpType, Disconnecting, dp_ctrl_off, Pcs,
         PhyTest
<1>13. ASSUME NEW t \in {"hpd", "wq"}, handle_disconnect(t) PROVE Powered'
  <2>1. pc'.com = pc.com
    BY <1>13, <1>0 DEF handle_disconnect, Go, Pcs
  <2> QED
    BY <1>13, <1>0, <1>p, <2>1, HandleEffect DEF Powered
<1>14. CASE dp_display_connect_work
  BY <1>14, <1>0, <1>p
     DEF dp_display_connect_work, Go, Powered, DpType, Disconnecting, dp_display_host_init,
         Pcs, PhyTest
<1>15. CASE dp_display_attention_work
  <2>1. PICK known \in BOOLEAN, phy \in BOOLEAN :
          /\ dp' = [dp EXCEPT !.known = known, !.phy = phy]
          /\ pc' \in {pc, [pc EXCEPT !.wq = "low"], [pc EXCEPT !.wq = "phy"]} /\ left' = left
    BY <1>15, AttentionEffect
  <2> QED
    BY <1>0, <1>p, <2>1 DEF Powered, DpType, Pcs
<1>16. CASE probe_succeeds
  BY <1>16, <1>0, <1>p DEF probe_succeeds, Go, Powered, DpType, Disconnecting, Pcs, PhyTest
<1>17. CASE probe_no_display
  BY <1>17, <1>0, <1>p
     DEF probe_no_display, Go, ProbeFailed, Powered, DpType, Disconnecting, Pcs, PhyTest
<1>18. CASE probe_fails
  BY <1>18, <1>p, ProbeFailsKeeps DEF Powered
<1>19. CASE process_hpd_high_tell
  BY <1>19, <1>0, <1>p
     DEF process_hpd_high_tell, Go, Powered, DpType, Disconnecting, Notified, Waits, Pcs,
         PhyTest
<1>20. CASE process_hpd_high_wait
  BY <1>20, <1>0, <1>p
     DEF process_hpd_high_wait, Go, Powered, DpType, Disconnecting, Pcs, PhyTest
<1>21. CASE dp_display_prepare
  BY <1>21, <1>0, <1>p, PrepareEffect
     DEF dp_display_prepare, Go, SameFlags, Powered, Disconnecting, Pcs, PhyTest
<1>22. CASE dp_display_enable
  BY <1>22, <1>0, <1>p, EnableEffect
     DEF dp_display_enable, Go, SameFlags, Powered, Disconnecting, Pcs, PhyTest
<1>23. CASE dp_display_enable_fails
  BY <1>23, <1>0, <1>p
     DEF dp_display_enable_fails, Go, Spend, Powered, DpType, Disconnecting, Pcs, PhyTest,
         Lefts
<1>24. CASE dp_display_post_enable
  BY <1>24, <1>0, <1>p
     DEF dp_display_post_enable, Go, Powered, DpType, Disconnecting, Pcs, PhyTest
<1>25. CASE dp_display_disable
  BY <1>25, <1>0, <1>p, DisableEffect
     DEF dp_display_disable, Go, SameFlags, Powered, Disconnecting, Pcs, PhyTest
<1>26. CASE dp_display_unprepare
  BY <1>26, <1>0, <1>p, UnprepareEffect
     DEF dp_display_unprepare, Go, SameFlags, Powered, Disconnecting, Pcs, PhyTest
<1>27. CASE dp_pm_prepare
  BY <1>27, <1>0, <1>p
     DEF dp_pm_prepare, Spend, Powered, DpType, Disconnecting, Pcs, PhyTest, Lefts
<1>28. CASE dp_pm_complete
  BY <1>28, <1>0, <1>p
     DEF dp_pm_complete, Spend, Powered, DpType, Disconnecting, Pcs, PhyTest, Lefts
<1>29. CASE UNCHANGED vars
  BY <1>29, <1>0, <1>p DEF vars, Powered, DpType, Disconnecting, Pcs, PhyTest
<1>30. CASE phy_test_begins
  BY <1>30, <1>0, <1>p DEF phy_test_begins, Go, Powered, DpType, Disconnecting, Pcs, PhyTest
<1>31. CASE phy_test_stream_off
  BY <1>31, <1>0, <1>p DEF phy_test_stream_off, Go, Powered, DpType, Disconnecting, Pcs, PhyTest
<1>32. CASE phy_test_off
  BY <1>32, <1>0, <1>p
     DEF phy_test_off, Go, Powered, DpType, Disconnecting, dp_ctrl_off, Pcs, PhyTest
<1>33. CASE phy_test_on
  BY <1>33, <1>0, <1>p
     DEF phy_test_on, Go, Powered, DpType, Disconnecting, Spend, Lefts, Pcs, PhyTest
<1> QED
  BY <1>1, <1>2, <1>3, <1>4, <1>5, <1>6, <1>7, <1>8, <1>9, <1>10, <1>11, <1>12, <1>13, <1>14,
     <1>15, <1>16, <1>17, <1>18, <1>19, <1>20, <1>21, <1>22, <1>23, <1>24, <1>25, <1>26,
     <1>27, <1>28, <1>29, <1>30, <1>31, <1>32, <1>33
     DEF Next, Detector, Works, HandleDisconnect, Finish, Quiet

\* What was told differs from is_connected only until a thread tells it.
LEMMA ToldStep ==
    ASSUME IInv, [Next]_vars PROVE Told'
<1>0. /\ dp \in DpType /\ dp.active \in {0, 1} /\ dp.streams \in Nat /\ dp.dsc \in Nat
      /\ dp.active <= dp.dsc /\ pc \in Pcs
  BY Driver
<1>p. Told /\ Aborting /\ (pc.hpd \in Disconnecting => pc.wq = "idle")
  BY DEF IInv, TypeOK
<1>1. CASE Plug
  BY <1>1, <1>0, <1>p
     DEF Plug, Spend, Interrupt, Told, DpType, Disconnecting, Aborting, Pcs, PhyTest,
         Lefts
<1>2. CASE SinkChange
  BY <1>2, <1>0, <1>p
     DEF SinkChange, Spend, Interrupt, Told, DpType, Disconnecting, Aborting, Pcs, PhyTest,
         Lefts
<1>3. CASE SinkAsks
  BY <1>3, <1>0, <1>p
     DEF SinkAsks, Spend, Interrupt, Told, DpType, Disconnecting, Aborting, Pcs, PhyTest,
         Lefts
<1>4. CASE dp_gpio_hpd_work
  BY <1>4, <1>0, <1>p
     DEF dp_gpio_hpd_work, Go, Told, DpType, Disconnecting, Aborting, Pcs, PhyTest
<1>5. CASE dp_display_usbpd_configure_cb
  BY <1>5, <1>0, <1>p
     DEF dp_display_usbpd_configure_cb, Go, Told, DpType, Disconnecting, Unlocked,
         Aborting, dp_display_host_init, Pcs, PhyTest
<1>6. CASE disconnect_abort
  BY <1>6, <1>0, <1>p
     DEF disconnect_abort, Go, Told, DpType, Disconnecting, Aborting, Pcs, PhyTest
<1>7. CASE disconnect_flush
  BY <1>7, <1>0, <1>p
     DEF disconnect_flush, Go, Told, DpType, Disconnecting, Aborting, Pcs, PhyTest
<1>8. CASE disconnect_reset
  BY <1>8, <1>0, <1>p
     DEF disconnect_reset, Go, Told, DpType, Disconnecting, Aborting, Pcs, PhyTest
<1>9. ASSUME NEW t \in {"hpd", "wq"}, process_hpd_low(t) PROVE Told'
  BY <1>9, <1>0, <1>p
     DEF process_hpd_low, Go, Told, DpType, Disconnecting, Unlocked, Aborting, Pcs,
         PhyTest
<1>10. ASSUME NEW t \in {"hpd", "wq"}, dp_display_send_hpd_notification(t) PROVE Told'
  BY <1>10, <1>0, <1>p
     DEF dp_display_send_hpd_notification, Go, Told, DpType, Disconnecting, Aborting,
         Notified, Waits, Pcs, PhyTest
<1>11. ASSUME NEW t \in {"hpd", "wq"}, notification_wait(t) PROVE Told'
  BY <1>11, <1>0, <1>p
     DEF notification_wait, Go, Told, DpType, Disconnecting, Aborting, Pcs, PhyTest
<1>12. ASSUME NEW t \in {"hpd", "wq"}, process_hpd_low_off(t) PROVE Told'
  BY <1>12, <1>0, <1>p
     DEF process_hpd_low_off, Go, Told, DpType, Disconnecting, Unlocked, Aborting,
         dp_ctrl_off, Pcs, PhyTest
<1>13. ASSUME NEW t \in {"hpd", "wq"}, handle_disconnect(t) PROVE Told'
  <2>1. ~dp'.told /\ ~dp'.is_connected /\ dp' \in DpType
    BY <1>13, <1>0, <1>p, HandleEffect DEF handle_disconnect, Told
  <2>2. dp'.told = dp'.is_connected
    BY <2>1 DEF DpType
  <2>3. CASE t = "hpd"
    <3>1. pc'.hpd = "reset" /\ pc'.wq = "idle"
      BY <1>13, <1>0, <1>p, <2>3 DEF handle_disconnect, Go, Disconnecting, Pcs, PhyTest
    <3> QED
      BY <2>1, <2>2, <3>1 DEF Told
  <2>4. CASE t = "wq"
    <3>1. pc'.wq = "idle" /\ pc'.hpd \notin Disconnecting
      BY <1>13, <1>0, <1>p, <2>4 DEF handle_disconnect, Go, Pcs
    <3> QED
      BY <2>1, <2>2, <3>1 DEF Told, Disconnecting, Pcs, PhyTest
  <2> QED
    BY <1>13, <2>3, <2>4
<1>14. CASE dp_display_connect_work
  <2>1. CASE dp.aborted \/ ~hpd.high \/ dp.is_connected
    BY <1>14, <1>p, <2>1 DEF dp_display_connect_work, Told
  <2>2. CASE ~(dp.aborted \/ ~hpd.high \/ dp.is_connected)
    <3>1. pc.wq = "idle" /\ pc.hpd \notin Disconnecting /\ ~dp.told
      BY <1>14, <1>0, <1>p, <2>2
         DEF dp_display_connect_work, Aborting, Told, Disconnecting, DpType, Pcs, PhyTest
    <3>2. dp'.is_connected /\ dp'.told = dp.told
      BY <1>14, <1>0, <2>2 DEF dp_display_connect_work, dp_display_host_init, DpType
    <3>3. pc'.wq = "probe" /\ pc'.hpd = pc.hpd
      BY <1>14, <1>0, <2>2 DEF dp_display_connect_work, Go, Pcs
    <3> QED
      BY <3>1, <3>2, <3>3 DEF Told, Disconnecting, Pcs, PhyTest
  <2> QED
    BY <2>1, <2>2
<1>15. CASE dp_display_attention_work
  <2>1. PICK known \in BOOLEAN, phy \in BOOLEAN :
          /\ dp' = [dp EXCEPT !.known = known, !.phy = phy]
          /\ pc' \in {pc, [pc EXCEPT !.wq = "low"], [pc EXCEPT !.wq = "phy"]} /\ left' = left
    BY <1>15, AttentionEffect
  <2>2. pc.wq = "idle" /\ pc.hpd \notin Disconnecting
    <3>1. pc.wq = "idle" /\ queue # <<>> /\ Head(queue) = "attention"
      BY <1>15 DEF dp_display_attention_work
    <3>2. queue # <<"connect">>
      BY <3>1, Short
    <3> QED
      BY <1>p, <3>1, <3>2 DEF Aborting
  <2> QED
    BY <1>0, <1>p, <2>1, <2>2 DEF Told, DpType, Pcs, Disconnecting
<1>16. CASE probe_succeeds
  BY <1>16, <1>0, <1>p
     DEF probe_succeeds, Go, Told, DpType, Disconnecting, Aborting, Pcs, PhyTest
<1>17. CASE probe_no_display
  BY <1>17, <1>0, <1>p
     DEF probe_no_display, Go, ProbeFailed, Told, DpType, Disconnecting, Aborting, Pcs, PhyTest
<1>18. CASE probe_fails
  <2>1. pc.hpd # "tell"
    BY <1>18, <1>p, ProbeFailsKeeps DEF Disconnecting
  <2>2. dp'.told = dp'.is_connected
    <3>1. dp.told \in BOOLEAN /\ ~dp.told
      BY <1>18, <1>0, <1>p, ProbeFailsKeeps DEF Told, DpType
    <3>2. dp.told = FALSE
      BY <3>1, Zenon
    <3> QED
      BY <1>18, <3>2, ProbeFailsKeeps, Zenon
  <2>3. pc'.hpd \notin Disconnecting
    BY <1>18, <1>p, ProbeFailsKeeps
  <2> QED
    BY <1>18, <2>1, <2>2, <2>3, ProbeFailsKeeps DEF Told, Disconnecting
<1>19. CASE process_hpd_high_tell
  BY <1>19, <1>0, <1>p
     DEF process_hpd_high_tell, Go, Told, DpType, Disconnecting, Aborting, Notified, Waits,
         Pcs, PhyTest
<1>20. CASE process_hpd_high_wait
  BY <1>20, <1>0, <1>p
     DEF process_hpd_high_wait, Go, Told, DpType, Disconnecting, Aborting, Pcs, PhyTest
<1>21. CASE dp_display_prepare
  BY <1>21, <1>0, <1>p, PrepareEffect
     DEF dp_display_prepare, Go, SameFlags, Told, Disconnecting, Unlocked, Pcs, PhyTest
<1>22. CASE dp_display_enable
  BY <1>22, <1>0, <1>p, EnableEffect
     DEF dp_display_enable, Go, SameFlags, Told, Disconnecting, Unlocked, Pcs, PhyTest
<1>23. CASE dp_display_enable_fails
  BY <1>23, <1>0, <1>p
     DEF dp_display_enable_fails, Go, Spend, Told, DpType, Disconnecting, Unlocked,
         Aborting, Pcs, PhyTest, Lefts
<1>24. CASE dp_display_post_enable
  BY <1>24, <1>0, <1>p
     DEF dp_display_post_enable, Go, Told, DpType, Disconnecting, Unlocked, Aborting, Pcs,
         PhyTest
<1>25. CASE dp_display_disable
  BY <1>25, <1>0, <1>p, DisableEffect
     DEF dp_display_disable, Go, SameFlags, Told, Disconnecting, Unlocked, Pcs, PhyTest
<1>26. CASE dp_display_unprepare
  BY <1>26, <1>0, <1>p, UnprepareEffect
     DEF dp_display_unprepare, Go, SameFlags, Told, Disconnecting, Unlocked, Pcs, PhyTest
<1>27. CASE dp_pm_prepare
  BY <1>27, <1>0, <1>p
     DEF dp_pm_prepare, Spend, Told, DpType, Disconnecting, Aborting, Pcs, PhyTest, Lefts
<1>28. CASE dp_pm_complete
  BY <1>28, <1>0, <1>p
     DEF dp_pm_complete, Spend, Told, DpType, Disconnecting, Aborting, Pcs, PhyTest, Lefts
<1>29. CASE UNCHANGED vars
  BY <1>29, <1>0, <1>p DEF vars, Told, DpType, Disconnecting, Aborting, Pcs, PhyTest
<1>30. CASE phy_test_begins
  BY <1>30, <1>0, <1>p
     DEF phy_test_begins, Go, Told, DpType, Disconnecting, Aborting, Pcs, PhyTest
<1>31. CASE phy_test_stream_off
  BY <1>31, <1>0, <1>p
     DEF phy_test_stream_off, Go, Told, DpType, Disconnecting, Aborting, Pcs, PhyTest
<1>32. CASE phy_test_off
  BY <1>32, <1>0, <1>p
     DEF phy_test_off, Go, Told, DpType, Disconnecting, Aborting, dp_ctrl_off, Pcs,
         PhyTest
<1>33. CASE phy_test_on
  BY <1>33, <1>0, <1>p
     DEF phy_test_on, Go, Told, DpType, Disconnecting, Aborting, Spend, Lefts, Pcs,
         PhyTest
<1> QED
  BY <1>1, <1>2, <1>3, <1>4, <1>5, <1>6, <1>7, <1>8, <1>9, <1>10, <1>11, <1>12, <1>13, <1>14,
     <1>15, <1>16, <1>17, <1>18, <1>19, <1>20, <1>21, <1>22, <1>23, <1>24, <1>25, <1>26,
     <1>27, <1>28, <1>29, <1>30, <1>31, <1>32, <1>33
     DEF Next, Detector, Works, HandleDisconnect, Finish, Quiet

\* While a disconnect is aborting, the abort flag and the queue hold back new works.
LEMMA AbortingStep ==
    ASSUME IInv, [Next]_vars PROVE Aborting'
<1>0. /\ dp \in DpType /\ dp.active \in {0, 1} /\ dp.streams \in Nat /\ dp.dsc \in Nat
      /\ dp.active <= dp.dsc /\ pc \in Pcs
  BY Driver
<1>p. Aborting /\ (pc.hpd \in Disconnecting => pc.wq = "idle")
  BY DEF IInv, TypeOK
<1>1. CASE Plug
  BY <1>1, <1>0, <1>p
     DEF Plug, Spend, Interrupt, Aborting, DpType, Disconnecting, Pcs, PhyTest, Lefts
<1>2. CASE SinkChange
  BY <1>2, <1>0, <1>p
     DEF SinkChange, Spend, Interrupt, Aborting, DpType, Disconnecting, Pcs, PhyTest,
         Lefts
<1>3. CASE SinkAsks
  BY <1>3, <1>0, <1>p
     DEF SinkAsks, Spend, Interrupt, Aborting, DpType, Disconnecting, Pcs, PhyTest, Lefts
<1>4. CASE dp_gpio_hpd_work
  BY <1>4, <1>0, <1>p DEF dp_gpio_hpd_work, Go, Aborting, DpType, Disconnecting, Pcs, PhyTest
<1>5. CASE dp_display_usbpd_configure_cb
  BY <1>5, <1>0, <1>p
     DEF dp_display_usbpd_configure_cb, Go, Aborting, DpType, Disconnecting,
         dp_display_host_init, Pcs, PhyTest
<1>6. CASE disconnect_abort
  BY <1>6, <1>0, <1>p DEF disconnect_abort, Go, Aborting, DpType, Disconnecting, Pcs, PhyTest
<1>7. CASE disconnect_flush
  BY <1>7, <1>0, <1>p DEF disconnect_flush, Go, Aborting, DpType, Disconnecting, Pcs, PhyTest
<1>8. CASE disconnect_reset
  BY <1>8, <1>0, <1>p DEF disconnect_reset, Go, Aborting, DpType, Disconnecting, Pcs, PhyTest
<1>9. ASSUME NEW t \in {"hpd", "wq"}, process_hpd_low(t) PROVE Aborting'
  BY <1>9, <1>0, <1>p DEF process_hpd_low, Go, Aborting, DpType, Disconnecting, Pcs, PhyTest
<1>10. ASSUME NEW t \in {"hpd", "wq"}, dp_display_send_hpd_notification(t) PROVE Aborting'
  BY <1>10, <1>0, <1>p
     DEF dp_display_send_hpd_notification, Go, Aborting, DpType, Disconnecting, Notified,
         Waits, Pcs, PhyTest
<1>11. ASSUME NEW t \in {"hpd", "wq"}, notification_wait(t) PROVE Aborting'
  BY <1>11, <1>0, <1>p DEF notification_wait, Go, Aborting, DpType, Disconnecting, Pcs, PhyTest
<1>12. ASSUME NEW t \in {"hpd", "wq"}, process_hpd_low_off(t) PROVE Aborting'
  BY <1>12, <1>0, <1>p
     DEF process_hpd_low_off, Go, Aborting, DpType, Disconnecting, dp_ctrl_off, Pcs,
         PhyTest
<1>13. ASSUME NEW t \in {"hpd", "wq"}, handle_disconnect(t) PROVE Aborting'
  <2>1. dp'.aborted = dp.aborted
    BY <1>13, HandleEffect
  <2>2. CASE t = "hpd"
    <3>1. queue' = queue /\ pc.hpd \in Disconnecting
      BY <1>13, <2>2 DEF handle_disconnect, Disconnecting, Pcs, PhyTest
    <3> QED
      BY <1>p, <2>1, <3>1 DEF Aborting
  <2>3. CASE t = "wq"
    <3>1. pc'.hpd = pc.hpd
      BY <1>13, <1>0, <2>3 DEF handle_disconnect, Go, Pcs
    <3>2. queue' = queue \/ queue' = queue_work(queue, "connect")
      BY <1>13 DEF handle_disconnect
    <3> QED
      BY <1>p, <2>1, <3>1, <3>2, QueueWork, Zenon DEF Aborting
  <2> QED
    BY <1>13, <2>2, <2>3
<1>14. CASE dp_display_connect_work
  <2>1. CASE dp.aborted \/ ~hpd.high \/ dp.is_connected
    <3>1. dp' = dp /\ pc' = pc /\ queue' = Tail(queue) /\ queue # <<>>
      BY <1>14, <2>1 DEF dp_display_connect_work
    <3>2. queue = <<"connect">> => queue' = <<>>
      BY <3>1, Short
    <3> QED
      BY <1>p, <3>1, <3>2 DEF Aborting
  <2>2. CASE ~(dp.aborted \/ ~hpd.high \/ dp.is_connected)
    <3>1. pc'.hpd = pc.hpd
      BY <1>14, <1>0, <2>2 DEF dp_display_connect_work, Go, Pcs
    <3> QED
      BY <1>p, <2>2, <3>1 DEF Aborting
  <2> QED
    BY <2>1, <2>2
<1>15. CASE dp_display_attention_work
  BY <1>15, <1>0, <1>p
     DEF dp_display_attention_work, Go, Aborting, DpType, Disconnecting, Pcs, PhyTest
<1>16. CASE probe_succeeds
  BY <1>16, <1>0, <1>p DEF probe_succeeds, Go, Aborting, DpType, Disconnecting, Pcs, PhyTest
<1>17. CASE probe_no_display
  BY <1>17, <1>0, <1>p
     DEF probe_no_display, Go, ProbeFailed, Aborting, DpType, Disconnecting, Pcs, PhyTest
<1>18. CASE probe_fails
  BY <1>18, <1>p, ProbeFailsKeeps DEF Aborting
<1>19. CASE process_hpd_high_tell
  BY <1>19, <1>0, <1>p
     DEF process_hpd_high_tell, Go, Aborting, DpType, Disconnecting, Notified, Waits, Pcs,
         PhyTest
<1>20. CASE process_hpd_high_wait
  BY <1>20, <1>0, <1>p
     DEF process_hpd_high_wait, Go, Aborting, DpType, Disconnecting, Pcs, PhyTest
<1>21. CASE dp_display_prepare
  BY <1>21, <1>0, <1>p, PrepareEffect
     DEF dp_display_prepare, Go, SameFlags, Aborting, Disconnecting, Pcs, PhyTest
<1>22. CASE dp_display_enable
  BY <1>22, <1>0, <1>p, EnableEffect
     DEF dp_display_enable, Go, SameFlags, Aborting, Disconnecting, Pcs, PhyTest
<1>23. CASE dp_display_enable_fails
  BY <1>23, <1>0, <1>p
     DEF dp_display_enable_fails, Go, Spend, Aborting, DpType, Disconnecting, Pcs, PhyTest,
         Lefts
<1>24. CASE dp_display_post_enable
  BY <1>24, <1>0, <1>p
     DEF dp_display_post_enable, Go, Aborting, DpType, Disconnecting, Pcs, PhyTest
<1>25. CASE dp_display_disable
  BY <1>25, <1>0, <1>p, DisableEffect
     DEF dp_display_disable, Go, SameFlags, Aborting, Disconnecting, Pcs, PhyTest
<1>26. CASE dp_display_unprepare
  BY <1>26, <1>0, <1>p, UnprepareEffect
     DEF dp_display_unprepare, Go, SameFlags, Aborting, Disconnecting, Pcs, PhyTest
<1>27. CASE dp_pm_prepare
  BY <1>27, <1>0, <1>p
     DEF dp_pm_prepare, Spend, Aborting, DpType, Disconnecting, Pcs, PhyTest, Lefts
<1>28. CASE dp_pm_complete
  BY <1>28, <1>0, <1>p
     DEF dp_pm_complete, Spend, Aborting, DpType, Disconnecting, Pcs, PhyTest, Lefts
<1>29. CASE UNCHANGED vars
  BY <1>29, <1>0, <1>p DEF vars, Aborting, DpType, Disconnecting, Pcs, PhyTest
<1>30. CASE phy_test_begins
  BY <1>30, <1>0, <1>p DEF phy_test_begins, Go, Aborting, DpType, Disconnecting, Pcs, PhyTest
<1>31. CASE phy_test_stream_off
  BY <1>31, <1>0, <1>p
     DEF phy_test_stream_off, Go, Aborting, DpType, Disconnecting, Pcs, PhyTest
<1>32. CASE phy_test_off
  BY <1>32, <1>0, <1>p
     DEF phy_test_off, Go, Aborting, DpType, Disconnecting, dp_ctrl_off, Pcs, PhyTest
<1>33. CASE phy_test_on
  BY <1>33, <1>0, <1>p
     DEF phy_test_on, Go, Aborting, DpType, Disconnecting, Spend, Lefts, Pcs, PhyTest
<1> QED
  BY <1>1, <1>2, <1>3, <1>4, <1>5, <1>6, <1>7, <1>8, <1>9, <1>10, <1>11, <1>12, <1>13, <1>14,
     <1>15, <1>16, <1>17, <1>18, <1>19, <1>20, <1>21, <1>22, <1>23, <1>24, <1>25, <1>26,
     <1>27, <1>28, <1>29, <1>30, <1>31, <1>32, <1>33
     DEF Next, Detector, Works, HandleDisconnect, Finish, Quiet

\* Every thread stays in its code, and a suspend is paid for.
LEMMA PlacesStep ==
    ASSUME IInv, [Next]_vars PROVE Places'
<1>0. /\ dp \in DpType /\ dp.active \in {0, 1} /\ dp.streams \in Nat /\ dp.dsc \in Nat
      /\ dp.active <= dp.dsc /\ pc \in Pcs
  BY Driver
<1>p. Places
  BY DEF IInv
<1>1. CASE Plug
  <2>1. Spend("plug") /\ dp' = dp /\ pc' = pc
    BY <1>1 DEF Plug
  <2> QED
    BY <1>p, <2>1, SpendEffect DEF Places
<1>2. CASE SinkChange
  <2>1. Spend("sink") /\ dp' = dp /\ pc' = pc
    BY <1>2 DEF SinkChange
  <2> QED
    BY <1>p, <2>1, SpendEffect DEF Places
<1>3. CASE SinkAsks
  <2>1. dp' = dp /\ pc' = pc
    BY <1>3 DEF SinkAsks
  <2> QED
    BY <1>3, <1>p, <2>1, AskEffect DEF Places
<1>4. CASE dp_gpio_hpd_work
  BY <1>4, <1>0, <1>p
     DEF dp_gpio_hpd_work, Go, Places, DpType, Disconnecting, Pcs, PhyTest, Lefts
<1>5. CASE dp_display_usbpd_configure_cb
  BY <1>5, <1>0, <1>p
     DEF dp_display_usbpd_configure_cb, Go, Places, DpType, Disconnecting,
         dp_display_host_init, Pcs, PhyTest, Lefts
<1>6. CASE disconnect_abort
  BY <1>6, <1>0, <1>p
     DEF disconnect_abort, Go, Places, DpType, Disconnecting, Pcs, PhyTest, Lefts
<1>7. CASE disconnect_flush
  BY <1>7, <1>0, <1>p
     DEF disconnect_flush, Go, Places, DpType, Disconnecting, Pcs, PhyTest, Lefts
<1>8. CASE disconnect_reset
  BY <1>8, <1>0, <1>p
     DEF disconnect_reset, Go, Places, DpType, Disconnecting, Pcs, PhyTest, Lefts
<1>9. ASSUME NEW t \in {"hpd", "wq"}, process_hpd_low(t) PROVE Places'
  BY <1>9, <1>0, <1>p
     DEF process_hpd_low, Go, Places, DpType, Disconnecting, Pcs, PhyTest, Lefts
<1>10. ASSUME NEW t \in {"hpd", "wq"}, dp_display_send_hpd_notification(t) PROVE Places'
  BY <1>10, <1>0, <1>p
     DEF dp_display_send_hpd_notification, Go, Places, DpType, Disconnecting, Notified,
         Waits, Pcs, PhyTest, Lefts
<1>11. ASSUME NEW t \in {"hpd", "wq"}, notification_wait(t) PROVE Places'
  BY <1>11, <1>0, <1>p
     DEF notification_wait, Go, Places, DpType, Disconnecting, Pcs, PhyTest, Lefts
<1>12. ASSUME NEW t \in {"hpd", "wq"}, process_hpd_low_off(t) PROVE Places'
  BY <1>12, <1>0, <1>p
     DEF process_hpd_low_off, Go, Places, DpType, Disconnecting, dp_ctrl_off, Pcs, PhyTest,
         Lefts
<1>13. ASSUME NEW t \in {"hpd", "wq"}, handle_disconnect(t) PROVE Places'
  BY <1>13, <1>0, <1>p, HandleEffect
     DEF handle_disconnect, Go, SameFlags, Places, Disconnecting, Pcs, PhyTest, Lefts
<1>14. CASE dp_display_connect_work
  BY <1>14, <1>0, <1>p
     DEF dp_display_connect_work, Go, Places, DpType, Disconnecting, dp_display_host_init,
         Pcs, PhyTest, Lefts
<1>15. CASE dp_display_attention_work
  <2>1. PICK known \in BOOLEAN, phy \in BOOLEAN :
          /\ dp' = [dp EXCEPT !.known = known, !.phy = phy]
          /\ pc' \in {pc, [pc EXCEPT !.wq = "low"], [pc EXCEPT !.wq = "phy"]} /\ left' = left
    BY <1>15, AttentionEffect
  <2> QED
    BY <1>0, <1>p, <2>1 DEF Places, DpType, Pcs, PhyTest, Disconnecting
<1>16. CASE probe_succeeds
  BY <1>16, <1>0, <1>p
     DEF probe_succeeds, Go, Places, DpType, Disconnecting, Pcs, PhyTest, Lefts
<1>17. CASE probe_no_display
  BY <1>17, <1>0, <1>p
     DEF probe_no_display, Go, ProbeFailed, Places, DpType, Disconnecting, Pcs, PhyTest,
         Lefts
<1>18. CASE probe_fails
  <2>1. PICK known \in BOOLEAN, phy \in BOOLEAN :
          dp' = [dp EXCEPT !.is_connected = FALSE, !.known = known, !.phy = phy]
    BY <1>18, ProbeFailsEffect
  <2>2. left' = left \/ Spend("fault")
    BY <1>18 DEF probe_fails
  <2>3. left' \in Lefts /\ left'.suspend = left.suspend
    BY <1>p, <2>2, SpendEffect DEF Places
  <2>4. pc' = [pc EXCEPT !.wq = "idle"]
    BY <1>18 DEF probe_fails, ProbeFailed, Go
  <2> QED
    BY <1>0, <1>p, <2>1, <2>3, <2>4 DEF Places, DpType, Pcs
<1>19. CASE process_hpd_high_tell
  BY <1>19, <1>0, <1>p
     DEF process_hpd_high_tell, Go, Places, DpType, Disconnecting, Notified, Waits, Pcs,
         PhyTest, Lefts
<1>20. CASE process_hpd_high_wait
  BY <1>20, <1>0, <1>p
     DEF process_hpd_high_wait, Go, Places, DpType, Disconnecting, Pcs, PhyTest, Lefts
<1>21. CASE dp_display_prepare
  BY <1>21, <1>0, <1>p, PrepareEffect
     DEF dp_display_prepare, Go, SameFlags, Places, Disconnecting, Pcs, PhyTest, Lefts
<1>22. CASE dp_display_enable
  BY <1>22, <1>0, <1>p, EnableEffect
     DEF dp_display_enable, Go, SameFlags, Places, Disconnecting, Pcs, PhyTest, Lefts
<1>23. CASE dp_display_enable_fails
  <2>1. Spend("fault") /\ dp' = dp /\ pc' = [pc EXCEPT !.com = "undo"]
    BY <1>23 DEF dp_display_enable_fails, Go
  <2>2. left' \in Lefts /\ left'.suspend = left.suspend
    BY <1>p, <2>1, SpendEffect DEF Places
  <2> QED
    BY <1>p, <2>1, <2>2 DEF Places, Pcs
<1>24. CASE dp_display_post_enable
  BY <1>24, <1>0, <1>p
     DEF dp_display_post_enable, Go, Places, DpType, Disconnecting, Pcs, PhyTest, Lefts
<1>25. CASE dp_display_disable
  BY <1>25, <1>0, <1>p, DisableEffect
     DEF dp_display_disable, Go, SameFlags, Places, Disconnecting, Pcs, PhyTest, Lefts
<1>26. CASE dp_display_unprepare
  BY <1>26, <1>0, <1>p, UnprepareEffect
     DEF dp_display_unprepare, Go, SameFlags, Places, Disconnecting, Pcs, PhyTest, Lefts
<1>27. CASE dp_pm_prepare
  <2>1. Spend("suspend") /\ pc' = pc /\ left.suspend \in 0 .. MaxSuspends /\ MaxSuspends \in Nat
    BY <1>27, <1>p, Driver DEF dp_pm_prepare
  <2>2. left' \in Lefts /\ left'.suspend = left.suspend - 1
    BY <1>p, <2>1, SpendEffect DEF Places
  <2>3. left'.suspend < MaxSuspends
    BY <2>1, <2>2
  <2> QED
    BY <1>p, <2>1, <2>2, <2>3 DEF Places
<1>28. CASE dp_pm_complete
  BY <1>28, <1>0, <1>p
     DEF dp_pm_complete, Spend, Places, DpType, Disconnecting, Pcs, PhyTest, Lefts
<1>29. CASE UNCHANGED vars
  BY <1>29, <1>0, <1>p DEF vars, Places, DpType, Disconnecting, Pcs, PhyTest, Lefts
<1>30. CASE phy_test_begins
  BY <1>30, <1>0, <1>p
     DEF phy_test_begins, Go, Places, DpType, Disconnecting, Pcs, PhyTest, Lefts
<1>31. CASE phy_test_stream_off
  BY <1>31, <1>0, <1>p
     DEF phy_test_stream_off, Go, Places, DpType, Disconnecting, Pcs, PhyTest, Lefts
<1>32. CASE phy_test_off
  BY <1>32, <1>0, <1>p
     DEF phy_test_off, Go, Places, DpType, Disconnecting, dp_ctrl_off, Pcs, PhyTest, Lefts
<1>33. CASE phy_test_on
  <2>1. left' = left \/ Spend("fault")
    BY <1>33 DEF phy_test_on
  <2>2. left' \in Lefts /\ left'.suspend = left.suspend
    BY <1>p, <2>1, SpendEffect DEF Places
  <2>3. dp'.suspended = dp.suspended /\ pc' = [pc EXCEPT !.wq = "idle"]
    BY <1>33, <1>0 DEF phy_test_on, Go, DpType
  <2> QED
    BY <1>p, <2>2, <2>3 DEF Places, Pcs
<1> QED
  BY <1>1, <1>2, <1>3, <1>4, <1>5, <1>6, <1>7, <1>8, <1>9, <1>10, <1>11, <1>12, <1>13, <1>14,
     <1>15, <1>16, <1>17, <1>18, <1>19, <1>20, <1>21, <1>22, <1>23, <1>24, <1>25, <1>26,
     <1>27, <1>28, <1>29, <1>30, <1>31, <1>32, <1>33
     DEF Next, Detector, Works, HandleDisconnect, Finish, Quiet

\* An abort of the controller is handled by a disconnect that is on its way.
LEMMA AbortHandledStep ==
    ASSUME IInv, [Next]_vars PROVE AbortHandled'
<1>0. /\ dp \in DpType /\ dp.active \in {0, 1} /\ dp.streams \in Nat /\ dp.dsc \in Nat
      /\ dp.active <= dp.dsc /\ pc \in Pcs
  BY Driver
<1>p. AbortHandled /\ Places
  BY DEF IInv
<1>1. CASE Plug
  BY <1>1, <1>0, <1>p
     DEF Plug, Spend, Interrupt, AbortHandled, Places, DpType, Disconnecting, Pcs, PhyTest,
         Lefts
<1>2. CASE SinkChange
  BY <1>2, <1>0, <1>p
     DEF SinkChange, Spend, Interrupt, AbortHandled, Places, DpType, Disconnecting, Pcs,
         PhyTest, Lefts
<1>3. CASE SinkAsks
  BY <1>3, <1>0, <1>p
     DEF SinkAsks, Spend, Interrupt, AbortHandled, Places, DpType, Disconnecting, Pcs,
         PhyTest, Lefts
<1>4. CASE dp_gpio_hpd_work
  BY <1>4, <1>0, <1>p
     DEF dp_gpio_hpd_work, Go, AbortHandled, Places, DpType, Disconnecting, Pcs, PhyTest,
         Lefts
<1>5. CASE dp_display_usbpd_configure_cb
  BY <1>5, <1>0, <1>p
     DEF dp_display_usbpd_configure_cb, Go, AbortHandled, Places, DpType, Disconnecting,
         dp_display_host_init, Pcs, PhyTest, Lefts
<1>6. CASE disconnect_abort
  BY <1>6, <1>0, <1>p
     DEF disconnect_abort, Go, AbortHandled, Places, DpType, Disconnecting, Pcs, PhyTest,
         Lefts
<1>7. CASE disconnect_flush
  BY <1>7, <1>0, <1>p
     DEF disconnect_flush, Go, AbortHandled, Places, DpType, Disconnecting, Pcs, PhyTest,
         Lefts
<1>8. CASE disconnect_reset
  BY <1>8, <1>0, <1>p
     DEF disconnect_reset, Go, AbortHandled, Places, DpType, Disconnecting, Pcs, PhyTest,
         Lefts
<1>9. ASSUME NEW t \in {"hpd", "wq"}, process_hpd_low(t) PROVE AbortHandled'
  BY <1>9, <1>0, <1>p
     DEF process_hpd_low, Go, AbortHandled, Places, DpType, Disconnecting, Pcs, PhyTest,
         Lefts
<1>10. ASSUME NEW t \in {"hpd", "wq"}, dp_display_send_hpd_notification(t) PROVE AbortHandled'
  BY <1>10, <1>0, <1>p
     DEF dp_display_send_hpd_notification, Go, AbortHandled, Places, DpType, Disconnecting,
         Notified, Waits, Pcs, PhyTest, Lefts
<1>11. ASSUME NEW t \in {"hpd", "wq"}, notification_wait(t) PROVE AbortHandled'
  BY <1>11, <1>0, <1>p
     DEF notification_wait, Go, AbortHandled, Places, DpType, Disconnecting, Pcs, PhyTest,
         Lefts
<1>12. ASSUME NEW t \in {"hpd", "wq"}, process_hpd_low_off(t) PROVE AbortHandled'
  BY <1>12, <1>0, <1>p
     DEF process_hpd_low_off, Go, AbortHandled, Places, DpType, Disconnecting, dp_ctrl_off,
         Pcs, PhyTest, Lefts
<1>13. ASSUME NEW t \in {"hpd", "wq"}, handle_disconnect(t) PROVE AbortHandled'
  BY <1>13, <1>0, <1>p, HandleEffect
     DEF handle_disconnect, Go, SameFlags, AbortHandled, Places, Disconnecting, Pcs,
         PhyTest, Lefts
<1>14. CASE dp_display_connect_work
  BY <1>14, <1>0, <1>p
     DEF dp_display_connect_work, Go, AbortHandled, Places, DpType, Disconnecting,
         dp_display_host_init, Pcs, PhyTest, Lefts
<1>15. CASE dp_display_attention_work
  <2>1. PICK known \in BOOLEAN, phy \in BOOLEAN :
          /\ dp' = [dp EXCEPT !.known = known, !.phy = phy]
          /\ pc' \in {pc, [pc EXCEPT !.wq = "low"], [pc EXCEPT !.wq = "phy"]} /\ left' = left
    BY <1>15, AttentionEffect
  <2> QED
    BY <1>0, <1>p, <2>1, <1>15 DEF AbortHandled, Places, DpType, Pcs, dp_display_attention_work
<1>16. CASE probe_succeeds
  BY <1>16, <1>0, <1>p
     DEF probe_succeeds, Go, AbortHandled, Places, DpType, Disconnecting, Pcs, PhyTest,
         Lefts
<1>17. CASE probe_no_display
  BY <1>17, <1>0, <1>p
     DEF probe_no_display, Go, ProbeFailed, AbortHandled, Places, DpType, Disconnecting,
         Pcs, PhyTest, Lefts
<1>18. CASE probe_fails
  BY <1>18, <1>0, <1>p, ProbeFailsKeeps
     DEF AbortHandled, Places, Disconnecting, Pcs, PhyTest
<1>19. CASE process_hpd_high_tell
  BY <1>19, <1>0, <1>p
     DEF process_hpd_high_tell, Go, AbortHandled, Places, DpType, Disconnecting, Notified,
         Waits, Pcs, PhyTest, Lefts
<1>20. CASE process_hpd_high_wait
  BY <1>20, <1>0, <1>p
     DEF process_hpd_high_wait, Go, AbortHandled, Places, DpType, Disconnecting, Pcs,
         PhyTest, Lefts
<1>21. CASE dp_display_prepare
  BY <1>21, <1>0, <1>p, PrepareEffect
     DEF dp_display_prepare, Go, SameFlags, AbortHandled, Places, Disconnecting, Pcs,
         PhyTest, Lefts
<1>22. CASE dp_display_enable
  BY <1>22, <1>0, <1>p, EnableEffect
     DEF dp_display_enable, Go, SameFlags, AbortHandled, Places, Disconnecting, Pcs,
         PhyTest, Lefts
<1>23. CASE dp_display_enable_fails
  BY <1>23, <1>0, <1>p
     DEF dp_display_enable_fails, Go, Spend, AbortHandled, Places, DpType, Disconnecting,
         Pcs, PhyTest, Lefts
<1>24. CASE dp_display_post_enable
  BY <1>24, <1>0, <1>p
     DEF dp_display_post_enable, Go, AbortHandled, Places, DpType, Disconnecting, Pcs,
         PhyTest, Lefts
<1>25. CASE dp_display_disable
  BY <1>25, <1>0, <1>p, DisableEffect
     DEF dp_display_disable, Go, SameFlags, AbortHandled, Places, Disconnecting, Pcs,
         PhyTest, Lefts
<1>26. CASE dp_display_unprepare
  BY <1>26, <1>0, <1>p, UnprepareEffect
     DEF dp_display_unprepare, Go, SameFlags, AbortHandled, Places, Disconnecting, Pcs,
         PhyTest, Lefts
<1>27. CASE dp_pm_prepare
  <2>1. Spend("suspend") /\ left.suspend \in 0 .. MaxSuspends /\ MaxSuspends \in Nat
    BY <1>27, Driver DEF dp_pm_prepare
  <2>2. left'.suspend = left.suspend - 1
    BY <1>p, <2>1, SpendEffect DEF Places
  <2>3. left'.suspend # MaxSuspends
    BY <2>1, <2>2
  <2> QED
    BY <2>3 DEF AbortHandled
<1>28. CASE dp_pm_complete
  BY <1>28, <1>0, <1>p
     DEF dp_pm_complete, Spend, AbortHandled, Places, DpType, Disconnecting, Pcs, PhyTest,
         Lefts
<1>29. CASE UNCHANGED vars
  BY <1>29, <1>0, <1>p
     DEF vars, AbortHandled, Places, DpType, Disconnecting, Pcs, PhyTest, Lefts
<1>30. CASE phy_test_begins
  BY <1>30, <1>0, <1>p
     DEF phy_test_begins, Go, AbortHandled, Places, DpType, Disconnecting, Pcs, PhyTest,
         Lefts
<1>31. CASE phy_test_stream_off
  BY <1>31, <1>0, <1>p
     DEF phy_test_stream_off, Go, AbortHandled, Places, DpType, Disconnecting, Pcs,
         PhyTest, Lefts
<1>32. CASE phy_test_off
  BY <1>32, <1>0, <1>p
     DEF phy_test_off, Go, AbortHandled, Places, DpType, Disconnecting, dp_ctrl_off, Pcs,
         PhyTest, Lefts
<1>33. CASE phy_test_on
  BY <1>33, <1>0, <1>p
     DEF phy_test_on, Go, AbortHandled, Places, DpType, Disconnecting, Spend, Lefts, Pcs,
         PhyTest, Lefts
<1> QED
  BY <1>1, <1>2, <1>3, <1>4, <1>5, <1>6, <1>7, <1>8, <1>9, <1>10, <1>11, <1>12, <1>13, <1>14,
     <1>15, <1>16, <1>17, <1>18, <1>19, <1>20, <1>21, <1>22, <1>23, <1>24, <1>25, <1>26,
     <1>27, <1>28, <1>29, <1>30, <1>31, <1>32, <1>33
     DEF Next, Detector, Works, HandleDisconnect, Finish, Quiet

\* The driver's state keeps its type.
LEMMA DpStep ==
    ASSUME IInv, [Next]_vars PROVE (dp \in DpType)'
<1>0. /\ dp \in DpType /\ dp.active \in {0, 1} /\ dp.streams \in Nat /\ dp.dsc \in Nat
      /\ dp.active <= dp.dsc /\ pc \in Pcs
  BY Driver
<1>p. TypeOK
  BY DEF IInv
<1>1. CASE Plug
  BY <1>1, <1>0, <1>p DEF Plug, Spend, Interrupt, DpType, Lefts
<1>2. CASE SinkChange
  BY <1>2, <1>0, <1>p DEF SinkChange, Spend, Interrupt, DpType, Lefts
<1>3. CASE SinkAsks
  BY <1>3, <1>0, <1>p DEF SinkAsks, Spend, Interrupt, DpType, Lefts
<1>4. CASE dp_gpio_hpd_work
  BY <1>4, <1>0, <1>p DEF dp_gpio_hpd_work, Go, DpType, Pcs
<1>5. CASE dp_display_usbpd_configure_cb
  BY <1>5, <1>0, <1>p DEF dp_display_usbpd_configure_cb, Go, DpType, dp_display_host_init, Pcs
<1>6. CASE disconnect_abort
  BY <1>6, <1>0, <1>p DEF disconnect_abort, Go, DpType, Pcs
<1>7. CASE disconnect_flush
  BY <1>7, <1>0, <1>p DEF disconnect_flush, Go, DpType, Pcs
<1>8. CASE disconnect_reset
  BY <1>8, <1>0, <1>p DEF disconnect_reset, Go, DpType, Pcs
<1>9. ASSUME NEW t \in {"hpd", "wq"}, process_hpd_low(t) PROVE (dp \in DpType)'
  BY <1>9, <1>0, <1>p DEF process_hpd_low, Go, DpType, Pcs
<1>10. ASSUME NEW t \in {"hpd", "wq"}, dp_display_send_hpd_notification(t)
      PROVE (dp \in DpType)'
  BY <1>10, <1>0, <1>p DEF dp_display_send_hpd_notification, Go, DpType, Notified, Waits, Pcs
<1>11. ASSUME NEW t \in {"hpd", "wq"}, notification_wait(t) PROVE (dp \in DpType)'
  BY <1>11, <1>0, <1>p DEF notification_wait, Go, DpType, Pcs
<1>12. ASSUME NEW t \in {"hpd", "wq"}, process_hpd_low_off(t) PROVE (dp \in DpType)'
  BY <1>12, <1>0, <1>p DEF process_hpd_low_off, Go, DpType, dp_ctrl_off, Pcs
<1>13. ASSUME NEW t \in {"hpd", "wq"}, handle_disconnect(t) PROVE (dp \in DpType)'
  BY <1>13, HandleEffect
<1>14. CASE dp_display_connect_work
  <2>1. CASE dp' = dp
    BY <1>0, <2>1
  <2>2. CASE dp' = dp_display_host_init([dp EXCEPT !.is_connected = TRUE])
    <3>1. [dp EXCEPT !.is_connected = TRUE] \in DpType
      BY <1>0, Assign, Zenon
    <3> QED
      BY <2>2, <3>1, HostType, Zenon
  <2> QED
    BY <1>14, <2>1, <2>2 DEF dp_display_connect_work
<1>15. CASE dp_display_attention_work
  <2>1. PICK known \in BOOLEAN, phy \in BOOLEAN : dp' = [dp EXCEPT !.known = known, !.phy = phy]
    BY <1>15, AttentionEffect
  <2> QED
    BY <1>0, <2>1, Assign, Zenon
<1>16. CASE probe_succeeds
  <2>1. PICK phy \in BOOLEAN : dp' = [dp EXCEPT !.known = TRUE, !.ctrl_on = TRUE, !.phy = phy]
    BY <1>16, ProbeEffect
  <2>2. TRUE \in BOOLEAN
    OBVIOUS
  <2> QED
    BY <1>0, <2>1, <2>2, Assign, Zenon
<1>17. CASE probe_no_display \/ probe_fails
  <2>1. PICK known \in BOOLEAN, phy \in BOOLEAN :
          dp' = [dp EXCEPT !.is_connected = FALSE, !.known = known, !.phy = phy]
    BY <1>17, ProbeFailsEffect
  <2>2. FALSE \in BOOLEAN
    OBVIOUS
  <2> QED
    BY <1>0, <2>1, <2>2, Assign, Zenon
<1>19. CASE process_hpd_high_tell
  BY <1>19, <1>0, <1>p DEF process_hpd_high_tell, Go, DpType, Notified, Waits, Pcs
<1>20. CASE process_hpd_high_wait
  BY <1>20, <1>0, <1>p DEF process_hpd_high_wait, Go, DpType, Pcs
<1>21. CASE dp_display_prepare
  BY <1>21, PrepareEffect
<1>22. CASE dp_display_enable
  BY <1>22, EnableEffect
<1>23. CASE dp_display_enable_fails
  BY <1>23, <1>0, <1>p DEF dp_display_enable_fails, Go, Spend, DpType, Pcs, Lefts
<1>24. CASE dp_display_post_enable
  BY <1>24, <1>0, <1>p DEF dp_display_post_enable, Go, DpType, Pcs
<1>25. CASE dp_display_disable
  BY <1>25, DisableEffect
<1>26. CASE dp_display_unprepare
  BY <1>26, UnprepareEffect
<1>27. CASE dp_pm_prepare
  BY <1>27, <1>0, <1>p DEF dp_pm_prepare, Spend, DpType, Lefts
<1>28. CASE dp_pm_complete
  BY <1>28, <1>0, <1>p DEF dp_pm_complete, Spend, DpType, Lefts
<1>29. CASE UNCHANGED vars
  BY <1>29, <1>0, <1>p DEF vars, DpType
<1>30. CASE phy_test_begins
  BY <1>30, <1>0, <1>p DEF phy_test_begins, Go, DpType, Pcs
<1>31. CASE phy_test_stream_off
  <2>1. PICK n \in Unsigned : dp' = [dp EXCEPT !.streams = n]
    BY <1>31, StreamOffEffect
  <2> QED
    BY <1>0, <2>1, Assign, Zenon
<1>32. CASE phy_test_off
  BY <1>32, <1>0, <1>p DEF phy_test_off, Go, DpType, dp_ctrl_off, Pcs
<1>33. CASE phy_test_on
  BY <1>33, <1>0, <1>p DEF phy_test_on, Go, DpType, Spend, Lefts, Pcs
<1> QED
  BY <1>1, <1>2, <1>3, <1>4, <1>5, <1>6, <1>7, <1>8, <1>9, <1>10, <1>11, <1>12, <1>13, <1>14,
     <1>15, <1>16, <1>17, <1>19, <1>20, <1>21, <1>22, <1>23, <1>24, <1>25, <1>26,
     <1>27, <1>28, <1>29, <1>30, <1>31, <1>32, <1>33
     DEF Next, Detector, Works, HandleDisconnect, Finish, Quiet

\* Each work is queued once.
LEMMA QueueStep ==
    ASSUME IInv, [Next]_vars PROVE (queue \in Queues)'
<1>0. queue \in Queues
  BY DEF IInv, TypeOK, Queues
<1>p. "connect" \in {"connect", "attention"} /\ "attention" \in {"connect", "attention"}
  OBVIOUS
<1>1. CASE Plug
  BY <1>1, <1>0, <1>p DEF Plug, Spend, Interrupt, Lefts
<1>2. CASE SinkChange
  BY <1>2, <1>0, <1>p DEF SinkChange, Spend, Interrupt, Lefts
<1>3. CASE SinkAsks
  BY <1>3, <1>0, <1>p DEF SinkAsks, Spend, Interrupt, Lefts
<1>4. CASE dp_gpio_hpd_work
  BY <1>4, <1>0, <1>p, QueueWork, Zenon DEF dp_gpio_hpd_work, dp_display_usbpd_attention_cb
<1>5. CASE dp_display_usbpd_configure_cb
  BY <1>5, <1>0, <1>p, QueueWork, Zenon DEF dp_display_usbpd_configure_cb
<1>6. CASE disconnect_abort
  BY <1>6, Zenon DEF disconnect_abort, Queues
<1>7. CASE disconnect_flush
  BY <1>7, <1>0, <1>p DEF disconnect_flush, Go, Pcs
<1>8. CASE disconnect_reset
  BY <1>8, <1>0, <1>p DEF disconnect_reset, Go, Pcs
<1>9. ASSUME NEW t \in {"hpd", "wq"}, process_hpd_low(t) PROVE (queue \in Queues)'
  BY <1>9, <1>0, <1>p DEF process_hpd_low, Go, Pcs
<1>10. ASSUME NEW t \in {"hpd", "wq"}, dp_display_send_hpd_notification(t)
      PROVE (queue \in Queues)'
  BY <1>10, <1>0, <1>p DEF dp_display_send_hpd_notification, Go, Pcs
<1>11. ASSUME NEW t \in {"hpd", "wq"}, notification_wait(t) PROVE (queue \in Queues)'
  BY <1>11, <1>0, <1>p DEF notification_wait, Go, Pcs
<1>12. ASSUME NEW t \in {"hpd", "wq"}, process_hpd_low_off(t) PROVE (queue \in Queues)'
  BY <1>12, <1>0, <1>p DEF process_hpd_low_off, Go, Pcs
<1>13. ASSUME NEW t \in {"hpd", "wq"}, handle_disconnect(t) PROVE (queue \in Queues)'
  BY <1>13, <1>0, <1>p, QueueWork, Zenon DEF handle_disconnect
<1>14. CASE dp_display_connect_work
  BY <1>14, <1>0, <1>p, NextWork, Zenon DEF dp_display_connect_work
<1>15. CASE dp_display_attention_work
  BY <1>15, <1>0, <1>p, NextWork, QueueWork, Zenon DEF dp_display_attention_work
<1>16. CASE probe_succeeds
  BY <1>16, <1>0, <1>p DEF probe_succeeds, Go, Pcs
<1>17. CASE probe_no_display
  BY <1>17, <1>0, <1>p DEF probe_no_display, Go, ProbeFailed, Pcs
<1>18. CASE probe_fails
  BY <1>18, <1>0, <1>p DEF probe_fails, Go, Spend, ProbeFailed, Pcs, Lefts
<1>19. CASE process_hpd_high_tell
  BY <1>19, <1>0, <1>p DEF process_hpd_high_tell, Go, Pcs
<1>20. CASE process_hpd_high_wait
  BY <1>20, <1>0, <1>p DEF process_hpd_high_wait, Go, Pcs
<1>21. CASE dp_display_prepare
  BY <1>21, <1>0, <1>p DEF dp_display_prepare, Go, Pcs
<1>22. CASE dp_display_enable
  BY <1>22, <1>0, <1>p DEF dp_display_enable, Go, Pcs
<1>23. CASE dp_display_enable_fails
  BY <1>23, <1>0, <1>p DEF dp_display_enable_fails, Go, Spend, Pcs, Lefts
<1>24. CASE dp_display_post_enable
  BY <1>24, <1>0, <1>p DEF dp_display_post_enable, Go, Pcs
<1>25. CASE dp_display_disable
  BY <1>25, <1>0, <1>p DEF dp_display_disable, Go, Pcs
<1>26. CASE dp_display_unprepare
  BY <1>26, <1>0, <1>p DEF dp_display_unprepare, Go, Pcs
<1>27. CASE dp_pm_prepare
  BY <1>27, <1>0, <1>p DEF dp_pm_prepare, Spend, Lefts
<1>28. CASE dp_pm_complete
  BY <1>28, <1>0, <1>p DEF dp_pm_complete, Spend, Lefts
<1>29. CASE UNCHANGED vars
  BY <1>29, <1>0, <1>p DEF vars
<1>30. CASE phy_test_begins
  BY <1>30, <1>0, Zenon DEF phy_test_begins, Queues
<1>31. CASE phy_test_stream_off
  BY <1>31, <1>0, Zenon DEF phy_test_stream_off, Queues
<1>32. CASE phy_test_off
  BY <1>32, <1>0, Zenon DEF phy_test_off, Queues
<1>33. CASE phy_test_on
  BY <1>33, <1>0, Zenon DEF phy_test_on, Queues
<1> QED
  BY <1>1, <1>2, <1>3, <1>4, <1>5, <1>6, <1>7, <1>8, <1>9, <1>10, <1>11, <1>12, <1>13, <1>14,
     <1>15, <1>16, <1>17, <1>18, <1>19, <1>20, <1>21, <1>22, <1>23, <1>24, <1>25, <1>26,
     <1>27, <1>28, <1>29, <1>30, <1>31, <1>32, <1>33
     DEF Next, Detector, Works, HandleDisconnect, Finish, Quiet

\* A PHY test is paid for, and without one no part of it is anywhere.
LEMMA PhyTestedStep ==
    ASSUME IInv, [Next]_vars PROVE PhyTested' /\ (NoPhyTest' => NoPhyTest)
<1>0. /\ dp \in DpType /\ dp.active \in {0, 1} /\ dp.streams \in Nat /\ dp.dsc \in Nat
      /\ dp.active <= dp.dsc /\ pc \in Pcs
  BY Driver
<1>p. PhyTested /\ left \in Lefts /\ MaxPhyTests \in Nat
  BY DpConstants DEF IInv, Places
<1>1. CASE Plug
  BY <1>1, <1>0, <1>p
     DEF Plug, Spend, Interrupt, PhyTested, NoPhyTest, DpType, Disconnecting, Pcs, PhyTest,
         Lefts
<1>2. CASE SinkChange
  BY <1>2, <1>0, <1>p
     DEF SinkChange, Spend, Interrupt, PhyTested, NoPhyTest, DpType, Disconnecting, Pcs,
         PhyTest, Lefts
<1>3. CASE SinkAsks
  <2>1. dp' = dp /\ pc' = pc
    BY <1>3 DEF SinkAsks
  <2> QED
    BY <1>3, <1>p, <2>1, AskEffect DEF PhyTested
<1>4. CASE dp_gpio_hpd_work
  BY <1>4, <1>0, <1>p
     DEF dp_gpio_hpd_work, Go, PhyTested, NoPhyTest, DpType, Disconnecting, Pcs, PhyTest
<1>5. CASE dp_display_usbpd_configure_cb
  BY <1>5, <1>0, <1>p
     DEF dp_display_usbpd_configure_cb, Go, PhyTested, NoPhyTest, DpType, Disconnecting,
         dp_display_host_init, Pcs, PhyTest
<1>6. CASE disconnect_abort
  BY <1>6, <1>0, <1>p
     DEF disconnect_abort, Go, PhyTested, NoPhyTest, DpType, Disconnecting, Pcs, PhyTest
<1>7. CASE disconnect_flush
  BY <1>7, <1>0, <1>p
     DEF disconnect_flush, Go, PhyTested, NoPhyTest, DpType, Disconnecting, Pcs, PhyTest
<1>8. CASE disconnect_reset
  BY <1>8, <1>0, <1>p
     DEF disconnect_reset, Go, PhyTested, NoPhyTest, DpType, Disconnecting, Pcs, PhyTest
<1>9. ASSUME NEW t \in {"hpd", "wq"}, process_hpd_low(t)
      PROVE PhyTested' /\ (NoPhyTest' => NoPhyTest)
  BY <1>9, <1>0, <1>p
     DEF process_hpd_low, Go, PhyTested, NoPhyTest, DpType, Disconnecting, Pcs, PhyTest
<1>10. ASSUME NEW t \in {"hpd", "wq"}, dp_display_send_hpd_notification(t)
      PROVE PhyTested' /\ (NoPhyTest' => NoPhyTest)
  BY <1>10, <1>0, <1>p
     DEF dp_display_send_hpd_notification, Go, PhyTested, NoPhyTest, DpType, Disconnecting,
         Notified, Waits, Pcs, PhyTest
<1>11. ASSUME NEW t \in {"hpd", "wq"}, notification_wait(t)
      PROVE PhyTested' /\ (NoPhyTest' => NoPhyTest)
  BY <1>11, <1>0, <1>p
     DEF notification_wait, Go, PhyTested, NoPhyTest, DpType, Disconnecting, Pcs, PhyTest
<1>12. ASSUME NEW t \in {"hpd", "wq"}, process_hpd_low_off(t)
      PROVE PhyTested' /\ (NoPhyTest' => NoPhyTest)
  BY <1>12, <1>0, <1>p
     DEF process_hpd_low_off, Go, PhyTested, NoPhyTest, DpType, Disconnecting, dp_ctrl_off, Pcs,
         PhyTest
<1>13. ASSUME NEW t \in {"hpd", "wq"}, handle_disconnect(t)
      PROVE PhyTested' /\ (NoPhyTest' => NoPhyTest)
  <2>1. pc'.wq \in {pc.wq, "idle"} /\ left' = left /\ test' = test /\ dp'.phy = dp.phy
    BY <1>13, <1>0, HandleEffect DEF handle_disconnect, Go, Pcs
  <2> QED
    BY <1>p, <2>1 DEF PhyTested, NoPhyTest, PhyTest
<1>14. CASE dp_display_connect_work
  BY <1>14, <1>0, <1>p
     DEF dp_display_connect_work, Go, PhyTested, NoPhyTest, DpType, Disconnecting,
         dp_display_host_init, Pcs, PhyTest
<1>15. CASE dp_display_attention_work
  BY <1>15, <1>0, <1>p
     DEF dp_display_attention_work, Go, PhyTested, NoPhyTest, DpType, Disconnecting, Pcs,
         PhyTest
<1>16. CASE probe_succeeds
  BY <1>16, <1>0, <1>p
     DEF probe_succeeds, Go, PhyTested, NoPhyTest, DpType, Disconnecting, Pcs, PhyTest
<1>17. CASE probe_no_display
  BY <1>17, <1>0, <1>p
     DEF probe_no_display, Go, ProbeFailed, PhyTested, NoPhyTest, DpType, Disconnecting,
         Pcs, PhyTest
<1>18. CASE probe_fails
  BY <1>18, <1>0, <1>p
     DEF probe_fails, Go, Spend, ProbeFailed, PhyTested, NoPhyTest, DpType, Disconnecting,
         Pcs, PhyTest, Lefts
<1>19. CASE process_hpd_high_tell
  BY <1>19, <1>0, <1>p
     DEF process_hpd_high_tell, Go, PhyTested, NoPhyTest, DpType, Disconnecting, Notified,
         Waits, Pcs, PhyTest
<1>20. CASE process_hpd_high_wait
  BY <1>20, <1>0, <1>p
     DEF process_hpd_high_wait, Go, PhyTested, NoPhyTest, DpType, Disconnecting, Pcs, PhyTest
<1>21. CASE dp_display_prepare
  BY <1>21, <1>0, <1>p, PrepareEffect
     DEF dp_display_prepare, Go, SameFlags, PhyTested, NoPhyTest, Disconnecting, Pcs, PhyTest
<1>22. CASE dp_display_enable
  BY <1>22, <1>0, <1>p, EnableEffect
     DEF dp_display_enable, Go, SameFlags, PhyTested, NoPhyTest, Disconnecting, Pcs, PhyTest
<1>23. CASE dp_display_enable_fails
  BY <1>23, <1>0, <1>p
     DEF dp_display_enable_fails, Go, Spend, PhyTested, NoPhyTest, DpType, Disconnecting,
         Pcs, PhyTest, Lefts
<1>24. CASE dp_display_post_enable
  BY <1>24, <1>0, <1>p
     DEF dp_display_post_enable, Go, PhyTested, NoPhyTest, DpType, Disconnecting, Pcs, PhyTest
<1>25. CASE dp_display_disable
  BY <1>25, <1>0, <1>p, DisableEffect
     DEF dp_display_disable, Go, SameFlags, PhyTested, NoPhyTest, Disconnecting, Pcs, PhyTest
<1>26. CASE dp_display_unprepare
  BY <1>26, <1>0, <1>p, UnprepareEffect
     DEF dp_display_unprepare, Go, SameFlags, PhyTested, NoPhyTest, Disconnecting, Pcs, PhyTest
<1>27. CASE dp_pm_prepare
  BY <1>27, <1>0, <1>p
     DEF dp_pm_prepare, Spend, PhyTested, NoPhyTest, DpType, Disconnecting, Pcs, PhyTest, Lefts
<1>28. CASE dp_pm_complete
  BY <1>28, <1>0, <1>p
     DEF dp_pm_complete, Spend, PhyTested, NoPhyTest, DpType, Disconnecting, Pcs, PhyTest, Lefts
<1>29. CASE UNCHANGED vars
  BY <1>29, <1>0, <1>p DEF vars, PhyTested, NoPhyTest, DpType, Disconnecting, Pcs, PhyTest
<1>30. CASE phy_test_begins
  BY <1>30, <1>0, <1>p
     DEF phy_test_begins, Go, PhyTested, NoPhyTest, DpType, Disconnecting, Pcs, PhyTest
<1>31. CASE phy_test_stream_off
  BY <1>31, <1>0, <1>p
     DEF phy_test_stream_off, Go, PhyTested, NoPhyTest, DpType, Disconnecting, Pcs, PhyTest
<1>32. CASE phy_test_off
  BY <1>32, <1>0, <1>p
     DEF phy_test_off, Go, PhyTested, NoPhyTest, DpType, Disconnecting, dp_ctrl_off, Pcs,
         PhyTest
<1>33. CASE phy_test_on
  BY <1>33, <1>0, <1>p
     DEF phy_test_on, Go, PhyTested, NoPhyTest, DpType, Disconnecting, Spend, Lefts, Pcs,
         PhyTest
<1> QED
  BY <1>1, <1>2, <1>3, <1>4, <1>5, <1>6, <1>7, <1>8, <1>9, <1>10, <1>11, <1>12, <1>13, <1>14,
     <1>15, <1>16, <1>17, <1>18, <1>19, <1>20, <1>21, <1>22, <1>23, <1>24, <1>25, <1>26,
     <1>27, <1>28, <1>29, <1>30, <1>31, <1>32, <1>33
     DEF Next, Detector, Works, HandleDisconnect, Finish, Quiet

\* A step that neither commits nor sleeps, and lowers the counts if anything,
\* leaves the room for them alone.
LEMMA SameRoom ==
    ASSUME IInv, pc'.com = pc.com, dp'.suspended = dp.suspended, sleep' = sleep,
           left'.suspend = left.suspend, dp'.streams \in Nat, dp'.dsc \in Nat,
           NoPhyTest => dp'.streams <= dp.streams, dp'.dsc <= dp.dsc, NoPhyTest' => NoPhyTest
    PROVE  Counted'
<1>1. Room' = Room /\ Room \in Int
  BY Driver DEF Room, Relit
<1> QED
  BY <1>1, Driver DEF IInv, Counted

\* Each leak of a stream is one the commits or a suspend account for.
LEMMA CountedStep ==
    ASSUME IInv, [Next]_vars PROVE Counted'
<1>0. /\ dp \in DpType /\ dp.active \in {0, 1} /\ dp.streams \in Nat /\ dp.dsc \in Nat
      /\ MaxLeaks \in Nat /\ MaxSuspends \in Nat
      /\ pc \in Pcs /\ left \in Lefts /\ left.suspend \in 0 .. MaxSuspends
      /\ NoPhyTest' => NoPhyTest
  BY Driver, PhyTestedStep DEF IInv, Places, Lefts
<1>p. /\ Counted /\ (dp.suspended => left.suspend < MaxSuspends)
      /\ sleep \in {"no", "lit", "relit"} /\ (sleep # "no" => dp.suspended)
  BY DEF IInv, TypeOK, Places, Lefts
<1>1. CASE Plug
  <2>1. /\ pc'.com = pc.com /\ dp'.suspended = dp.suspended /\ sleep' = sleep
        /\ left'.suspend = left.suspend /\ dp'.streams = dp.streams /\ dp'.dsc = dp.dsc
    BY <1>1, <1>0 DEF Plug, Spend, Interrupt, DpType, Lefts
  <2> QED
    BY <1>0, <2>1, SameRoom
<1>2. CASE SinkChange
  <2>1. /\ pc'.com = pc.com /\ dp'.suspended = dp.suspended /\ sleep' = sleep
        /\ left'.suspend = left.suspend /\ dp'.streams = dp.streams /\ dp'.dsc = dp.dsc
    BY <1>2, <1>0 DEF SinkChange, Spend, Interrupt, DpType, Lefts
  <2> QED
    BY <1>0, <2>1, SameRoom
<1>3. CASE SinkAsks
  <2>1. /\ pc'.com = pc.com /\ dp'.suspended = dp.suspended /\ sleep' = sleep
        /\ left'.suspend = left.suspend /\ dp'.streams = dp.streams /\ dp'.dsc = dp.dsc
    BY <1>3, <1>0 DEF SinkAsks, Spend, Interrupt, DpType, Lefts
  <2> QED
    BY <1>0, <2>1, SameRoom
<1>4. CASE dp_gpio_hpd_work
  <2>1. /\ pc'.com = pc.com /\ dp'.suspended = dp.suspended /\ sleep' = sleep
        /\ left'.suspend = left.suspend /\ dp'.streams = dp.streams /\ dp'.dsc = dp.dsc
    BY <1>4, <1>0 DEF dp_gpio_hpd_work, Go, DpType, Pcs
  <2> QED
    BY <1>0, <2>1, SameRoom
<1>5. CASE dp_display_usbpd_configure_cb
  <2>1. /\ pc'.com = pc.com /\ dp'.suspended = dp.suspended /\ sleep' = sleep
        /\ left'.suspend = left.suspend /\ dp'.streams = dp.streams /\ dp'.dsc = dp.dsc
    BY <1>5, <1>0 DEF dp_display_usbpd_configure_cb, Go, DpType, dp_display_host_init, Pcs
  <2> QED
    BY <1>0, <2>1, SameRoom
<1>6. CASE disconnect_abort
  <2>1. /\ pc'.com = pc.com /\ dp'.suspended = dp.suspended /\ sleep' = sleep
        /\ left'.suspend = left.suspend /\ dp'.streams = dp.streams /\ dp'.dsc = dp.dsc
    BY <1>6, <1>0 DEF disconnect_abort, Go, DpType, Pcs
  <2> QED
    BY <1>0, <2>1, SameRoom
<1>7. CASE disconnect_flush
  <2>1. /\ pc'.com = pc.com /\ dp'.suspended = dp.suspended /\ sleep' = sleep
        /\ left'.suspend = left.suspend /\ dp'.streams = dp.streams /\ dp'.dsc = dp.dsc
    BY <1>7, <1>0 DEF disconnect_flush, Go, DpType, Pcs
  <2> QED
    BY <1>0, <2>1, SameRoom
<1>8. CASE disconnect_reset
  <2>1. /\ pc'.com = pc.com /\ dp'.suspended = dp.suspended /\ sleep' = sleep
        /\ left'.suspend = left.suspend /\ dp'.streams = dp.streams /\ dp'.dsc = dp.dsc
    BY <1>8, <1>0 DEF disconnect_reset, Go, DpType, Pcs
  <2> QED
    BY <1>0, <2>1, SameRoom
<1>9. ASSUME NEW t \in {"hpd", "wq"}, process_hpd_low(t) PROVE Counted'
  <2>1. /\ pc'.com = pc.com /\ dp'.suspended = dp.suspended /\ sleep' = sleep
        /\ left'.suspend = left.suspend /\ dp'.streams = dp.streams /\ dp'.dsc = dp.dsc
    BY <1>9, <1>0 DEF process_hpd_low, Go, DpType, Pcs
  <2> QED
    BY <1>0, <2>1, SameRoom
<1>10. ASSUME NEW t \in {"hpd", "wq"}, dp_display_send_hpd_notification(t) PROVE Counted'
  <2>1. /\ pc'.com = pc.com /\ dp'.suspended = dp.suspended /\ sleep' = sleep
        /\ left'.suspend = left.suspend /\ dp'.streams = dp.streams /\ dp'.dsc = dp.dsc
    BY <1>10, <1>0 DEF dp_display_send_hpd_notification, Go, DpType, Notified, Waits, Pcs
  <2> QED
    BY <1>0, <2>1, SameRoom
<1>11. ASSUME NEW t \in {"hpd", "wq"}, notification_wait(t) PROVE Counted'
  <2>1. /\ pc'.com = pc.com /\ dp'.suspended = dp.suspended /\ sleep' = sleep
        /\ left'.suspend = left.suspend /\ dp'.streams = dp.streams /\ dp'.dsc = dp.dsc
    BY <1>11, <1>0 DEF notification_wait, Go, DpType, Pcs
  <2> QED
    BY <1>0, <2>1, SameRoom
<1>12. ASSUME NEW t \in {"hpd", "wq"}, process_hpd_low_off(t) PROVE Counted'
  <2>1. /\ pc'.com = pc.com /\ dp'.suspended = dp.suspended /\ sleep' = sleep
        /\ left'.suspend = left.suspend /\ dp'.streams = dp.streams /\ dp'.dsc = dp.dsc
    BY <1>12, <1>0 DEF process_hpd_low_off, Go, DpType, dp_ctrl_off, Pcs
  <2> QED
    BY <1>0, <2>1, SameRoom
<1>13. ASSUME NEW t \in {"hpd", "wq"}, handle_disconnect(t) PROVE Counted'
  <2>1. pc'.com = pc.com /\ sleep' = sleep /\ left' = left
    BY <1>13, <1>0 DEF handle_disconnect, Go, Pcs
  <2>2. dp'.streams \in Nat /\ dp'.dsc \in Nat
    BY <1>13, HandleEffect, Naturals
  <2>3. /\ dp'.suspended = dp.suspended /\ left'.suspend = left.suspend
        /\ dp'.dsc <= dp.dsc /\ (NoPhyTest => dp'.streams <= dp.streams)
    BY <1>13, <1>0, <2>1, HandleEffect
  <2> QED
    BY <1>0, <2>1, <2>2, <2>3, SameRoom
<1>14. CASE dp_display_connect_work
  <2>1. /\ pc'.com = pc.com /\ dp'.suspended = dp.suspended /\ sleep' = sleep
        /\ left'.suspend = left.suspend /\ dp'.streams = dp.streams /\ dp'.dsc = dp.dsc
    BY <1>14, <1>0 DEF dp_display_connect_work, Go, DpType, dp_display_host_init, Pcs
  <2> QED
    BY <1>0, <2>1, SameRoom
<1>15. CASE dp_display_attention_work
  <2>1. /\ pc'.com = pc.com /\ dp'.suspended = dp.suspended /\ sleep' = sleep
        /\ left'.suspend = left.suspend /\ dp'.streams = dp.streams /\ dp'.dsc = dp.dsc
    BY <1>15, <1>0 DEF dp_display_attention_work, Go, DpType, Pcs
  <2> QED
    BY <1>0, <2>1, SameRoom
<1>16. CASE probe_succeeds
  <2>1. /\ pc'.com = pc.com /\ dp'.suspended = dp.suspended /\ sleep' = sleep
        /\ left'.suspend = left.suspend /\ dp'.streams = dp.streams /\ dp'.dsc = dp.dsc
    BY <1>16, <1>0 DEF probe_succeeds, Go, DpType, Pcs
  <2> QED
    BY <1>0, <2>1, SameRoom
<1>17. CASE probe_no_display
  <2>1. /\ pc'.com = pc.com /\ dp'.suspended = dp.suspended /\ sleep' = sleep
        /\ left'.suspend = left.suspend /\ dp'.streams = dp.streams /\ dp'.dsc = dp.dsc
    BY <1>17, <1>0 DEF probe_no_display, Go, ProbeFailed, DpType, Pcs
  <2> QED
    BY <1>0, <2>1, SameRoom
<1>18. CASE probe_fails
  <2>1. /\ pc'.com = pc.com /\ dp'.suspended = dp.suspended /\ sleep' = sleep
        /\ left'.suspend = left.suspend /\ dp'.streams = dp.streams /\ dp'.dsc = dp.dsc
    BY <1>18, ProbeFailsKeeps
  <2> QED
    BY <1>0, <2>1, SameRoom
<1>19. CASE process_hpd_high_tell
  <2>1. /\ pc'.com = pc.com /\ dp'.suspended = dp.suspended /\ sleep' = sleep
        /\ left'.suspend = left.suspend /\ dp'.streams = dp.streams /\ dp'.dsc = dp.dsc
    BY <1>19, <1>0 DEF process_hpd_high_tell, Go, DpType, Notified, Waits, Pcs
  <2> QED
    BY <1>0, <2>1, SameRoom
<1>20. CASE process_hpd_high_wait
  <2>1. /\ pc'.com = pc.com /\ dp'.suspended = dp.suspended /\ sleep' = sleep
        /\ left'.suspend = left.suspend /\ dp'.streams = dp.streams /\ dp'.dsc = dp.dsc
    BY <1>20, <1>0 DEF process_hpd_high_wait, Go, DpType, Pcs
  <2> QED
    BY <1>0, <2>1, SameRoom
<1>21. CASE dp_display_prepare
  <2>1. /\ pc.com = "off" /\ pc'.com = "prepared" /\ left' = left
        /\ dp'.suspended = dp.suspended /\ dp'.streams = dp.streams /\ dp'.dsc = dp.dsc
    BY <1>21, <1>0, PrepareEffect DEF dp_display_prepare, Go, SameFlags, Pcs
  <2>2. CASE dp.suspended
    <3>1. sleep = "lit" /\ sleep' = "relit"
      BY <1>21, <2>2 DEF dp_display_prepare
    <3>2. Room' = Room /\ Room \in Int
      BY <1>0, <2>1, <2>2, <3>1 DEF Room, Relit
    <3> QED
      BY <1>0, <1>p, <2>1, <3>2 DEF Counted
  <2>3. CASE ~dp.suspended
    <3>1. (NoPhyTest => dp.streams <= MaxLeaks) /\ dp.dsc <= MaxLeaks
      BY <1>21, <2>3 DEF dp_display_prepare
    <3>2. Room' >= MaxLeaks /\ Room' \in Int
      BY <1>0, <2>1, <2>3 DEF Room, Relit
    <3> QED
      BY <1>0, <2>1, <3>1, <3>2 DEF Counted
  <2> QED
    BY <2>2, <2>3
<1>22. CASE dp_display_enable
  <2>1. /\ pc.com = "prepared" /\ pc'.com = "enabled" /\ left' = left /\ sleep' = sleep
        /\ dp'.suspended = dp.suspended
    BY <1>22, <1>0, EnableEffect DEF dp_display_enable, Go, SameFlags, Pcs
  <2>2. Room' = Room + 1 /\ Room \in Int
    BY <1>0, <2>1 DEF Room, Relit
  <2>3. dp'.streams \in Nat /\ dp'.dsc \in Nat
    BY <1>22, EnableEffect, Naturals
  <2> QED
    BY <1>22, <1>0, <1>p, <2>2, <2>3, EnableEffect DEF Counted
<1>23. CASE dp_display_enable_fails
  <2>1. /\ pc.com = "prepared" /\ pc'.com = "undo" /\ left'.suspend = left.suspend
        /\ sleep' = sleep /\ dp' = dp
    BY <1>23, <1>0 DEF dp_display_enable_fails, Go, Spend, Pcs, Lefts
  <2>2. Room' = Room
    BY <1>0, <2>1 DEF Room, Relit
  <2> QED
    BY <1>0, <1>p, <2>1, <2>2 DEF Counted
<1>24. CASE dp_display_post_enable
  <2>1. /\ pc.com = "enabled" /\ pc'.com = "on" /\ left' = left /\ sleep' = sleep
        /\ dp'.suspended = dp.suspended /\ dp'.streams = dp.streams /\ dp'.dsc = dp.dsc
    BY <1>24, <1>0 DEF dp_display_post_enable, Go, DpType, Pcs
  <2>2. Room' = Room
    BY <1>0, <2>1 DEF Room, Relit
  <2> QED
    BY <1>0, <1>p, <2>1, <2>2 DEF Counted
<1>25. CASE dp_display_disable
  <2>1. /\ pc.com = "on" /\ pc'.com = "disabled" /\ left' = left
        /\ sleep = "no" /\ sleep' \in {"no", "lit"} /\ dp'.suspended = dp.suspended
    BY <1>25, <1>0, DisableEffect DEF dp_display_disable, Go, SameFlags, Pcs
  <2>2. Room' = Room /\ Room \in Int
    BY <1>0, <2>1 DEF Room, Relit
  <2>3. dp'.streams \in Nat /\ dp'.dsc \in Nat
    BY <1>25, DisableEffect, Naturals
  <2> QED
    BY <1>25, <1>0, <1>p, <2>2, <2>3, DisableEffect DEF Counted
<1>26. CASE dp_display_unprepare
  <2>1. /\ \/ pc.com = "disabled" /\ pc'.com = "off"
           \/ pc.com = "undo" /\ pc'.com = "enabled"
        /\ left' = left /\ sleep' = sleep /\ dp'.suspended = dp.suspended
        /\ dp'.streams = dp.streams /\ dp'.dsc = dp.dsc
    BY <1>26, <1>0, UnprepareEffect DEF dp_display_unprepare, Go, SameFlags, Pcs
  <2>2. Room' >= Room /\ Room \in Int /\ Room' \in Int
    BY <1>0, <2>1 DEF Room, Relit
  <2> QED
    BY <1>0, <1>p, <2>1, <2>2 DEF Counted
<1>27. CASE dp_pm_prepare
  <2>1. /\ ~dp.suspended /\ sleep = "no" /\ left'.suspend = left.suspend - 1
        /\ pc' = pc /\ sleep' = sleep
        /\ dp'.suspended /\ dp'.streams = dp.streams /\ dp'.dsc = dp.dsc
    BY <1>27, <1>0, <1>p DEF dp_pm_prepare, Spend, DpType, Lefts
  <2>2. Room' = Room
    BY <1>0, <2>1 DEF Room, Relit
  <2> QED
    BY <1>0, <1>p, <2>1, <2>2 DEF Counted
<1>28. CASE dp_pm_complete
  <2>1. /\ ~dp'.suspended /\ pc' = pc /\ left' = left
        /\ dp'.streams = dp.streams /\ dp'.dsc = dp.dsc
    BY <1>28, <1>0 DEF dp_pm_complete, DpType
  <2>2. Room' >= Room /\ Room \in Int /\ Room' \in Int
    BY <1>0, <2>1 DEF Room, Relit
  <2> QED
    BY <1>0, <1>p, <2>1, <2>2 DEF Counted
<1>29. CASE UNCHANGED vars
  BY <1>29, <1>0, <1>p DEF vars, Counted, Room, Relit
<1>30. CASE phy_test_begins
  <2>1. /\ pc'.com = pc.com /\ dp'.suspended = dp.suspended /\ sleep' = sleep
        /\ left'.suspend = left.suspend /\ dp'.streams = dp.streams /\ dp'.dsc = dp.dsc
    BY <1>30, <1>0 DEF phy_test_begins, Go, DpType, Pcs
  <2> QED
    BY <1>0, <2>1, SameRoom
<1>31. CASE phy_test_stream_off
  <2>1. PICK n \in Unsigned : dp' = [dp EXCEPT !.streams = n]
    BY <1>31, StreamOffEffect
  <2>2. ~NoPhyTest
    BY <1>31 DEF phy_test_stream_off, IInv, PhyTested, PhyTest
  <2>3. /\ pc'.com = pc.com /\ sleep' = sleep /\ left' = left
        /\ dp'.suspended = dp.suspended /\ dp'.dsc = dp.dsc /\ dp'.streams = n
    BY <1>31, <1>0, <2>1 DEF phy_test_stream_off, Go, Pcs, DpType
  <2>4. dp'.streams \in Nat
    BY <2>3, DpConstants DEF Unsigned
  <2> QED
    BY <1>0, <2>2, <2>3, <2>4, SameRoom
<1>32. CASE phy_test_off
  <2>1. /\ pc'.com = pc.com /\ dp'.suspended = dp.suspended /\ sleep' = sleep
        /\ left'.suspend = left.suspend /\ dp'.streams = dp.streams /\ dp'.dsc = dp.dsc
    BY <1>32, <1>0 DEF phy_test_off, Go, DpType, dp_ctrl_off, Pcs
  <2> QED
    BY <1>0, <2>1, SameRoom
<1>33. CASE phy_test_on
  <2>1. /\ pc'.com = pc.com /\ dp'.suspended = dp.suspended /\ sleep' = sleep
        /\ left'.suspend = left.suspend /\ dp'.streams = dp.streams /\ dp'.dsc = dp.dsc
    BY <1>33, <1>0 DEF phy_test_on, Go, DpType, Spend, Lefts, Pcs
  <2> QED
    BY <1>0, <2>1, SameRoom
<1> QED
  BY <1>1, <1>2, <1>3, <1>4, <1>5, <1>6, <1>7, <1>8, <1>9, <1>10, <1>11, <1>12, <1>13, <1>14,
     <1>15, <1>16, <1>17, <1>18, <1>19, <1>20, <1>21, <1>22, <1>23, <1>24, <1>25, <1>26,
     <1>27, <1>28, <1>29, <1>30, <1>31, <1>32, <1>33
     DEF Next, Detector, Works, HandleDisconnect, Finish, Quiet

\* The counts cover the active stream.
LEMMA CoverStep ==
    ASSUME IInv, [Next]_vars PROVE CountsCover'
<1>0. /\ dp \in DpType /\ CountsCover /\ dp.active \in {0, 1} /\ dp.streams \in Nat /\ dp.dsc \in Nat
      /\ MaxLeaks \in Nat /\ MaxSuspends \in Nat
      /\ pc \in Pcs /\ left \in Lefts /\ left.suspend \in 0 .. MaxSuspends
      /\ NoPhyTest' => NoPhyTest
  BY Driver, PhyTestedStep DEF IInv, Places, Lefts
<1>1. CASE Plug
  BY <1>1, <1>0 DEF Plug, Spend, Interrupt, DpType, CountsCover, Lefts
<1>2. CASE SinkChange
  BY <1>2, <1>0 DEF SinkChange, Spend, Interrupt, DpType, CountsCover, Lefts
<1>3. CASE SinkAsks
  BY <1>3, <1>0 DEF SinkAsks, Spend, Interrupt, DpType, CountsCover, Lefts
<1>4. CASE dp_gpio_hpd_work
  BY <1>4, <1>0 DEF dp_gpio_hpd_work, Go, DpType, CountsCover, Pcs
<1>5. CASE dp_display_usbpd_configure_cb
  BY <1>5, <1>0
     DEF dp_display_usbpd_configure_cb, Go, DpType, CountsCover, dp_display_host_init, Pcs
<1>6. CASE disconnect_abort
  BY <1>6, <1>0 DEF disconnect_abort, Go, DpType, CountsCover, Pcs
<1>7. CASE disconnect_flush
  BY <1>7, <1>0 DEF disconnect_flush, Go, DpType, CountsCover, Pcs
<1>8. CASE disconnect_reset
  BY <1>8, <1>0 DEF disconnect_reset, Go, DpType, CountsCover, Pcs
<1>9. ASSUME NEW t \in {"hpd", "wq"}, process_hpd_low(t) PROVE CountsCover'
  BY <1>9, <1>0 DEF process_hpd_low, Go, DpType, CountsCover, Pcs
<1>10. ASSUME NEW t \in {"hpd", "wq"}, dp_display_send_hpd_notification(t) PROVE CountsCover'
  BY <1>10, <1>0
     DEF dp_display_send_hpd_notification, Go, DpType, CountsCover, Notified, Waits, Pcs
<1>11. ASSUME NEW t \in {"hpd", "wq"}, notification_wait(t) PROVE CountsCover'
  BY <1>11, <1>0 DEF notification_wait, Go, DpType, CountsCover, Pcs
<1>12. ASSUME NEW t \in {"hpd", "wq"}, process_hpd_low_off(t) PROVE CountsCover'
  BY <1>12, <1>0 DEF process_hpd_low_off, Go, DpType, CountsCover, dp_ctrl_off, Pcs
<1>13. ASSUME NEW t \in {"hpd", "wq"}, handle_disconnect(t) PROVE CountsCover'
  <2>1. dp'.streams \in Nat /\ dp'.dsc \in Nat
    BY <1>13, HandleEffect, Naturals
  <2> QED
    BY <1>13, <1>0, <2>1, HandleEffect DEF CountsCover
<1>14. CASE dp_display_connect_work
  BY <1>14, <1>0 DEF dp_display_connect_work, Go, DpType, CountsCover, dp_display_host_init, Pcs
<1>15. CASE dp_display_attention_work
  BY <1>15, <1>0 DEF dp_display_attention_work, Go, DpType, CountsCover, Pcs
<1>16. CASE probe_succeeds
  BY <1>16, <1>0 DEF probe_succeeds, Go, DpType, CountsCover, Pcs
<1>17. CASE probe_no_display
  BY <1>17, <1>0 DEF probe_no_display, Go, ProbeFailed, DpType, CountsCover, Pcs
<1>18. CASE probe_fails
  BY <1>18, <1>0, ProbeFailsKeeps DEF CountsCover
<1>19. CASE process_hpd_high_tell
  BY <1>19, <1>0 DEF process_hpd_high_tell, Go, DpType, CountsCover, Notified, Waits, Pcs
<1>20. CASE process_hpd_high_wait
  BY <1>20, <1>0 DEF process_hpd_high_wait, Go, DpType, CountsCover, Pcs
<1>21. CASE dp_display_prepare
  <2>1. dp'.streams \in Nat /\ dp'.dsc \in Nat
    BY <1>21, PrepareEffect, Naturals
  <2> QED
    BY <1>21, <1>0, <2>1, PrepareEffect DEF CountsCover
<1>22. CASE dp_display_enable
  <2>1. dp'.streams \in Nat /\ dp'.dsc \in Nat
    BY <1>22, EnableEffect, Naturals
  <2> QED
    BY <1>22, <1>0, <2>1, EnableEffect DEF CountsCover
<1>23. CASE dp_display_enable_fails
  BY <1>23, <1>0 DEF dp_display_enable_fails, Go, Spend, DpType, CountsCover, Pcs, Lefts
<1>24. CASE dp_display_post_enable
  BY <1>24, <1>0 DEF dp_display_post_enable, Go, DpType, CountsCover, Pcs
<1>25. CASE dp_display_disable
  <2>1. dp'.streams \in Nat /\ dp'.dsc \in Nat
    BY <1>25, DisableEffect, Naturals
  <2> QED
    BY <1>25, <1>0, <2>1, DisableEffect DEF CountsCover
<1>26. CASE dp_display_unprepare
  <2>1. dp'.streams \in Nat /\ dp'.dsc \in Nat
    BY <1>26, UnprepareEffect, Naturals
  <2> QED
    BY <1>26, <1>0, <2>1, UnprepareEffect DEF CountsCover
<1>27. CASE dp_pm_prepare
  BY <1>27, <1>0 DEF dp_pm_prepare, Spend, DpType, CountsCover, Lefts
<1>28. CASE dp_pm_complete
  BY <1>28, <1>0 DEF dp_pm_complete, Spend, DpType, CountsCover, Lefts
<1>29. CASE UNCHANGED vars
  BY <1>29, <1>0 DEF vars, DpType, CountsCover
<1>30. CASE phy_test_begins
  BY <1>30, <1>0 DEF phy_test_begins, Go, DpType, CountsCover, Pcs
<1>31. CASE phy_test_stream_off
  <2>1. PICK n \in Unsigned : dp' = [dp EXCEPT !.streams = n]
    BY <1>31, StreamOffEffect
  <2>2. ~NoPhyTest
    BY <1>31 DEF phy_test_stream_off, IInv, PhyTested, PhyTest
  <2> QED
    BY <1>0, <2>1, <2>2 DEF DpType, CountsCover
<1>32. CASE phy_test_off
  BY <1>32, <1>0 DEF phy_test_off, Go, DpType, CountsCover, dp_ctrl_off, Pcs
<1>33. CASE phy_test_on
  BY <1>33, <1>0 DEF phy_test_on, Go, DpType, CountsCover, Spend, Lefts, Pcs
<1> QED
  BY <1>1, <1>2, <1>3, <1>4, <1>5, <1>6, <1>7, <1>8, <1>9, <1>10, <1>11, <1>12, <1>13, <1>14,
     <1>15, <1>16, <1>17, <1>18, <1>19, <1>20, <1>21, <1>22, <1>23, <1>24, <1>25, <1>26,
     <1>27, <1>28, <1>29, <1>30, <1>31, <1>32, <1>33
     DEF Next, Detector, Works, HandleDisconnect, Finish, Quiet

\* the environment and the detector
Outside ==
    /\ cable \in BOOLEAN /\ sink \in BOOLEAN /\ again \in BOOLEAN /\ failed \in BOOLEAN
    /\ test \in {"none", "video", "phy"} /\ seen \in Unsigned
    /\ hpd \in [edge : {"none", "rising", "falling"}, work : BOOLEAN, high : BOOLEAN]

\* The cable, the sink and the detector keep their types.
LEMMA OutsideStep ==
    ASSUME IInv, [Next]_vars PROVE Outside'
<1>0. Outside
  BY DEF IInv, TypeOK, Outside, Unsigned
<1>1. CASE Plug
  BY <1>1, <1>0 DEF Plug, Spend, Interrupt, Outside, Lefts
<1>2. CASE SinkChange
  BY <1>2, <1>0 DEF SinkChange, Spend, Interrupt, Outside, Lefts
<1>3. CASE SinkAsks
  BY <1>3, <1>0 DEF SinkAsks, Spend, Interrupt, Outside, Lefts
<1>4. CASE dp_gpio_hpd_work
  <2>1. /\ cable' = cable /\ sink' = sink /\ test' = test /\ again' = again
        /\ seen' = seen /\ (failed' = failed \/ failed' = FALSE)
    BY <1>4 DEF dp_gpio_hpd_work
  <2>2. \/ hpd' = [edge |-> "falling", work |-> FALSE, high |-> TRUE]
        \/ hpd' = [hpd EXCEPT !.edge = "rising", !.work = FALSE]
        \/ hpd' = [hpd EXCEPT !.work = FALSE]
        \/ hpd' = [edge |-> "rising", work |-> FALSE, high |-> FALSE]
    BY <1>4 DEF dp_gpio_hpd_work
  <2>3. hpd' \in [edge : {"none", "rising", "falling"}, work : BOOLEAN, high : BOOLEAN]
    <3>1. CASE hpd' = [edge |-> "falling", work |-> FALSE, high |-> TRUE]
      BY <1>0, <3>1 DEF Outside
    <3>2. CASE hpd' = [hpd EXCEPT !.edge = "rising", !.work = FALSE]
      BY <1>0, <3>2 DEF Outside
    <3>3. CASE hpd' = [hpd EXCEPT !.work = FALSE]
      BY <1>0, <3>3 DEF Outside
    <3>4. CASE hpd' = [edge |-> "rising", work |-> FALSE, high |-> FALSE]
      BY <1>0, <3>4 DEF Outside
    <3> QED
      BY <2>2, <3>1, <3>2, <3>3, <3>4
  <2> QED
    BY <1>0, <2>1, <2>3 DEF Outside
<1>5. CASE dp_display_usbpd_configure_cb
  BY <1>5, <1>0 DEF dp_display_usbpd_configure_cb, Go, Outside, Pcs
<1>6. CASE disconnect_abort
  BY <1>6, <1>0 DEF disconnect_abort, Go, Outside, Pcs
<1>7. CASE disconnect_flush
  BY <1>7, <1>0 DEF disconnect_flush, Go, Outside, Pcs
<1>8. CASE disconnect_reset
  BY <1>8, <1>0 DEF disconnect_reset, Go, Outside, Pcs
<1>9. ASSUME NEW t \in {"hpd", "wq"}, process_hpd_low(t) PROVE Outside'
  BY <1>9, <1>0 DEF process_hpd_low, Go, Outside, Pcs
<1>10. ASSUME NEW t \in {"hpd", "wq"}, dp_display_send_hpd_notification(t) PROVE Outside'
  BY <1>10, <1>0 DEF dp_display_send_hpd_notification, Go, Outside, Pcs
<1>11. ASSUME NEW t \in {"hpd", "wq"}, notification_wait(t) PROVE Outside'
  BY <1>11, <1>0 DEF notification_wait, Go, Outside, Pcs
<1>12. ASSUME NEW t \in {"hpd", "wq"}, process_hpd_low_off(t) PROVE Outside'
  BY <1>12, <1>0 DEF process_hpd_low_off, Go, Outside, Pcs
<1>13. ASSUME NEW t \in {"hpd", "wq"}, handle_disconnect(t) PROVE Outside'
  BY <1>13, <1>0 DEF handle_disconnect, Go, Outside, Pcs
<1>14. CASE dp_display_connect_work
  BY <1>14, <1>0 DEF dp_display_connect_work, Go, Outside, Pcs
<1>15. CASE dp_display_attention_work
  BY <1>15, <1>0 DEF dp_display_attention_work, Go, Outside, Pcs
<1>16. CASE probe_succeeds
  BY <1>16, <1>0 DEF probe_succeeds, Go, Outside, Pcs
<1>17. CASE probe_no_display
  BY <1>17, <1>0 DEF probe_no_display, Go, ProbeFailed, Outside, Pcs
<1>18. CASE probe_fails
  BY <1>18, <1>0 DEF probe_fails, Go, Spend, ProbeFailed, Outside, Pcs, Lefts
<1>19. CASE process_hpd_high_tell
  BY <1>19, <1>0 DEF process_hpd_high_tell, Go, Outside, Pcs
<1>20. CASE process_hpd_high_wait
  BY <1>20, <1>0 DEF process_hpd_high_wait, Go, Outside, Pcs
<1>21. CASE dp_display_prepare
  BY <1>21, <1>0 DEF dp_display_prepare, Go, Outside, Pcs
<1>22. CASE dp_display_enable
  BY <1>22, <1>0 DEF dp_display_enable, Go, Outside, Pcs
<1>23. CASE dp_display_enable_fails
  BY <1>23, <1>0 DEF dp_display_enable_fails, Go, Spend, Outside, Pcs, Lefts
<1>24. CASE dp_display_post_enable
  BY <1>24, <1>0 DEF dp_display_post_enable, Go, Outside, Pcs
<1>25. CASE dp_display_disable
  BY <1>25, <1>0 DEF dp_display_disable, Go, Outside, Pcs
<1>26. CASE dp_display_unprepare
  BY <1>26, <1>0 DEF dp_display_unprepare, Go, Outside, Pcs
<1>27. CASE dp_pm_prepare
  BY <1>27, <1>0 DEF dp_pm_prepare, Spend, Outside, Lefts
<1>28. CASE dp_pm_complete
  BY <1>28, <1>0 DEF dp_pm_complete, Spend, Outside, Lefts
<1>29. CASE UNCHANGED vars
  BY <1>29, <1>0 DEF vars, Outside
<1>30. CASE phy_test_begins
  <2>1. dp.streams \in Unsigned
    BY Driver DEF DpType
  <2>2. seen' \in Unsigned
    BY <1>30, <1>0, <2>1 DEF phy_test_begins, Outside
  <2> QED
    BY <1>30, <1>0, <2>2 DEF phy_test_begins, Outside
<1>31. CASE phy_test_stream_off
  <2>1. 0 \in Unsigned
    BY DpConstants DEF Unsigned
  <2> QED
    BY <1>31, <1>0, <2>1 DEF phy_test_stream_off, Outside
<1>32. CASE phy_test_off
  BY <1>32, <1>0 DEF phy_test_off, Go, Outside, dp_ctrl_off, Pcs
<1>33. CASE phy_test_on
  BY <1>33, <1>0 DEF phy_test_on, Go, Outside, Spend, Lefts, Pcs
<1> QED
  BY <1>1, <1>2, <1>3, <1>4, <1>5, <1>6, <1>7, <1>8, <1>9, <1>10, <1>11, <1>12, <1>13, <1>14,
     <1>15, <1>16, <1>17, <1>18, <1>19, <1>20, <1>21, <1>22, <1>23, <1>24, <1>25, <1>26,
     <1>27, <1>28, <1>29, <1>30, <1>31, <1>32, <1>33
     DEF Next, Detector, Works, HandleDisconnect, Finish, Quiet

\* Only a suspended driver has put its display out.
LEMMA SleepStep ==
    ASSUME IInv, [Next]_vars
    PROVE (sleep \in {"no", "lit", "relit"} /\ (sleep # "no" => dp.suspended))'
<1>0. sleep \in {"no", "lit", "relit"} /\ (sleep # "no" => dp.suspended) /\ dp \in DpType
  BY Driver DEF IInv, TypeOK
<1>1. CASE Plug
  BY <1>1, <1>0 DEF Plug, Spend, Interrupt, DpType, Lefts
<1>2. CASE SinkChange
  BY <1>2, <1>0 DEF SinkChange, Spend, Interrupt, DpType, Lefts
<1>3. CASE SinkAsks
  BY <1>3, <1>0 DEF SinkAsks, Spend, Interrupt, DpType, Lefts
<1>4. CASE dp_gpio_hpd_work
  BY <1>4, <1>0 DEF dp_gpio_hpd_work, Go, DpType, Pcs
<1>5. CASE dp_display_usbpd_configure_cb
  BY <1>5, <1>0 DEF dp_display_usbpd_configure_cb, Go, DpType, dp_display_host_init, Pcs
<1>6. CASE disconnect_abort
  BY <1>6, <1>0 DEF disconnect_abort, Go, DpType, Pcs
<1>7. CASE disconnect_flush
  BY <1>7, <1>0 DEF disconnect_flush, Go, DpType, Pcs
<1>8. CASE disconnect_reset
  BY <1>8, <1>0 DEF disconnect_reset, Go, DpType, Pcs
<1>9. ASSUME NEW t \in {"hpd", "wq"}, process_hpd_low(t)
      PROVE (sleep \in {"no", "lit", "relit"} /\ (sleep # "no" => dp.suspended))'
  BY <1>9, <1>0 DEF process_hpd_low, Go, DpType, Pcs
<1>10. ASSUME NEW t \in {"hpd", "wq"}, dp_display_send_hpd_notification(t)
      PROVE (sleep \in {"no", "lit", "relit"} /\ (sleep # "no" => dp.suspended))'
  BY <1>10, <1>0 DEF dp_display_send_hpd_notification, Go, DpType, Notified, Waits, Pcs
<1>11. ASSUME NEW t \in {"hpd", "wq"}, notification_wait(t)
      PROVE (sleep \in {"no", "lit", "relit"} /\ (sleep # "no" => dp.suspended))'
  BY <1>11, <1>0 DEF notification_wait, Go, DpType, Pcs
<1>12. ASSUME NEW t \in {"hpd", "wq"}, process_hpd_low_off(t)
      PROVE (sleep \in {"no", "lit", "relit"} /\ (sleep # "no" => dp.suspended))'
  BY <1>12, <1>0 DEF process_hpd_low_off, Go, DpType, dp_ctrl_off, Pcs
<1>13. ASSUME NEW t \in {"hpd", "wq"}, handle_disconnect(t)
      PROVE (sleep \in {"no", "lit", "relit"} /\ (sleep # "no" => dp.suspended))'
  BY <1>13, <1>0, HandleEffect DEF handle_disconnect, SameFlags
<1>14. CASE dp_display_connect_work
  BY <1>14, <1>0 DEF dp_display_connect_work, Go, DpType, dp_display_host_init, Pcs
<1>15. CASE dp_display_attention_work
  BY <1>15, <1>0 DEF dp_display_attention_work, Go, DpType, Pcs
<1>16. CASE probe_succeeds
  BY <1>16, <1>0 DEF probe_succeeds, Go, DpType, Pcs
<1>17. CASE probe_no_display
  BY <1>17, <1>0 DEF probe_no_display, Go, ProbeFailed, DpType, Pcs
<1>18. CASE probe_fails
  BY <1>18, <1>0, ProbeFailsKeeps
<1>19. CASE process_hpd_high_tell
  BY <1>19, <1>0 DEF process_hpd_high_tell, Go, DpType, Notified, Waits, Pcs
<1>20. CASE process_hpd_high_wait
  BY <1>20, <1>0 DEF process_hpd_high_wait, Go, DpType, Pcs
<1>21. CASE dp_display_prepare
  BY <1>21, <1>0, PrepareEffect DEF dp_display_prepare, SameFlags
<1>22. CASE dp_display_enable
  BY <1>22, <1>0, EnableEffect DEF dp_display_enable, SameFlags
<1>23. CASE dp_display_enable_fails
  BY <1>23, <1>0 DEF dp_display_enable_fails, Go, Spend, DpType, Pcs, Lefts
<1>24. CASE dp_display_post_enable
  BY <1>24, <1>0 DEF dp_display_post_enable, Go, DpType, Pcs
<1>25. CASE dp_display_disable
  BY <1>25, <1>0, DisableEffect DEF dp_display_disable, SameFlags
<1>26. CASE dp_display_unprepare
  BY <1>26, <1>0, UnprepareEffect DEF dp_display_unprepare, SameFlags
<1>27. CASE dp_pm_prepare
  BY <1>27, <1>0 DEF dp_pm_prepare, Spend, DpType, Lefts
<1>28. CASE dp_pm_complete
  BY <1>28, <1>0 DEF dp_pm_complete, Spend, DpType, Lefts
<1>29. CASE UNCHANGED vars
  BY <1>29, <1>0 DEF vars, DpType
<1>30. CASE phy_test_begins
  BY <1>30, <1>0 DEF phy_test_begins, Go, DpType, Pcs
<1>31. CASE phy_test_stream_off
  BY <1>31, <1>0 DEF phy_test_stream_off, Go, DpType, Pcs
<1>32. CASE phy_test_off
  BY <1>32, <1>0 DEF phy_test_off, Go, DpType, dp_ctrl_off, Pcs
<1>33. CASE phy_test_on
  BY <1>33, <1>0 DEF phy_test_on, Go, DpType, Spend, Lefts, Pcs
<1> QED
  BY <1>1, <1>2, <1>3, <1>4, <1>5, <1>6, <1>7, <1>8, <1>9, <1>10, <1>11, <1>12, <1>13, <1>14,
     <1>15, <1>16, <1>17, <1>18, <1>19, <1>20, <1>21, <1>22, <1>23, <1>24, <1>25, <1>26,
     <1>27, <1>28, <1>29, <1>30, <1>31, <1>32, <1>33
     DEF Next, Detector, Works, HandleDisconnect, Finish, Quiet

\* Two threads never disconnect at the same time: the detector's disconnect flushes
\* the display's works, and none that begins after it gets past the abort flag.
LEMMA ExclusiveStep ==
    ASSUME IInv, [Next]_vars PROVE (pc.hpd \in Disconnecting => pc.wq = "idle")'
<1>0. /\ dp \in DpType /\ dp.active \in {0, 1} /\ dp.streams \in Nat /\ dp.dsc \in Nat
      /\ dp.active <= dp.dsc /\ pc \in Pcs
  BY Driver
<1>p. Aborting /\ (pc.hpd \in Disconnecting => pc.wq = "idle")
  BY DEF IInv, TypeOK
<1>1. CASE Plug
  BY <1>1, <1>0, <1>p DEF Plug, Spend, Interrupt, Disconnecting, Aborting, Pcs, PhyTest, Lefts
<1>2. CASE SinkChange
  BY <1>2, <1>0, <1>p
     DEF SinkChange, Spend, Interrupt, Disconnecting, Aborting, Pcs, PhyTest, Lefts
<1>3. CASE SinkAsks
  BY <1>3, <1>0, <1>p
     DEF SinkAsks, Spend, Interrupt, Disconnecting, Aborting, Pcs, PhyTest, Lefts
<1>4. CASE dp_gpio_hpd_work
  BY <1>4, <1>0, <1>p DEF dp_gpio_hpd_work, Go, Disconnecting, Aborting, Pcs, PhyTest
<1>5. CASE dp_display_usbpd_configure_cb
  BY <1>5, <1>0, <1>p
     DEF dp_display_usbpd_configure_cb, Go, Disconnecting, Aborting, Pcs, PhyTest
<1>6. CASE disconnect_abort
  BY <1>6, <1>0, <1>p DEF disconnect_abort, Go, Disconnecting, Aborting, Pcs, PhyTest
<1>7. CASE disconnect_flush
  BY <1>7, <1>0, <1>p DEF disconnect_flush, Go, Disconnecting, Aborting, Pcs, PhyTest
<1>8. CASE disconnect_reset
  BY <1>8, <1>0, <1>p DEF disconnect_reset, Go, Disconnecting, Aborting, Pcs, PhyTest
<1>9. ASSUME NEW t \in {"hpd", "wq"}, process_hpd_low(t)
      PROVE (pc.hpd \in Disconnecting => pc.wq = "idle")'
  BY <1>9, <1>0, <1>p DEF process_hpd_low, Go, Disconnecting, Aborting, Pcs, PhyTest
<1>10. ASSUME NEW t \in {"hpd", "wq"}, dp_display_send_hpd_notification(t)
      PROVE (pc.hpd \in Disconnecting => pc.wq = "idle")'
  BY <1>10, <1>0, <1>p
     DEF dp_display_send_hpd_notification, Go, Disconnecting, Aborting, Pcs, PhyTest
<1>11. ASSUME NEW t \in {"hpd", "wq"}, notification_wait(t)
      PROVE (pc.hpd \in Disconnecting => pc.wq = "idle")'
  BY <1>11, <1>0, <1>p DEF notification_wait, Go, Disconnecting, Aborting, Pcs, PhyTest
<1>12. ASSUME NEW t \in {"hpd", "wq"}, process_hpd_low_off(t)
      PROVE (pc.hpd \in Disconnecting => pc.wq = "idle")'
  BY <1>12, <1>0, <1>p DEF process_hpd_low_off, Go, Disconnecting, Aborting, Pcs, PhyTest
<1>13. ASSUME NEW t \in {"hpd", "wq"}, handle_disconnect(t)
      PROVE (pc.hpd \in Disconnecting => pc.wq = "idle")'
  BY <1>13, <1>0, <1>p DEF handle_disconnect, Go, Disconnecting, Aborting, Pcs, PhyTest
<1>14. CASE dp_display_connect_work
  BY <1>14, <1>0, <1>p DEF dp_display_connect_work, Go, Disconnecting, Aborting, Pcs, PhyTest
<1>15. CASE dp_display_attention_work
  <2>1. pc'.hpd = pc.hpd
    BY <1>15, <1>0 DEF dp_display_attention_work, Go, Pcs
  <2>2. ~(pc.hpd \in Disconnecting)
    <3>1. Head(queue) = "attention" /\ queue # <<>>
      BY <1>15 DEF dp_display_attention_work
    <3>2. queue # <<"connect">>
      BY <3>1, Short
    <3> QED
      BY <1>p, <3>1, <3>2 DEF Aborting
  <2> QED
    BY <2>1, <2>2
<1>16. CASE probe_succeeds
  BY <1>16, <1>0, <1>p DEF probe_succeeds, Go, Disconnecting, Aborting, Pcs, PhyTest
<1>17. CASE probe_no_display
  BY <1>17, <1>0, <1>p
     DEF probe_no_display, Go, ProbeFailed, Disconnecting, Aborting, Pcs, PhyTest
<1>18. CASE probe_fails
  BY <1>18, ProbeFailsKeeps
<1>19. CASE process_hpd_high_tell
  BY <1>19, <1>0, <1>p DEF process_hpd_high_tell, Go, Disconnecting, Aborting, Pcs, PhyTest
<1>20. CASE process_hpd_high_wait
  BY <1>20, <1>0, <1>p DEF process_hpd_high_wait, Go, Disconnecting, Aborting, Pcs, PhyTest
<1>21. CASE dp_display_prepare
  BY <1>21, <1>0, <1>p DEF dp_display_prepare, Go, Disconnecting, Aborting, Pcs, PhyTest
<1>22. CASE dp_display_enable
  BY <1>22, <1>0, <1>p DEF dp_display_enable, Go, Disconnecting, Aborting, Pcs, PhyTest
<1>23. CASE dp_display_enable_fails
  BY <1>23, <1>0, <1>p
     DEF dp_display_enable_fails, Go, Spend, Disconnecting, Aborting, Pcs, PhyTest, Lefts
<1>24. CASE dp_display_post_enable
  BY <1>24, <1>0, <1>p DEF dp_display_post_enable, Go, Disconnecting, Aborting, Pcs, PhyTest
<1>25. CASE dp_display_disable
  BY <1>25, <1>0, <1>p DEF dp_display_disable, Go, Disconnecting, Aborting, Pcs, PhyTest
<1>26. CASE dp_display_unprepare
  BY <1>26, <1>0, <1>p DEF dp_display_unprepare, Go, Disconnecting, Aborting, Pcs, PhyTest
<1>27. CASE dp_pm_prepare
  BY <1>27, <1>0, <1>p DEF dp_pm_prepare, Spend, Disconnecting, Aborting, Pcs, PhyTest, Lefts
<1>28. CASE dp_pm_complete
  BY <1>28, <1>0, <1>p DEF dp_pm_complete, Spend, Disconnecting, Aborting, Pcs, PhyTest, Lefts
<1>29. CASE UNCHANGED vars
  BY <1>29, <1>0, <1>p DEF vars, Disconnecting, Aborting, Pcs, PhyTest
<1>30. CASE phy_test_begins
  BY <1>30, <1>0, <1>p DEF phy_test_begins, Go, Disconnecting, Aborting, Pcs, PhyTest
<1>31. CASE phy_test_stream_off
  BY <1>31, <1>0, <1>p DEF phy_test_stream_off, Go, Disconnecting, Aborting, Pcs, PhyTest
<1>32. CASE phy_test_off
  BY <1>32, <1>0, <1>p DEF phy_test_off, Go, Disconnecting, Aborting, dp_ctrl_off, Pcs, PhyTest
<1>33. CASE phy_test_on
  BY <1>33, <1>0, <1>p DEF phy_test_on, Go, Disconnecting, Aborting, Spend, Lefts, Pcs, PhyTest
<1> QED
  BY <1>1, <1>2, <1>3, <1>4, <1>5, <1>6, <1>7, <1>8, <1>9, <1>10, <1>11, <1>12, <1>13, <1>14,
     <1>15, <1>16, <1>17, <1>18, <1>19, <1>20, <1>21, <1>22, <1>23, <1>24, <1>25, <1>26,
     <1>27, <1>28, <1>29, <1>30, <1>31, <1>32, <1>33
     DEF Next, Detector, Works, HandleDisconnect, Finish, Quiet

\* The parts of the type invariant make it up.
LEMMA TypeParts ==
    TypeOK <=> /\ Outside /\ dp \in DpType /\ queue \in Queues
               /\ sleep \in {"no", "lit", "relit"} /\ (sleep # "no" => dp.suspended)
               /\ (pc.hpd \in Disconnecting => pc.wq = "idle")
<1>1. {cable, sink, again, failed} \subseteq BOOLEAN <=>
        cable \in BOOLEAN /\ sink \in BOOLEAN /\ again \in BOOLEAN /\ failed \in BOOLEAN
  BY Zenon
<1> QED
  BY <1>1, Zenon DEF TypeOK, Outside, DpType, Count, Unsigned, Queues

\* The invariant holds when the driver has probed.
LEMMA InitInv == Init => IInv
<1> SUFFICES ASSUME Init PROVE IInv
  OBVIOUS
<1>0. MaxPlugs \in Nat /\ MaxSinks \in Nat /\ MaxAsks \in Nat /\ MaxFaults \in Nat
      /\ MaxPhyTests \in Nat /\ MaxSuspends \in Nat /\ MaxEvents \in Nat /\ MaxLeaks \in Nat
      /\ Values \in Nat /\ Values > 1
  BY DpConstants
<1>1. TypeOK
  <2>1. Outside
    <3>1. 0 \in Unsigned
      BY <1>0 DEF Unsigned
    <3> QED
      BY <3>1 DEF Init, Outside
  <2>2. dp \in DpType
    <3>1. 0 \in Count /\ 0 \in 0 .. 1 /\ 0 \in Unsigned
      BY <1>0 DEF Count, Unsigned
    <3> QED
      BY <3>1, Zenon DEF Init, DpType
  <2>3. /\ queue \in Queues
        /\ sleep \in {"no", "lit", "relit"} /\ (sleep # "no" => dp.suspended)
        /\ (pc.hpd \in Disconnecting => pc.wq = "idle")
    BY DEF Init, Queues, Disconnecting
  <2> QED
    BY <2>1, <2>2, <2>3, TypeParts
<1>2. Places
  BY <1>0 DEF Init, Places, Pcs, Lefts, PhyTest, Budget, Disconnecting
<1>3. Aborting /\ Powered /\ Told /\ CountsCover /\ PhyTested /\ AbortHandled
  BY DEF Init, Aborting, Powered, Told, CountsCover, PhyTested, PhyTest, AbortHandled,
         Disconnecting
<1>4. Counted
  BY <1>0 DEF Init, Counted, Room, Relit, Budget
<1> QED
  BY <1>1, <1>2, <1>3, <1>4 DEF IInv

\* Every step of the detector, the display's works, the commits and power
\* management preserves the invariant.
LEMMA StepInv == IInv /\ [Next]_vars => IInv'
<1> SUFFICES ASSUME IInv, [Next]_vars PROVE IInv'
  OBVIOUS
<1>1. TypeOK'
  <2>1. (TypeOK <=> /\ Outside /\ dp \in DpType /\ queue \in Queues
                    /\ sleep \in {"no", "lit", "relit"} /\ (sleep # "no" => dp.suspended)
                    /\ (pc.hpd \in Disconnecting => pc.wq = "idle"))'
    BY TypeParts, PTL
  <2> QED
    BY <2>1, OutsideStep, DpStep, QueueStep, SleepStep, ExclusiveStep
<1> QED
  BY <1>1, PlacesStep, AbortingStep, PowerStep, ToldStep, CountedStep, CoverStep,
     PhyTestedStep, AbortHandledStep
     DEF IInv

-----------------------------------------------------------------------------
(* The theorems.                                                           *)

\* The inductive invariant holds in every state of the hot plug state machine.
THEOREM InvInductive == Spec => []IInv
BY InitInv, StepInv, PTL DEF Spec

\* Every field keeps its type, one stream is active at most, stream_count stays
\* an unsigned value, the DSC blocks are bounded by the leaks and the suspends,
\* each work is queued once, and two threads never run
\* dp_display_handle_disconnect at the same time.
THEOREM TypeCorrect == Spec => []TypeOK
<1>1. IInv => TypeOK
  BY DEF IInv
<1> QED
  BY <1>1, InvInductive, PTL

\* dp_display_enable never starts a stream on a host that is not initialised,
\* and no host is deinitialised under an active stream.
THEOREM HostUnderStream == Spec => []ActiveNeedsHost
<1>1. IInv => ActiveNeedsHost
  BY Driver DEF IInv, ActiveNeedsHost, Powered
<1> QED
  BY <1>1, InvInductive, PTL

\* When the hot plug threads are idle, userspace was told whether a sink is
\* connected: whoever changes is_connected is in one place and tells it later.
THEOREM UserspaceKnows == Spec => []ToldIsTrue
<1>1. IInv => ToldIsTrue
  BY DEF IInv, ToldIsTrue, Told, Idle
<1> QED
  BY <1>1, InvInductive, PTL

\* Giving the DSC blocks of a stream back never takes their count below zero,
\* whatever the sink asks for; while it asked for no PHY test, dp_ctrl_stream_off
\* never takes the unsigned stream_count below zero either.
THEOREM NoUnderflow == Spec => []CountsCover
<1>1. IInv => CountsCover
  BY DEF IInv
<1> QED
  BY <1>1, InvInductive, PTL

\* A host at rest that never slept accepts connections: every abort ends with
\* the disconnect that raised it.
THEOREM RestAccepts == Spec => []AbortEnds
<1>1. IInv => AbortEnds
  BY DEF IInv, AbortEnds, AbortHandled, Rest, Idle, Disconnecting
<1> QED
  BY <1>1, InvInductive, PTL
=============================================================================
