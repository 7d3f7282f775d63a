----------------------------- MODULE SdeRmProofs -----------------------------
(***************************************************************************)
(* Proofs about SdeRm, for every catalog, set of displays and boot         *)
(* loader's picture.                                                       *)
(***************************************************************************)
EXTENDS SdeRmSearchProofs

-----------------------------------------------------------------------------
(* What each step of a reservation tags.                                   *)

\* the blocks that are nobody's, or the display's own
Free(r, e) == {b \in Blocks : ~RESERVED_BY_OTHER(r, b, e)}

\* Every topology asks for a number of mixers, compression blocks and CTLs.
LEMMA TopologyCounts ==
    \A top \in DOMAIN Topology : Topology[top].lm \in Nat /\ Topology[top].dsc \in Nat
BY DEF Topology, Top

\* A mixer comes with blocks of the catalog.
LEMMA ConnectedBlocks == \A l \in DOMAIN Mixer : Connected[l] \subseteq Blocks
<1> SUFFICES ASSUME NEW l \in DOMAIN Mixer PROVE Connected[l] \subseteq Blocks
  OBVIOUS
<1>1. <<"lm", l>> \in Blocks
  BY Zenon DEF Blocks, Tagged
<1>2. <<"pp", Mixer[l].pp>> \in Blocks
  BY RmConstants, Zenon DEF Blocks, Tagged
<1>3. Mixer[l].dspp # 0 => <<"dspp", Mixer[l].dspp>> \in Blocks
  BY Zenon DEF Blocks, Tagged
<1>4. Mixer[l].ds # 0 => <<"ds", Mixer[l].ds>> \in Blocks
  BY Zenon DEF Blocks, Tagged
<1>5. Connected[l] = {<<"lm", l>>, <<"pp", Mixer[l].pp>>}
        \cup (IF Mixer[l].dspp = 0 THEN {} ELSE {<<"dspp", Mixer[l].dspp>>})
        \cup (IF Mixer[l].ds = 0 THEN {} ELSE {<<"ds", Mixer[l].ds>>})
  BY Zenon DEF Connected
<1> HIDE DEF Connected
<1> QED
  BY <1>1, <1>2, <1>3, <1>4, <1>5, Zenon

\* the mixers that fit e as they are wired, with the pass in which they do, and
\* those that are free with all that is wired to them
Wired(e, q, pass, l) ==
    /\ IF Mixer[l].primary THEN Display[e].primary
       ELSE /\ (Mixer[l].dspp # 0) = pass.dspp /\ (Mixer[l].ds # 0) = pass.ds
            /\ q.cwb => Mixer[l].cwb
    /\ q.top = "ppsplit" => Pingpong[Mixer[l].pp].split
WiredLms(e, q) ==
    {c \in (DOMAIN Passes(q)) \X (DOMAIN Mixer) : Wired(e, q, Passes(q)[c[1]], c[2])}
FreeLms(r, e) == {l \in DOMAIN Mixer : \A b \in Connected[l] : ~RESERVED_BY_OTHER(r, b, e)}
FoundLms(r, e, q, pin) ==
    Search(Topology[q.top].lm, Those(WiredLms(e, q), FreeLms(r, e)), Pairs, pin)

\* the ping-pong block of the second half of a split mixer
Slaves(r, e) == {p \in DOMAIN Pingpong :
                    Pingpong[p].slave /\ ~RESERVED_BY_OTHER(r, <<"pp", p>>, e)}
Slave(r, e, q) ==
    {<<"pp", p>> : p \in {p \in Slaves(r, e) : q.top = "ppsplit" /\ p = Min(Slaves(r, e))}}

\* _sde_rm_reserve_lms searches the list of mixers for those of them that are free.
LEMMA LmsSearch ==
    ASSUME NEW r, NEW e, NEW q, NEW pin
    PROVE  LET found == FoundLms(r, e, q, pin)
           IN  _sde_rm_reserve_lms(r, e, q, pin) =
                 Result(found # {} /\ (q.top = "ppsplit" => Slave(r, e, q) # {}),
                        (UNION {Connected[l] : l \in UNION found}) \cup Slave(r, e, q))
<1> DEFINE passes == Passes(q)
           fits == {c \in (DOMAIN passes) \X (DOMAIN Mixer) :
                       _sde_rm_check_lm_and_get_connected_blks(r, e, q, passes[c[1]], c[2])}
           slaves == {p \in DOMAIN Pingpong :
                         Pingpong[p].slave /\ ~RESERVED_BY_OTHER(r, <<"pp", p>>, e)}
           slave == {<<"pp", p>> : p \in {p \in slaves : q.top = "ppsplit" /\ p = Min(slaves)}}
           Tags(found) == Result(found # {} /\ (q.top = "ppsplit" => slave # {}),
                                 (UNION {Connected[l] : l \in UNION found}) \cup slave)
<1>1. _sde_rm_reserve_lms(r, e, q, pin) = Tags(Search(Topology[q.top].lm, fits, Pairs, pin))
  BY Zenon DEF _sde_rm_reserve_lms
<1>2. fits = Those(WiredLms(e, q), FreeLms(r, e))
  <2>1. ASSUME NEW c \in (DOMAIN passes) \X (DOMAIN Mixer)
        PROVE  c \in fits <=> c \in Those(WiredLms(e, q), FreeLms(r, e))
    <3>1. c[2] \in DOMAIN Mixer
      OBVIOUS
    <3>2. _sde_rm_check_lm_and_get_connected_blks(r, e, q, passes[c[1]], c[2])
            <=> Wired(e, q, passes[c[1]], c[2]) /\ c[2] \in FreeLms(r, e)
      BY <3>1, Zenon DEF _sde_rm_check_lm_and_get_connected_blks, Wired, FreeLms
    <3> QED
      BY <3>2, Zenon DEF Those, WiredLms
  <2>2. Those(WiredLms(e, q), FreeLms(r, e)) \subseteq (DOMAIN passes) \X (DOMAIN Mixer)
    BY Zenon DEF Those, WiredLms
  <2>3. fits \subseteq (DOMAIN passes) \X (DOMAIN Mixer)
    BY Zenon
  <2> HIDE DEF fits, passes
  <2> QED
    BY <2>1, <2>2, <2>3, Zenon
<1>3. slave = Slave(r, e, q)
  BY Zenon DEF Slave, Slaves
<1> HIDE DEF fits, slave
<1> QED
  BY <1>1, <1>2, <1>3, Zenon DEF FoundLms

\* The list of mixers is one of blocks in pairs.
LEMMA LmsPaired ==
    ASSUME NEW e, NEW q \in Requests
    PROVE  Paired(Topology[q.top].lm, DOMAIN Mixer, WiredLms(e, q), Pairs)
<1>1. Topology[q.top].lm \in Nat
  BY TopologyCounts DEF Requests
<1>2. DOMAIN Passes(q) \subseteq Nat \ {0}
  BY DEF Passes
<1>3. DOMAIN Mixer \subseteq Nat \ {0}
  BY RmConstants
<1>4. Listed(DOMAIN Mixer, WiredLms(e, q))
  <2>1. WiredLms(e, q) \subseteq (DOMAIN Passes(q)) \X (DOMAIN Mixer)
    BY Zenon DEF WiredLms
  <2> QED
    BY <1>2, <1>3, <2>1 DEF Listed
<1>5. Mutual(DOMAIN Mixer, Pairs)
  BY RmConstants, PairsMatch DEF Mutual, Pairs
<1> QED
  BY <1>1, <1>4, <1>5 DEF Paired

\* What a search of the mixers finds.
LEMMA FoundLmsFit ==
    ASSUME NEW r, NEW e, NEW q \in Requests, NEW pin, NEW S \in FoundLms(r, e, q, pin)
    PROVE  /\ S \subseteq FreeLms(r, e) /\ S \subseteq Ids(WiredLms(e, q))
           /\ IsFiniteSet(S) /\ Cardinality(S) = Topology[q.top].lm
           /\ Cardinality(Lonely(S, Pairs)) = Topology[q.top].lm % 2
<1>1. Paired(Topology[q.top].lm, DOMAIN Mixer, Those(WiredLms(e, q), FreeLms(r, e)), Pairs)
  BY LmsPaired, ThosePaired
<1>2. /\ S \subseteq Ids(Those(WiredLms(e, q), FreeLms(r, e)))
      /\ IsFiniteSet(S) /\ Cardinality(S) = Topology[q.top].lm
      /\ Cardinality(Lonely(S, Pairs)) = Topology[q.top].lm % 2
  BY <1>1, SearchFinds DEF FoundLms
<1>3. \A l \in Ids(Those(WiredLms(e, q), FreeLms(r, e))) :
        l \in FreeLms(r, e) /\ l \in Ids(WiredLms(e, q))
  BY Zenon DEF Ids, Those
<1> QED
  BY <1>2, <1>3

\* _sde_rm_reserve_lms tags free blocks only.
LEMMA LmsFree ==
    ASSUME NEW r, NEW e \in Displays, NEW q \in Requests, NEW pin
    PROVE  _sde_rm_reserve_lms(r, e, q, pin).tags \subseteq Free(r, e)
<1> DEFINE found == FoundLms(r, e, q, pin)
<1>1. _sde_rm_reserve_lms(r, e, q, pin).tags =
        (UNION {Connected[l] : l \in UNION found}) \cup Slave(r, e, q)
  BY LmsSearch DEF Result
<1>2. Slave(r, e, q) \subseteq Free(r, e)
  BY Zenon DEF Slave, Slaves, Free, Blocks, Tagged
<1>3. \A l \in UNION found : l \in FreeLms(r, e)
  BY FoundLmsFit
<1>4. \A l \in FreeLms(r, e) : Connected[l] \subseteq Free(r, e)
  BY ConnectedBlocks, Zenon DEF FreeLms, Free
<1> HIDE DEF found
<1>5. \A l \in UNION found : Connected[l] \subseteq Free(r, e)
  BY <1>3, <1>4, Zenon
<1>6. UNION {Connected[l] : l \in UNION found} \subseteq Free(r, e)
  BY <1>5
<1> QED
  BY <1>1, <1>2, <1>6

\* _sde_rm_reserve_ctls tags free blocks only.
LEMMA CtlsFree ==
    ASSUME NEW r, NEW e \in Displays, NEW q \in Requests, NEW pin
    PROVE  _sde_rm_reserve_ctls(r, e, q, pin) \subseteq Free(r, e)
BY Zenon DEF _sde_rm_reserve_ctls, Free, Blocks, Tagged

\* _sde_rm_reserve_intf_related_hw tags free blocks only.
LEMMA IntfFree ==
    ASSUME NEW r, NEW e \in Displays, NEW q \in Requests
    PROVE  _sde_rm_reserve_intf_related_hw(r, e, q).tags \subseteq Free(r, e)
<1> DEFINE outs == Display[e].outs
           cdms(o) == {c \in DOMAIN Cdm :
                          o \in Cdm[c] /\ ~RESERVED_BY_OTHER(r, <<"cdm", c>>, e)}
           ok == \A o \in outs : /\ ~RESERVED_BY_OTHER(r, o, e)
                                 /\ q.cdm => cdms(o) # {}
<1>1. _sde_rm_reserve_intf_related_hw(r, e, q).tags =
        IF ok THEN outs \cup {<<"cdm", Min(cdms(o))>> : o \in {p \in outs : q.cdm}} ELSE {}
  BY Zenon DEF _sde_rm_reserve_intf_related_hw, Result
<1>2. CASE ~ok
  BY <1>1, <1>2, Zenon
<1>3. CASE ok
  <2>1. outs \subseteq Free(r, e)
    BY <1>3, Zenon DEF Free, Blocks, Outs
  <2>2. ASSUME NEW o \in outs, q.cdm PROVE <<"cdm", Min(cdms(o))>> \in Free(r, e)
    <3>1. cdms(o) # {} /\ cdms(o) \subseteq Nat
      BY <1>3, <2>2, RmConstants
    <3>2. Min(cdms(o)) \in cdms(o)
      BY <3>1, MinIn
    <3> QED
      BY <3>2, Zenon DEF Free, Blocks, Tagged
  <2> QED
    <3>1. {<<"cdm", Min(cdms(o))>> : o \in {p \in outs : q.cdm}} \subseteq Free(r, e)
      BY <2>2, Zenon
    <3> HIDE DEF outs, ok, cdms
    <3> QED
      BY <1>1, <1>3, <2>1, <3>1
<1> QED
  BY <1>2, <1>3

\* the compression blocks, all of which fit, and those that are free
AllDscs == {1} \X (DOMAIN Dsc)
FreeDscs(r, e) == {d \in DOMAIN Dsc : ~RESERVED_BY_OTHER(r, <<"dsc", d>>, e)}
FoundDscs(r, e, q, pin) ==
    Search(Topology[q.top].dsc, Those(AllDscs, FreeDscs(r, e)), Dsc, pin)

\* _sde_rm_reserve_dsc searches the list of compression blocks for those that are
\* free.
LEMMA DscSearch ==
    ASSUME NEW r, NEW e, NEW q, NEW pin
    PROVE  LET found == FoundDscs(r, e, q, pin)
           IN  _sde_rm_reserve_dsc(r, e, q, pin) =
                 Result(found # {}, Tagged("dsc", UNION found))
<1> DEFINE fits == {c \in {1} \X (DOMAIN Dsc) : ~RESERVED_BY_OTHER(r, <<"dsc", c[2]>>, e)}
           Tags(found) == Result(found # {}, Tagged("dsc", UNION found))
<1>1. _sde_rm_reserve_dsc(r, e, q, pin) = Tags(Search(Topology[q.top].dsc, fits, Dsc, pin))
  BY Zenon DEF _sde_rm_reserve_dsc
<1>2. fits = Those(AllDscs, FreeDscs(r, e))
  <2>1. \A c \in AllDscs : c[2] \in DOMAIN Dsc
    BY DEF AllDscs
  <2>2. \A c \in AllDscs :
          ~RESERVED_BY_OTHER(r, <<"dsc", c[2]>>, e) <=> c[2] \in FreeDscs(r, e)
    BY <2>1, Zenon DEF FreeDscs
  <2>3. fits = {c \in AllDscs : ~RESERVED_BY_OTHER(r, <<"dsc", c[2]>>, e)}
    BY Zenon DEF AllDscs
  <2> HIDE DEF fits
  <2> QED
    BY <2>2, <2>3, Zenon DEF Those
<1> HIDE DEF fits
<1> QED
  BY <1>1, <1>2, Zenon DEF FoundDscs

\* The list of compression blocks is one of blocks in pairs.
LEMMA DscPaired ==
    ASSUME NEW q \in Requests
    PROVE  Paired(Topology[q.top].dsc, DOMAIN Dsc, AllDscs, Dsc)
<1>1. Topology[q.top].dsc \in Nat
  BY TopologyCounts DEF Requests
<1>2. DOMAIN Dsc \subseteq Nat \ {0}
  BY RmConstants
<1>3. Listed(DOMAIN Dsc, AllDscs)
  BY <1>2 DEF Listed, AllDscs
<1>4. Mutual(DOMAIN Dsc, Dsc)
  BY RmConstants, PairsMatch DEF Mutual
<1> QED
  BY <1>1, <1>3, <1>4 DEF Paired

\* What a search of the compression blocks finds.
LEMMA FoundDscsFit ==
    ASSUME NEW r, NEW e, NEW q \in Requests, NEW pin, NEW S \in FoundDscs(r, e, q, pin)
    PROVE  /\ S \subseteq FreeDscs(r, e)
           /\ IsFiniteSet(S) /\ Cardinality(S) = Topology[q.top].dsc
<1>1. Paired(Topology[q.top].dsc, DOMAIN Dsc, Those(AllDscs, FreeDscs(r, e)), Dsc)
  BY DscPaired, ThosePaired
<1>2. /\ S \subseteq Ids(Those(AllDscs, FreeDscs(r, e)))
      /\ IsFiniteSet(S) /\ Cardinality(S) = Topology[q.top].dsc
  BY <1>1, SearchFinds DEF FoundDscs
<1>3. \A d \in Ids(Those(AllDscs, FreeDscs(r, e))) : d \in FreeDscs(r, e)
  BY Zenon DEF Ids, Those
<1> QED
  BY <1>2, <1>3

\* _sde_rm_reserve_dsc tags free blocks only.
LEMMA DscFree ==
    ASSUME NEW r, NEW e \in Displays, NEW q \in Requests, NEW pin
    PROVE  _sde_rm_reserve_dsc(r, e, q, pin).tags \subseteq Free(r, e)
<1> DEFINE found == FoundDscs(r, e, q, pin)
<1>1. _sde_rm_reserve_dsc(r, e, q, pin).tags = Tagged("dsc", UNION found)
  BY DscSearch DEF Result
<1>2. \A d \in UNION found : d \in FreeDscs(r, e)
  BY FoundDscsFit
<1>3. \A d \in FreeDscs(r, e) : <<"dsc", d>> \in Free(r, e)
  BY Zenon DEF FreeDscs, Free, Blocks, Tagged
<1> HIDE DEF found
<1> QED
  BY <1>1, <1>2, <1>3, Zenon DEF Tagged

\* _sde_rm_reserve_qdss tags free blocks only.
LEMMA QdssFree ==
    ASSUME NEW r, NEW e \in Displays
    PROVE  _sde_rm_reserve_qdss(r, e).tags \subseteq Free(r, e)
<1> DEFINE free == {d \in Qdss : ~RESERVED_BY_OTHER(r, <<"qdss", d>>, e)}
<1>1. _sde_rm_reserve_qdss(r, e).tags = IF free = {} THEN {} ELSE {<<"qdss", Min(free)>>}
  BY Zenon DEF _sde_rm_reserve_qdss, Result
<1>2. CASE free = {}
  BY <1>1, <1>2, Zenon
<1>3. CASE free # {}
  <2>1. free \subseteq Nat
    BY RmConstants
  <2>2. Min(free) \in free
    BY <1>3, <2>1, MinIn
  <2>3. <<"qdss", Min(free)>> \in Free(r, e)
    BY <2>2, Zenon DEF Free, Blocks, Tagged
  <2> QED
    BY <1>1, <1>3, <2>3, Zenon
<1> QED
  BY <1>2, <1>3

-----------------------------------------------------------------------------
(* The proposal of all steps.                                              *)

\* _sde_rm_make_next_rsvp, lit telling whether the boot loader's picture is shown
Pin(lit, ids) == [on |-> lit, ids |-> ids]
Steps(r, e, q, lit) ==
    <<_sde_rm_reserve_lms(r, e, q, Pin(lit, Splash[e].lm)),
      Result(TRUE, _sde_rm_reserve_ctls(r, e, q, Pin(lit, Splash[e].ctl))),
      _sde_rm_reserve_intf_related_hw(r, e, q),
      _sde_rm_reserve_dsc(r, e, q, Pin(lit, Splash[e].dsc)),
      _sde_rm_reserve_qdss(r, e)>>
NextRsvp(r, e, q, lit) == InOrder(Steps(r, e, q, lit))

\* A proposal runs these steps with what the boot loader still shows.
LEMMA NextDefined ==
    ASSUME NEW r, NEW e, NEW q
    PROVE  _sde_rm_make_next_rsvp(r, e, q) = NextRsvp(r, e, q, splash[e])
BY Zenon DEF _sde_rm_make_next_rsvp, NextRsvp, Steps, Pin

\* A proposal is made of free blocks, whether it succeeds or not.
LEMMA ProposalFree ==
    ASSUME NEW r, NEW e \in Displays, NEW q \in Requests, NEW lit
    PROVE  NextRsvp(r, e, q, lit).tags \subseteq Free(r, e)
<1> DEFINE steps == Steps(r, e, q, lit)
<1>1. ASSUME NEW i \in DOMAIN steps PROVE steps[i].tags \subseteq Free(r, e)
  <2>1. i \in {1, 2, 3, 4, 5}
    BY DEF Steps
  <2>2. CASE i = 1
    BY <2>2, LmsFree DEF Steps
  <2>3. CASE i = 2
    BY <2>3, CtlsFree DEF Steps, Result
  <2>4. CASE i = 3
    BY <2>4, IntfFree DEF Steps
  <2>5. CASE i = 4
    BY <2>5, DscFree DEF Steps
  <2>6. CASE i = 5
    BY <2>6, QdssFree DEF Steps
  <2> QED
    BY <2>1, <2>2, <2>3, <2>4, <2>5, <2>6
<1> HIDE DEF steps
<1>2. NextRsvp(r, e, q, lit).tags =
        UNION {steps[i].tags : i \in {i \in DOMAIN steps : \A j \in 1..(i - 1) : steps[j].ok}}
  BY Zenon DEF NextRsvp, InOrder, Result, steps
<1>3. UNION {steps[i].tags : i \in {i \in DOMAIN steps : \A j \in 1..(i - 1) : steps[j].ok}}
        \subseteq Free(r, e)
  BY <1>1
<1> QED
  BY <1>2, <1>3, Zenon

\* A proposal succeeds if all its steps do; those for CTLs always do.
LEMMA StepsOk ==
    ASSUME NEW r, NEW e, NEW q, NEW lit
    PROVE  NextRsvp(r, e, q, lit).ok <=>
             /\ _sde_rm_reserve_lms(r, e, q, Pin(lit, Splash[e].lm)).ok
             /\ _sde_rm_reserve_intf_related_hw(r, e, q).ok
             /\ _sde_rm_reserve_dsc(r, e, q, Pin(lit, Splash[e].dsc)).ok
             /\ _sde_rm_reserve_qdss(r, e).ok
<1> DEFINE steps == Steps(r, e, q, lit)
<1>1. NextRsvp(r, e, q, lit).ok <=> \A i \in DOMAIN steps : steps[i].ok
  BY Zenon DEF NextRsvp, InOrder, Result
<1>2. DOMAIN steps = {1, 2, 3, 4, 5}
  BY DEF Steps
<1>3. /\ steps[1] = _sde_rm_reserve_lms(r, e, q, Pin(lit, Splash[e].lm))
      /\ steps[2] = Result(TRUE, _sde_rm_reserve_ctls(r, e, q, Pin(lit, Splash[e].ctl)))
      /\ steps[3] = _sde_rm_reserve_intf_related_hw(r, e, q)
      /\ steps[4] = _sde_rm_reserve_dsc(r, e, q, Pin(lit, Splash[e].dsc))
      /\ steps[5] = _sde_rm_reserve_qdss(r, e)
  BY DEF Steps
<1>4. steps[2].ok
  BY <1>3 DEF Result
<1> HIDE DEF steps
<1> QED
  BY <1>1, <1>2, <1>3, <1>4

\* It then has the tags of all of them.
LEMMA StepsTags ==
    ASSUME NEW r, NEW e, NEW q, NEW lit, NextRsvp(r, e, q, lit).ok
    PROVE  NextRsvp(r, e, q, lit).tags =
             _sde_rm_reserve_lms(r, e, q, Pin(lit, Splash[e].lm)).tags
             \cup _sde_rm_reserve_ctls(r, e, q, Pin(lit, Splash[e].ctl))
             \cup _sde_rm_reserve_intf_related_hw(r, e, q).tags
             \cup _sde_rm_reserve_dsc(r, e, q, Pin(lit, Splash[e].dsc)).tags
             \cup _sde_rm_reserve_qdss(r, e).tags
<1> DEFINE steps == Steps(r, e, q, lit)
           tags(i) == steps[i].tags
<1>1. /\ \A i \in DOMAIN steps : steps[i].ok
      /\ NextRsvp(r, e, q, lit).tags =
           UNION {tags(i) : i \in {i \in DOMAIN steps : \A j \in 1..(i - 1) : steps[j].ok}}
  BY Zenon DEF NextRsvp, InOrder, Result
<1>2. DOMAIN steps = {1, 2, 3, 4, 5}
  BY DEF Steps
<1>3. /\ tags(1) = _sde_rm_reserve_lms(r, e, q, Pin(lit, Splash[e].lm)).tags
      /\ tags(2) = _sde_rm_reserve_ctls(r, e, q, Pin(lit, Splash[e].ctl))
      /\ tags(3) = _sde_rm_reserve_intf_related_hw(r, e, q).tags
      /\ tags(4) = _sde_rm_reserve_dsc(r, e, q, Pin(lit, Splash[e].dsc)).tags
      /\ tags(5) = _sde_rm_reserve_qdss(r, e).tags
  BY DEF Steps, Result
<1>4. ASSUME NEW i \in DOMAIN steps PROVE \A j \in 1 .. i - 1 : steps[j].ok
  <2> HIDE DEF steps
  <2> QED
    BY <1>1, <1>2
<1>5. {i \in DOMAIN steps : \A j \in 1..(i - 1) : steps[j].ok} = {1, 2, 3, 4, 5}
  <2> HIDE DEF steps
  <2> QED
    BY <1>2, <1>4
<1> HIDE DEF steps, tags
<1>6. NextRsvp(r, e, q, lit).tags = UNION {tags(i) : i \in {1, 2, 3, 4, 5}}
  BY <1>1, <1>5
<1>7. UNION {tags(i) : i \in {1, 2, 3, 4, 5}} = tags(1) \cup tags(2) \cup tags(3) \cup tags(4) \cup tags(5)
  OBVIOUS
<1> QED
  BY <1>3, <1>6, <1>7

-----------------------------------------------------------------------------
(* What a successful proposal has.                                         *)

\* the mixers of the primary display, which it takes without looking for what is
\* wired to them, have a DSPP
PrimaryHasDspp == \A l \in DOMAIN Mixer : Mixer[l].primary => Mixer[l].dspp # 0

\* blocks that are neither mixers nor compression blocks
Others(S) == \A b \in S : b[1] \notin {"lm", "dsc"}

\* What is tagged beside the mixers and compression blocks is neither.
LEMMA StepsOthers ==
    ASSUME NEW r, NEW e \in Displays, NEW q, NEW pin
    PROVE  /\ Others(Slave(r, e, q)) /\ Others(_sde_rm_reserve_ctls(r, e, q, pin))
           /\ Others(_sde_rm_reserve_intf_related_hw(r, e, q).tags)
           /\ Others(_sde_rm_reserve_qdss(r, e).tags)
<1>1. \A x : /\ <<"pp", x>>[1] \notin {"lm", "dsc"} /\ <<"ctl", x>>[1] \notin {"lm", "dsc"}
             /\ <<"cdm", x>>[1] \notin {"lm", "dsc"} /\ <<"qdss", x>>[1] \notin {"lm", "dsc"}
  OBVIOUS
<1>2. Others(Slave(r, e, q))
  BY <1>1, Zenon DEF Others, Slave
<1>3. Others(_sde_rm_reserve_ctls(r, e, q, pin))
  BY <1>1, Zenon DEF Others, _sde_rm_reserve_ctls, Tagged
<1>4. Others(_sde_rm_reserve_intf_related_hw(r, e, q).tags)
  <2> DEFINE outs == Display[e].outs
             cdms(o) == {c \in DOMAIN Cdm :
                            o \in Cdm[c] /\ ~RESERVED_BY_OTHER(r, <<"cdm", c>>, e)}
             ok == \A o \in outs : /\ ~RESERVED_BY_OTHER(r, o, e)
                                   /\ q.cdm => cdms(o) # {}
  <2>1. _sde_rm_reserve_intf_related_hw(r, e, q).tags =
          IF ok THEN outs \cup {<<"cdm", Min(cdms(o))>> : o \in {p \in outs : q.cdm}} ELSE {}
    BY Zenon DEF _sde_rm_reserve_intf_related_hw, Result
  <2>2. Others(outs)
    BY RmConstants DEF Others
  <2>3. Others({<<"cdm", Min(cdms(o))>> : o \in {p \in outs : q.cdm}})
    BY <1>1, Zenon DEF Others
  <2>4. Others({})
    BY DEF Others
  <2> HIDE DEF ok, outs, cdms
  <2> QED
    BY <2>1, <2>2, <2>3, <2>4, Zenon DEF Others
<1>5. Others(_sde_rm_reserve_qdss(r, e).tags)
  <2> DEFINE free == {d \in Qdss : ~RESERVED_BY_OTHER(r, <<"qdss", d>>, e)}
  <2>1. _sde_rm_reserve_qdss(r, e).tags = IF free = {} THEN {} ELSE {<<"qdss", Min(free)>>}
    BY Zenon DEF _sde_rm_reserve_qdss, Result
  <2> HIDE DEF free
  <2> QED
    BY <1>1, <2>1, Zenon DEF Others
<1> QED
  BY <1>2, <1>3, <1>4, <1>5

\* A mixer is the only mixer wired to it, and no compression block is.
LEMMA ConnectedTypes ==
    ASSUME NEW l \in DOMAIN Mixer
    PROVE  /\ <<"lm", l>> \in Connected[l]
           /\ \A b \in Connected[l] : b[1] # "dsc" /\ (b[1] = "lm" => b[2] = l)
<1>1. Connected[l] = {<<"lm", l>>, <<"pp", Mixer[l].pp>>}
        \cup (IF Mixer[l].dspp = 0 THEN {} ELSE {<<"dspp", Mixer[l].dspp>>})
        \cup (IF Mixer[l].ds = 0 THEN {} ELSE {<<"ds", Mixer[l].ds>>})
  BY Zenon DEF Connected
<1> HIDE DEF Connected
<1>2. ASSUME NEW b \in Connected[l]
      PROVE  \/ b = <<"lm", l>> \/ b = <<"pp", Mixer[l].pp>> \/ b = <<"dspp", Mixer[l].dspp>>
             \/ b = <<"ds", Mixer[l].ds>>
  BY <1>1, Zenon
<1>3. ASSUME NEW b \in Connected[l] PROVE b[1] # "dsc" /\ (b[1] = "lm" => b[2] = l)
  <2>1. CASE b = <<"lm", l>>
    BY <2>1
  <2>2. CASE b = <<"pp", Mixer[l].pp>>
    BY <2>2
  <2>3. CASE b = <<"dspp", Mixer[l].dspp>>
    BY <2>3
  <2>4. CASE b = <<"ds", Mixer[l].ds>>
    BY <2>4
  <2> QED
    BY <1>2, <2>1, <2>2, <2>3, <2>4
<1> QED
  BY <1>1, <1>3, Zenon

\* As many tags as ids.
LEMMA TaggedCount ==
    ASSUME NEW S, IsFiniteSet(S), NEW type
    PROVE  Cardinality(Tagged(type, S)) = Cardinality(S)
<1> DEFINE f == [i \in S |-> <<type, i>>]
           T == Tagged(type, S)
<1>1. f \in [S -> T]
  BY DEF Tagged
<1>2. \A i, j \in S : f[i] = f[j] => i = j
  OBVIOUS
<1>3. \A b \in T : \E i \in S : f[i] = b
  BY DEF Tagged
<1>4. f \in Bijection(S, T)
  <2> HIDE DEF f, T
  <2>1. IsInjective(f)
    BY <1>1, <1>2 DEF IsInjective
  <2> QED
    BY <1>1, <1>3, <2>1, Zenon DEF Bijection, Injection, Surjection
<1>5. ExistsBijection(S, T)
  BY <1>4, Zenon DEF ExistsBijection
<1> HIDE DEF T
<1>6. Cardinality(S) = Cardinality(T)
  BY <1>5, FS_Bijection
<1> QED
  BY <1>6, Zenon DEF T

\* If a DSPP is asked for, all mixers found have one.
LEMMA FoundDspps ==
    ASSUME PrimaryHasDspp, NEW e, NEW q \in Requests, q.dspp = TRUE,
           NEW l \in Ids(WiredLms(e, q))
    PROVE  Mixer[l].dspp # 0
<1>1. \A k \in DOMAIN Passes(q) : Passes(q)[k].dspp = TRUE
  BY DEF Passes
<1>2. PICK c \in WiredLms(e, q) : l = c[2]
  BY Zenon DEF Ids
<1>3. c[1] \in DOMAIN Passes(q) /\ l \in DOMAIN Mixer /\ Wired(e, q, Passes(q)[c[1]], l)
  BY <1>2 DEF WiredLms
<1>4. PICK pass : pass = Passes(q)[c[1]]
  OBVIOUS
<1>5. Wired(e, q, pass, l) /\ pass.dspp = TRUE
  BY <1>1, <1>3, <1>4
<1>6. CASE Mixer[l].primary
  BY <1>3, <1>6, Zenon DEF PrimaryHasDspp
<1>7. CASE ~Mixer[l].primary
  <2>1. (Mixer[l].dspp # 0) = TRUE
    BY <1>5, <1>7, Zenon DEF Wired
  <2> QED
    BY <2>1
<1> QED
  BY <1>6, <1>7

\* the mixers, with what is wired to them, and the compression blocks among the tags
\* T are those found, and the interfaces are there
HasFound(r, e, q, lit, T) ==
    /\ \E S \in FoundLms(r, e, q, Pin(lit, Splash[e].lm)) :
         /\ {b[2] : b \in OfType(T, "lm")} = S
         /\ \A l \in S : Connected[l] \subseteq T
    /\ \E D \in FoundDscs(r, e, q, Pin(lit, Splash[e].dsc)) :
         OfType(T, "dsc") = Tagged("dsc", D)
    /\ Display[e].outs \subseteq T

\* The mixers and compression blocks of a successful proposal are those found.
LEMMA ProposalFound ==
    ASSUME NEW r, NEW e \in Displays, NEW q \in Requests, NEW lit,
           NextRsvp(r, e, q, lit).ok, NEW T, T = NextRsvp(r, e, q, lit).tags
    PROVE  HasFound(r, e, q, lit, T)
<1> DEFINE found == FoundLms(r, e, q, Pin(lit, Splash[e].lm))
           dscs == FoundDscs(r, e, q, Pin(lit, Splash[e].dsc))
           ctls == _sde_rm_reserve_ctls(r, e, q, Pin(lit, Splash[e].ctl))
           intf == _sde_rm_reserve_intf_related_hw(r, e, q)
           qdss == _sde_rm_reserve_qdss(r, e)
           wired == UNION {Connected[l] : l \in UNION found}
<1>1. /\ _sde_rm_reserve_lms(r, e, q, Pin(lit, Splash[e].lm)).ok
      /\ _sde_rm_reserve_lms(r, e, q, Pin(lit, Splash[e].lm)).tags = wired \cup Slave(r, e, q)
      /\ found # {}
  BY StepsOk, LmsSearch, Zenon DEF Result
<1>2. /\ _sde_rm_reserve_dsc(r, e, q, Pin(lit, Splash[e].dsc)).tags = Tagged("dsc", UNION dscs)
      /\ dscs # {}
  BY StepsOk, DscSearch, Zenon DEF Result
<1>3. intf.ok
  BY StepsOk
<1>4. T = (wired \cup Slave(r, e, q)) \cup ctls \cup intf.tags
            \cup Tagged("dsc", UNION dscs) \cup qdss.tags
  BY <1>1, <1>2, StepsTags
<1>5. /\ Others(Slave(r, e, q)) /\ Others(ctls) /\ Others(intf.tags) /\ Others(qdss.tags)
  BY StepsOthers
<1> HIDE DEF found, dscs, ctls, intf, qdss
<1>6. PICK S \in found : TRUE
  BY <1>1
<1>7. UNION found = S
  <2>1. \A R1, R2 \in found : R1 = R2
    BY Zenon DEF found, FoundLms, Search
  <2> QED
    BY <2>1
<1>8. PICK D \in dscs : TRUE
  BY <1>2
<1>9. UNION dscs = D
  <2>1. \A R1, R2 \in dscs : R1 = R2
    BY Zenon DEF dscs, FoundDscs, Search
  <2> QED
    BY <2>1
<1>10. S \subseteq DOMAIN Mixer
  <2>1. S \subseteq FreeLms(r, e)
    BY FoundLmsFit DEF found
  <2> QED
    BY <2>1 DEF FreeLms
<1>11. \A b \in wired : /\ b[1] # "dsc"
                        /\ b[1] = "lm" => b[2] \in S
  <2>1. ASSUME NEW b \in wired PROVE \E l \in S : b \in Connected[l]
    BY <1>7
  <2> QED
    BY <1>10, <2>1, ConnectedTypes
<1>12. \A l \in S : Connected[l] \subseteq wired /\ <<"lm", l>> \in wired
  <2>1. ASSUME NEW l \in S PROVE Connected[l] \subseteq wired
    BY <1>7
  <2> HIDE DEF wired
  <2> QED
    BY <1>10, <2>1, ConnectedTypes
<1> HIDE DEF wired
<1>13. \A l \in S : Connected[l] \subseteq T
  BY <1>4, <1>12
<1>14. \A b \in Tagged("dsc", D) : b[1] = "dsc" /\ b[1] # "lm"
  BY DEF Tagged
<1>15. \A b \in OfType(T, "lm") : b[2] \in S
  BY <1>4, <1>5, <1>9, <1>11, <1>14 DEF Others, OfType
<1>16. ASSUME NEW l \in S PROVE \E b \in OfType(T, "lm") : b[2] = l
  <2>1. <<"lm", l>> \in T /\ <<"lm", l>>[1] = "lm" /\ <<"lm", l>>[2] = l
    BY <1>4, <1>12
  <2> QED
    BY <2>1, Zenon DEF OfType
<1>17. {b[2] : b \in OfType(T, "lm")} = S
  BY <1>15, <1>16
<1>18. OfType(T, "dsc") = Tagged("dsc", D)
  <2>1. \A b \in OfType(T, "dsc") : b \in Tagged("dsc", D)
    BY <1>4, <1>5, <1>9, <1>11 DEF Others, OfType
  <2>2. \A b \in Tagged("dsc", D) : b \in OfType(T, "dsc")
    BY <1>4, <1>9, <1>14 DEF OfType
  <2> QED
    BY <2>1, <2>2
<1>19. Display[e].outs \subseteq T
  <2>1. Display[e].outs \subseteq intf.tags
    <3> DEFINE outs == Display[e].outs
               cdms(o) == {c \in DOMAIN Cdm :
                              o \in Cdm[c] /\ ~RESERVED_BY_OTHER(r, <<"cdm", c>>, e)}
               ok == \A o \in outs : /\ ~RESERVED_BY_OTHER(r, o, e)
                                     /\ q.cdm => cdms(o) # {}
               more == {<<"cdm", Min(cdms(o))>> : o \in {p \in outs : q.cdm}}
    <3>1. intf.ok <=> ok
      BY Zenon DEF intf, _sde_rm_reserve_intf_related_hw, Result
    <3>2. intf.tags = IF ok THEN outs \cup more ELSE {}
      BY Zenon DEF intf, _sde_rm_reserve_intf_related_hw, Result
    <3> HIDE DEF ok, more
    <3> QED
      BY <1>3, <3>1, <3>2
  <2> QED
    BY <1>4, <2>1
<1> QED
  BY <1>13, <1>17, <1>18, <1>19, Zenon DEF HasFound, found, dscs

\* A successful proposal has all that the topology asks for.
LEMMA ProposalFulfils ==
    ASSUME PrimaryHasDspp, NEW r, NEW e \in Displays, NEW q \in Requests, NEW lit,
           Display[e].dsi => q.dspp, NextRsvp(r, e, q, lit).ok
    PROVE  Fulfils(e, NextRsvp(r, e, q, lit).tags, q.top)
<1> PICK T : T = NextRsvp(r, e, q, lit).tags
  OBVIOUS
<1>0. HasFound(r, e, q, lit, T)
  BY ProposalFound
<1> DEFINE top == Topology[q.top]
           lms == {b[2] : b \in OfType(T, "lm")}
<1>1. PICK S \in FoundLms(r, e, q, Pin(lit, Splash[e].lm)) :
        /\ lms = S
        /\ \A l \in S : Connected[l] \subseteq T
  BY <1>0, Zenon DEF HasFound
<1>2. PICK D \in FoundDscs(r, e, q, Pin(lit, Splash[e].dsc)) :
        OfType(T, "dsc") = Tagged("dsc", D)
  BY <1>0, Zenon DEF HasFound
<1>3. Display[e].outs \subseteq T
  BY <1>0, Zenon DEF HasFound
<1>4. /\ S \subseteq Ids(WiredLms(e, q)) /\ Cardinality(S) = top.lm
      /\ Cardinality(Lonely(S, Pairs)) = top.lm % 2
  BY FoundLmsFit
<1>5. Cardinality(OfType(T, "dsc")) = top.dsc
  <2>1. IsFiniteSet(D) /\ Cardinality(D) = top.dsc
    BY FoundDscsFit
  <2> QED
    BY <1>2, <2>1, TaggedCount
<1>6. ASSUME Display[e].dsi, NEW l \in S PROVE Mixer[l].dspp # 0
  <2>1. q.dspp = TRUE
    BY <1>6 DEF Requests
  <2> QED
    BY <1>4, <2>1, FoundDspps
<1> HIDE DEF top, lms
<1>7. (UNION {Connected[l] : l \in lms}) \cup Display[e].outs \subseteq T
  BY <1>1, <1>3
<1>8. /\ Cardinality(lms) = top.lm
      /\ Cardinality({l \in lms : Pairs[l] \cap lms = {}}) = top.lm % 2
      /\ Display[e].dsi => \A l \in lms : Mixer[l].dspp # 0
  BY <1>1, <1>4, <1>6 DEF Lonely
<1>9. Fulfils(e, T, q.top)
  BY <1>5, <1>7, <1>8, Zenon DEF Fulfils, top, lms
<1> QED
  BY <1>9

-----------------------------------------------------------------------------
(* The same proposal again.                                                *)

\* Mixers found once are found again as long as they, and what is wired to them,
\* are free or the display's own.
LEMMA LmsAgain ==
    ASSUME NEW r, NEW s, NEW e \in Displays, NEW q \in Requests, NEW pin,
           _sde_rm_reserve_lms(r, e, q, pin).ok,
           _sde_rm_reserve_lms(r, e, q, pin).tags \subseteq Free(s, e)
    PROVE  _sde_rm_reserve_lms(s, e, q, pin).ok
<1>1. /\ FoundLms(r, e, q, pin) # {}
      /\ q.top = "ppsplit" => Slave(r, e, q) # {}
      /\ UNION {Connected[l] : l \in UNION FoundLms(r, e, q, pin)} \subseteq Free(s, e)
      /\ Slave(r, e, q) \subseteq Free(s, e)
  <2>1. FoundLms(r, e, q, pin) # {} /\ (q.top = "ppsplit" => Slave(r, e, q) # {})
    BY LmsSearch, Zenon DEF Result
  <2>2. _sde_rm_reserve_lms(r, e, q, pin).tags =
          (UNION {Connected[l] : l \in UNION FoundLms(r, e, q, pin)}) \cup Slave(r, e, q)
    BY LmsSearch DEF Result
  <2>3. (UNION {Connected[l] : l \in UNION FoundLms(r, e, q, pin)}) \cup Slave(r, e, q)
          \subseteq Free(s, e)
    BY <2>2
  <2> QED
    BY <2>1, <2>3, Zenon
<1>2. PICK S \in FoundLms(r, e, q, pin) : TRUE
  BY <1>1
<1>3. ASSUME NEW l \in S PROVE l \in FreeLms(s, e)
  <2>1. Connected[l] \subseteq Free(s, e)
    BY <1>1, <1>2, <1>3, Zenon
  <2>2. l \in DOMAIN Mixer
    <3>1. S \subseteq FreeLms(r, e)
      BY FoundLmsFit
    <3> QED
      BY <3>1 DEF FreeLms
  <2> QED
    BY <2>1, <2>2, Zenon DEF FreeLms, Free
<1>4. FoundLms(s, e, q, pin) # {}
  <2>1. Paired(Topology[q.top].lm, DOMAIN Mixer, WiredLms(e, q), Pairs)
    BY LmsPaired
  <2>2. S \in Search(Topology[q.top].lm, Those(WiredLms(e, q), FreeLms(r, e)), Pairs, pin)
    BY Zenon DEF FoundLms
  <2>3. S \subseteq FreeLms(s, e)
    BY <1>3
  <2>4. Search(Topology[q.top].lm, Those(WiredLms(e, q), FreeLms(s, e)), Pairs, pin) # {}
    BY <2>1, <2>2, <2>3, SearchAgain
  <2> QED
    BY <2>4, Zenon DEF FoundLms
<1>5. ASSUME q.top = "ppsplit" PROVE Slave(s, e, q) # {}
  <2>1. PICK p \in Slaves(r, e) : <<"pp", p>> \in Slave(r, e, q)
    BY <1>1, <1>5, Zenon DEF Slave
  <2>2. p \in Slaves(s, e)
    BY <1>1, <2>1, Zenon DEF Slaves, Free
  <2>3. Slaves(s, e) \subseteq Nat
    BY RmConstants DEF Slaves
  <2>4. Min(Slaves(s, e)) \in Slaves(s, e)
    BY <2>2, <2>3, MinIn
  <2> QED
    BY <1>5, <2>4, Zenon DEF Slave
<1> QED
  BY <1>4, <1>5, LmsSearch, Zenon DEF Result

\* So are compression blocks.
LEMMA DscAgain ==
    ASSUME NEW r, NEW s, NEW e \in Displays, NEW q \in Requests, NEW pin,
           _sde_rm_reserve_dsc(r, e, q, pin).ok,
           _sde_rm_reserve_dsc(r, e, q, pin).tags \subseteq Free(s, e)
    PROVE  _sde_rm_reserve_dsc(s, e, q, pin).ok
<1>1. /\ FoundDscs(r, e, q, pin) # {}
      /\ Tagged("dsc", UNION FoundDscs(r, e, q, pin)) \subseteq Free(s, e)
  <2>1. FoundDscs(r, e, q, pin) # {}
    BY DscSearch, Zenon DEF Result
  <2>2. _sde_rm_reserve_dsc(r, e, q, pin).tags = Tagged("dsc", UNION FoundDscs(r, e, q, pin))
    BY DscSearch DEF Result
  <2> QED
    BY <2>1, <2>2
<1>2. PICK S \in FoundDscs(r, e, q, pin) : TRUE
  BY <1>1
<1>3. ASSUME NEW d \in S PROVE d \in FreeDscs(s, e)
  <2>1. <<"dsc", d>> \in Free(s, e)
    BY <1>1, <1>2, <1>3, Zenon DEF Tagged
  <2>2. d \in DOMAIN Dsc
    <3>1. S \subseteq FreeDscs(r, e)
      BY FoundDscsFit
    <3> QED
      BY <3>1 DEF FreeDscs
  <2> QED
    BY <2>1, <2>2, Zenon DEF FreeDscs, Free
<1>4. FoundDscs(s, e, q, pin) # {}
  <2>1. Paired(Topology[q.top].dsc, DOMAIN Dsc, AllDscs, Dsc)
    BY DscPaired
  <2>2. S \in Search(Topology[q.top].dsc, Those(AllDscs, FreeDscs(r, e)), Dsc, pin)
    BY Zenon DEF FoundDscs
  <2>3. S \subseteq FreeDscs(s, e)
    BY <1>3
  <2>4. Search(Topology[q.top].dsc, Those(AllDscs, FreeDscs(s, e)), Dsc, pin) # {}
    BY <2>1, <2>2, <2>3, SearchAgain
  <2> QED
    BY <2>4, Zenon DEF FoundDscs
<1> QED
  BY <1>4, DscSearch, Zenon DEF Result

\* So are the interfaces, with a chroma down block if one is asked for.
LEMMA IntfAgain ==
    ASSUME NEW r, NEW s, NEW e \in Displays, NEW q \in Requests,
           _sde_rm_reserve_intf_related_hw(r, e, q).ok,
           _sde_rm_reserve_intf_related_hw(r, e, q).tags \subseteq Free(s, e)
    PROVE  _sde_rm_reserve_intf_related_hw(s, e, q).ok
<1> DEFINE outs == Display[e].outs
           cdms(f, o) == {c \in DOMAIN Cdm :
                             o \in Cdm[c] /\ ~RESERVED_BY_OTHER(f, <<"cdm", c>>, e)}
           ok(f) == \A o \in outs : /\ ~RESERVED_BY_OTHER(f, o, e)
                                    /\ q.cdm => cdms(f, o) # {}
           more == {<<"cdm", Min(cdms(r, o))>> : o \in {p \in outs : q.cdm}}
<1>1. \A f : _sde_rm_reserve_intf_related_hw(f, e, q).ok <=> ok(f)
  BY Zenon DEF _sde_rm_reserve_intf_related_hw, Result
<1>2. _sde_rm_reserve_intf_related_hw(r, e, q).tags = IF ok(r) THEN outs \cup more ELSE {}
  BY Zenon DEF _sde_rm_reserve_intf_related_hw, Result
<1>3. outs \subseteq Free(s, e) /\ more \subseteq Free(s, e) /\ ok(r)
  <2>1. ok(r)
    BY <1>1
  <2> HIDE DEF ok, more, outs
  <2> QED
    BY <1>2, <2>1
<1>4. ASSUME NEW o \in outs PROVE ~RESERVED_BY_OTHER(s, o, e)
  BY <1>3, Zenon DEF Free
<1>5. ASSUME NEW o \in outs, q.cdm PROVE cdms(s, o) # {}
  <2>1. cdms(r, o) # {} /\ cdms(r, o) \subseteq Nat
    BY <1>3, <1>5, RmConstants
  <2>2. PICK c \in cdms(r, o) : c = Min(cdms(r, o))
    BY <2>1, MinIn
  <2>3. <<"cdm", c>> \in more
    BY <1>5, <2>2, Zenon
  <2>4. ~RESERVED_BY_OTHER(s, <<"cdm", c>>, e)
    BY <1>3, <2>3, Zenon DEF Free
  <2> QED
    BY <2>4, Zenon
<1>6. ok(s)
  BY <1>4, <1>5, Zenon
<1> QED
  BY <1>1, <1>6

\* So is the block for tracing.
LEMMA QdssAgain ==
    ASSUME NEW r, NEW s, NEW e \in Displays, _sde_rm_reserve_qdss(r, e).ok,
           _sde_rm_reserve_qdss(r, e).tags \subseteq Free(s, e)
    PROVE  _sde_rm_reserve_qdss(s, e).ok
<1> DEFINE free(f) == {d \in Qdss : ~RESERVED_BY_OTHER(f, <<"qdss", d>>, e)}
<1>1. \A f : _sde_rm_reserve_qdss(f, e).ok <=> Qdss = {} \/ free(f) # {}
  BY Zenon DEF _sde_rm_reserve_qdss, Result
<1>2. CASE Qdss = {}
  BY <1>1, <1>2
<1>3. CASE Qdss # {}
  <2>1. free(r) # {} /\ free(r) \subseteq Nat
    BY <1>1, <1>3, RmConstants
  <2>2. _sde_rm_reserve_qdss(r, e).tags = {<<"qdss", Min(free(r))>>}
    BY <2>1, Zenon DEF _sde_rm_reserve_qdss, Result
  <2>3. Min(free(r)) \in free(r)
    BY <2>1, MinIn
  <2>4. Min(free(r)) \in free(s)
    <3>1. PICK d \in free(r) : d = Min(free(r))
      BY <2>3
    <3>2. <<"qdss", d>> \in Free(s, e)
      BY <2>2, <3>1, Zenon
    <3>3. ~RESERVED_BY_OTHER(s, <<"qdss", d>>, e)
      BY <3>2, Zenon DEF Free
    <3> QED
      BY <3>1, <3>3, Zenon
  <2> QED
    BY <1>1, <2>4, Zenon
<1> QED
  BY <1>2, <1>3

\* A proposal that succeeded succeeds again as long as the blocks it was made of
\* are free or the display's own.
LEMMA ProposalAgain ==
    ASSUME NEW r, NEW s, NEW e \in Displays, NEW q \in Requests, NEW lit,
           NextRsvp(r, e, q, lit).ok, NextRsvp(r, e, q, lit).tags \subseteq Free(s, e)
    PROVE  NextRsvp(s, e, q, lit).ok
<1> DEFINE lm == Pin(lit, Splash[e].lm)
           dsc == Pin(lit, Splash[e].dsc)
<1>1. /\ _sde_rm_reserve_lms(r, e, q, lm).tags \subseteq Free(s, e)
      /\ _sde_rm_reserve_intf_related_hw(r, e, q).tags \subseteq Free(s, e)
      /\ _sde_rm_reserve_dsc(r, e, q, dsc).tags \subseteq Free(s, e)
      /\ _sde_rm_reserve_qdss(r, e).tags \subseteq Free(s, e)
  BY StepsTags
<1>2. /\ _sde_rm_reserve_lms(r, e, q, lm).ok
      /\ _sde_rm_reserve_intf_related_hw(r, e, q).ok
      /\ _sde_rm_reserve_dsc(r, e, q, dsc).ok
      /\ _sde_rm_reserve_qdss(r, e).ok
  BY StepsOk
<1> HIDE DEF lm, dsc
<1>3. /\ _sde_rm_reserve_lms(s, e, q, lm).ok
      /\ _sde_rm_reserve_intf_related_hw(s, e, q).ok
      /\ _sde_rm_reserve_dsc(s, e, q, dsc).ok
      /\ _sde_rm_reserve_qdss(s, e).ok
  BY <1>1, <1>2, LmsAgain, IntfAgain, DscAgain, QdssAgain
<1> QED
  BY <1>3, StepsOk DEF lm, dsc

-----------------------------------------------------------------------------
(* What a call of the manager does to the reservations.                    *)

Holders == [Blocks -> Displays \cup {None}]

\* blocks change hands only between the display and nobody
Apart(e, r, s) == \A b \in Blocks : s[b] # r[b] => {r[b], s[b]} = {e, None}

\* The requirements of a display are a request that may be met.
LEMMA Populated ==
    ASSUME NEW e \in Displays, NEW q \in Requests
    PROVE  _sde_rm_populate_requirements(e, q) \in Requests
<1>1. {"singlepipe", "dualpipe_3dmerge"} \subseteq DOMAIN Topology
  BY DEF Topology
<1>2. q.top \in DOMAIN Topology /\ q.cwb \in BOOLEAN /\ q.cdm \in BOOLEAN
  BY DEF Requests
<1> QED
  BY <1>1, <1>2, Zenon DEF Requests, _sde_rm_populate_requirements

\* Releasing takes the tags of one display off and leaves the others alone.
LEMMA ReleaseEffect ==
    ASSUME NEW e \in Displays, NEW r \in Holders
    PROVE  /\ _sde_rm_release_rsvp(r, e) \in Holders
           /\ Apart(e, r, _sde_rm_release_rsvp(r, e))
BY DEF _sde_rm_release_rsvp, Holders, Apart

\* what a call proposes, and that a proposal that is kept is all the display has then
Current(e, test, clear) == IF test /\ clear THEN _sde_rm_release_rsvp(rsvp, e) ELSE rsvp
Proposed(e, ask, test, clear) ==
    NextRsvp(Current(e, test, clear), e, _sde_rm_populate_requirements(e, ask), splash[e])
Keeps(e, ask, test, lock, clear, res) ==
    /\ res.ok <=> Proposed(e, ask, test, clear).ok
    /\ res.top = _sde_rm_populate_requirements(e, ask).top
    /\ res.ok /\ (~test \/ lock) => Own(res.rsvp, e) = Proposed(e, ask, test, clear).tags

\* sde_rm_reserve moves free blocks to the display and its own blocks to nobody,
\* leaves no proposal behind, and changes nothing when it only tests or fails.
LEMMA ReserveEffect ==
    ASSUME NEW e \in Displays, NEW ask \in Requests, NEW test \in BOOLEAN,
           NEW lock \in BOOLEAN, NEW clear \in BOOLEAN,
           rsvp \in Holders, nxt = [b \in Blocks |-> None],
           NEW res, res = sde_rm_reserve(e, ask, test, lock, clear)
    PROVE  /\ res.rsvp \in Holders /\ Apart(e, rsvp, res.rsvp)
           /\ res.nxt = [b \in Blocks |-> None]
           /\ res.top \in DOMAIN Topology
           /\ test /\ ~lock /\ ~clear => res.rsvp = rsvp
           /\ ~test /\ ~res.ok => res.rsvp = rsvp
           /\ Keeps(e, ask, test, lock, clear, res)
<1> DEFINE q == _sde_rm_populate_requirements(e, ask)
           cur == IF test /\ clear THEN _sde_rm_release_rsvp(rsvp, e) ELSE rsvp
           new == _sde_rm_make_next_rsvp(cur, e, q)
           n == [b \in Blocks |-> IF b \in new.tags THEN e ELSE nxt[b]]
           keep == ~test \/ lock
<1>1. res = IF new.ok /\ keep
            THEN [ok |-> TRUE, top |-> q.top, nxt |-> [b \in Blocks |-> None],
                  rsvp |-> _sde_rm_commit_rsvp(_sde_rm_release_rsvp(cur, e), n)]
            ELSE [ok |-> new.ok, top |-> q.top, nxt |-> _sde_rm_release_rsvp(n, e),
                  rsvp |-> cur]
  BY Zenon DEF sde_rm_reserve, Reserved
<1>2. q \in Requests /\ q.top \in DOMAIN Topology
  BY Populated DEF Requests
<1>3. cur \in Holders /\ Apart(e, rsvp, cur) /\ (~(test /\ clear) => cur = rsvp)
  <2>1. CASE test /\ clear
    BY <2>1, ReleaseEffect
  <2>2. CASE ~(test /\ clear)
    BY <2>2 DEF Apart
  <2> QED
    BY <2>1, <2>2
<1>12. new = Proposed(e, ask, test, clear)
  BY NextDefined, Zenon DEF Proposed, Current
<1> HIDE DEF q, cur
<1>4. new.tags \subseteq Free(cur, e)
  BY <1>2, NextDefined, ProposalFree
<1> HIDE DEF new
<1>5. n \in [Blocks -> {e, None}] /\ \A b \in Blocks : n[b] = e => cur[b] \in {None, e}
  BY <1>4, RmConstants DEF Free, RESERVED_BY_OTHER
<1>6. e # None
  BY RmConstants
<1>7. _sde_rm_release_rsvp(n, e) = [b \in Blocks |-> None]
  BY <1>5 DEF _sde_rm_release_rsvp
<1> DEFINE com1 == _sde_rm_commit_rsvp(_sde_rm_release_rsvp(cur, e), n)
<1>8. com1 \in Holders /\ \A b \in Blocks :
        com1[b] = IF n[b] = e THEN e ELSE IF cur[b] = e THEN None ELSE cur[b]
  BY <1>3, <1>5, <1>6 DEF _sde_rm_commit_rsvp, _sde_rm_release_rsvp, Holders
<1> HIDE DEF com1
<1>9. Apart(e, rsvp, com1)
  BY <1>3, <1>5, <1>8 DEF Apart
<1>13. Own(com1, e) = new.tags
  <2>1. \A b \in Blocks : n[b] = e <=> b \in new.tags
    BY <1>6, Zenon
  <2>2. new.tags \subseteq Blocks
    BY <1>4 DEF Free
  <2>3. \A b \in Blocks : com1[b] = e <=> n[b] = e
    BY <1>6, <1>8
  <2> HIDE DEF n
  <2> QED
    BY <2>1, <2>2, <2>3, Zenon DEF Own
<1> HIDE DEF n
<1>10. CASE new.ok /\ keep
  <2>1. res.ok /\ res.top = q.top /\ res.rsvp = com1 /\ res.nxt = [b \in Blocks |-> None]
    BY <1>1, <1>10 DEF com1
  <2>2. Keeps(e, ask, test, lock, clear, res)
    BY <1>10, <1>12, <1>13, <2>1, Zenon DEF Keeps, q
  <2> QED
    BY <1>2, <1>8, <1>9, <1>10, <2>1, <2>2
<1>11. CASE ~(new.ok /\ keep)
  <2>1. /\ res.ok <=> new.ok
        /\ res.top = q.top /\ res.rsvp = cur
        /\ res.nxt = [b \in Blocks |-> None]
    <3>1. res = [ok |-> new.ok, top |-> q.top, nxt |-> _sde_rm_release_rsvp(n, e), rsvp |-> cur]
      BY <1>1, <1>11, Zenon
    <3> QED
      BY <1>7, <3>1
  <2>2. Keeps(e, ask, test, lock, clear, res)
    BY <1>11, <1>12, <2>1, Zenon DEF Keeps, q
  <2> QED
    BY <1>2, <1>3, <1>11, <2>1, <2>2
<1> QED
  BY <1>10, <1>11

-----------------------------------------------------------------------------
(* The invariant.                                                          *)

IInv == TypeOK /\ DrivesItsOwn

\* A display that is off has asked for something it may be asked for.
LEMMA NoRequestType ==
    \A e \in Displays : NoRequest(e) \in [q : Requests, lock : BOOLEAN]
<1> SUFFICES ASSUME NEW e \in Displays PROVE NoRequest(e) \in [q : Requests, lock : BOOLEAN]
  OBVIOUS
<1>1. PICK q \in Display[e].asks : TRUE
  BY RmConstants
<1>2. (CHOOSE x \in Display[e].asks : TRUE) \in Display[e].asks
  BY <1>1, Zenon
<1>3. (CHOOSE x \in Display[e].asks : TRUE) \in Requests
  BY <1>2, RmConstants
<1> QED
  BY <1>3, Zenon DEF NoRequest

\* The blocks of another display stay its own.
LEMMA OthersKeep ==
    ASSUME NEW e \in Displays, NEW d \in Displays \ {e}, NEW r, NEW s, Apart(e, r, s),
           NEW S, S \subseteq Own(r, d)
    PROVE  S \subseteq Own(s, d)
<1>1. d # None
  BY RmConstants
<1>2. ASSUME NEW b \in S PROVE s[b] = d /\ b \in Blocks
  <2>1. r[b] = d /\ b \in Blocks
    BY DEF Own
  <2>2. s[b] # r[b] => {r[b], s[b]} = {e, None}
    BY <2>1 DEF Apart
  <2>3. d \notin {e, None}
    BY <1>1
  <2> QED
    BY <2>1, <2>2, <2>3
<1> QED
  BY <1>2 DEF Own

\* what a call may do to the manager's blocks, and what it may not leave behind
Moved(e) == /\ rsvp' \in Holders /\ Apart(e, rsvp, rsvp')
            /\ nxt' = [b \in Blocks |-> None]
            /\ conn' \in [Displays -> [q : Requests, lock : BOOLEAN]]

\* A check reserves or clears blocks only for a display that is off, and when it may
\* neither lock nor clear it reserves nothing.
LEMMA CheckEffect ==
    ASSUME TypeOK, NEW e \in Displays, NEW q \in Display[e].asks, NEW lock \in BOOLEAN,
           NEW clear \in BOOLEAN, atomic_check(e, q, lock, clear)
    PROVE  /\ Moved(e)
           /\ com' \in [Displays -> {"boot", "idle", "queued", "seamless", "modeset", "off"}]
           /\ rsvp' = rsvp \/ ~on[e]
           /\ UNCHANGED <<on, hw, mode, splash>>
           /\ ~lock /\ ~clear => rsvp' = rsvp
<1>1. q \in Requests
  BY RmConstants
<1>2. rsvp \in Holders /\ nxt = [b \in Blocks |-> None]
  BY DEF TypeOK, Holders
<1>3. PICK res : /\ res = sde_rm_reserve(e, q, TRUE, lock, clear)
                 /\ rsvp' = res.rsvp /\ nxt' = res.nxt
                 /\ \/ UNCHANGED <<conn, com>>
                    \/ /\ conn' = [conn EXCEPT ![e] = [q |-> q, lock |-> lock]]
                       /\ \E m \in Modes(e) : com' = [com EXCEPT ![e] = m]
  BY Zenon DEF atomic_check
<1>4. /\ res.rsvp \in Holders /\ Apart(e, rsvp, res.rsvp)
      /\ res.nxt = [b \in Blocks |-> None]
      /\ ~lock /\ ~clear => res.rsvp = rsvp
  <2>1. PICK test, lk, cl \in BOOLEAN : test = TRUE /\ lk = lock /\ cl = clear
    OBVIOUS
  <2>2. res = sde_rm_reserve(e, q, test, lk, cl)
    BY <1>3, <2>1, Zenon
  <2>3. /\ res.rsvp \in Holders /\ Apart(e, rsvp, res.rsvp)
        /\ res.nxt = [b \in Blocks |-> None]
        /\ test /\ ~lk /\ ~cl => res.rsvp = rsvp
    BY <1>1, <1>2, <2>2, ReserveEffect
  <2> QED
    BY <2>1, <2>3
<1>5. lock \/ clear => ~on[e]
  BY DEF atomic_check
<1>6. conn' \in [Displays -> [q : Requests, lock : BOOLEAN]]
  BY <1>1, <1>3 DEF TypeOK
<1>7. com' \in [Displays -> {"boot", "idle", "queued", "seamless", "modeset", "off"}]
  BY <1>3 DEF TypeOK, Modes
<1>8. UNCHANGED <<on, hw, mode, splash>>
  BY DEF atomic_check
<1> QED
  BY <1>3, <1>4, <1>5, <1>6, <1>7, <1>8 DEF Moved

\* Getting the blocks of a display gives it exactly what is now reserved for it,
\* or changes nothing.
LEMMA GetBlocksEffect ==
    ASSUME TypeOK, NEW e \in Displays, GetBlocks(e)
    PROVE  /\ Moved(e)
           /\ com' \in [Displays -> {"boot", "idle", "queued", "seamless", "modeset", "off"}]
           /\ \/ UNCHANGED <<rsvp, on, hw, mode>>
              \/ /\ on' = [on EXCEPT ![e] = TRUE]
                 /\ hw' = [hw EXCEPT ![e] = Own(rsvp', e)]
                 /\ \E top \in DOMAIN Topology : mode' = [mode EXCEPT ![e] = top]
<1>1. conn[e].q \in Requests /\ conn[e].lock \in BOOLEAN
  BY DEF TypeOK
<1>2. rsvp \in Holders /\ nxt = [b \in Blocks |-> None]
  BY DEF TypeOK, Holders
<1>3. PICK res : /\ res = sde_rm_reserve(e, conn[e].q, FALSE, conn[e].lock, FALSE)
                 /\ \/ UNCHANGED <<rsvp, nxt, on, hw, mode>>
                    \/ /\ rsvp' = res.rsvp /\ nxt' = res.nxt
                       /\ IF res.ok THEN /\ on' = [on EXCEPT ![e] = TRUE]
                                        /\ hw' = [hw EXCEPT ![e] = Own(res.rsvp, e)]
                                        /\ mode' = [mode EXCEPT ![e] = res.top]
                          ELSE UNCHANGED <<on, hw, mode>>
  BY Zenon DEF GetBlocks
<1>4. /\ res.rsvp \in Holders /\ Apart(e, rsvp, res.rsvp)
      /\ res.nxt = [b \in Blocks |-> None]
      /\ res.top \in DOMAIN Topology
      /\ ~res.ok => res.rsvp = rsvp
  <2>1. PICK test \in BOOLEAN : test = FALSE
    OBVIOUS
  <2>2. PICK ask \in Requests, lock \in BOOLEAN : ask = conn[e].q /\ lock = conn[e].lock
    BY <1>1
  <2>3. res = sde_rm_reserve(e, ask, test, lock, test)
    BY <1>3, <2>1, <2>2, Zenon
  <2> QED
    BY <1>2, <2>1, <2>3, ReserveEffect
<1>5. rsvp' \in Holders /\ Apart(e, rsvp, rsvp') /\ nxt' = [b \in Blocks |-> None]
  <2>1. CASE UNCHANGED <<rsvp, nxt>>
    BY <1>2, <2>1 DEF Apart
  <2>2. CASE rsvp' = res.rsvp /\ nxt' = res.nxt
    BY <1>4, <2>2
  <2> QED
    BY <1>3, <2>1, <2>2
<1>6. conn' \in [Displays -> [q : Requests, lock : BOOLEAN]]
  <2>1. PICK c : /\ conn' = [conn EXCEPT ![e] = c]
                 /\ c = [conn[e] EXCEPT !.lock = FALSE] \/ c = NoRequest(e)
    BY Zenon DEF GetBlocks
  <2>2. [conn[e] EXCEPT !.lock = FALSE] \in [q : Requests, lock : BOOLEAN]
    <3>1. conn[e] \in [q : Requests, lock : BOOLEAN]
      BY DEF TypeOK
    <3> QED
      BY <3>1, Zenon
  <2>3. c \in [q : Requests, lock : BOOLEAN]
    BY <2>1, <2>2, NoRequestType
  <2> QED
    BY <2>1, <2>3 DEF TypeOK
<1>7. com' \in [Displays -> {"boot", "idle", "queued", "seamless", "modeset", "off"}]
  BY DEF GetBlocks, TypeOK
<1>8. \/ UNCHANGED <<rsvp, on, hw, mode>>
      \/ /\ on' = [on EXCEPT ![e] = TRUE]
         /\ hw' = [hw EXCEPT ![e] = Own(rsvp', e)]
         /\ \E top \in DOMAIN Topology : mode' = [mode EXCEPT ![e] = top]
  BY <1>3, <1>4, Zenon
<1> QED
  BY <1>5, <1>6, <1>7, <1>8 DEF Moved

\* A display that gets its blocks has all that the topology it is enabled for asks
\* for.
LEMMA GetBlocksComplete ==
    ASSUME PrimaryHasDspp, TypeOK, NEW e \in Displays, GetBlocks(e)
    PROVE  \/ UNCHANGED <<on, hw, mode>>
           \/ \E T \in SUBSET Blocks, top \in DOMAIN Topology :
                /\ on' = [on EXCEPT ![e] = TRUE] /\ hw' = [hw EXCEPT ![e] = T]
                /\ mode' = [mode EXCEPT ![e] = top] /\ Fulfils(e, T, top)
<1>1. conn[e].q \in Requests /\ conn[e].lock \in BOOLEAN
  BY DEF TypeOK
<1>2. rsvp \in Holders /\ nxt = [b \in Blocks |-> None]
  BY DEF TypeOK, Holders
<1>3. PICK res : /\ res = sde_rm_reserve(e, conn[e].q, FALSE, conn[e].lock, FALSE)
                 /\ \/ UNCHANGED <<on, hw, mode>>
                    \/ /\ res.ok
                       /\ on' = [on EXCEPT ![e] = TRUE]
                       /\ hw' = [hw EXCEPT ![e] = Own(res.rsvp, e)]
                       /\ mode' = [mode EXCEPT ![e] = res.top]
  BY Zenon DEF GetBlocks
<1>4. PICK test \in BOOLEAN : test = FALSE
  OBVIOUS
<1>5. PICK ask \in Requests, lock \in BOOLEAN : ask = conn[e].q /\ lock = conn[e].lock
  BY <1>1
<1>6. res = sde_rm_reserve(e, ask, test, lock, test)
  BY <1>3, <1>4, <1>5, Zenon
<1>7. Keeps(e, ask, test, lock, test, res) /\ res.top \in DOMAIN Topology
  BY <1>2, <1>6, ReserveEffect
<1> DEFINE q == _sde_rm_populate_requirements(e, ask)
           T == Own(res.rsvp, e)
<1>8. ASSUME res.ok PROVE Fulfils(e, T, res.top)
  <2>1. PICK r : r = Current(e, test, test)
    OBVIOUS
  <2>2. PICK lit : lit = splash[e]
    OBVIOUS
  <2>3. NextRsvp(r, e, q, lit).ok /\ T = NextRsvp(r, e, q, lit).tags /\ res.top = q.top
    BY <1>4, <1>7, <1>8, <2>1, <2>2 DEF Keeps, Proposed
  <2>4. q \in Requests /\ (Display[e].dsi => q.dspp)
    <3>1. Display[e].dsi => q.dspp
      BY Zenon DEF _sde_rm_populate_requirements
    <3> QED
      BY <3>1, Populated
  <2> HIDE DEF q, T
  <2>5. Fulfils(e, NextRsvp(r, e, q, lit).tags, q.top)
    BY <2>3, <2>4, ProposalFulfils
  <2> QED
    BY <2>3, <2>5
<1>9. T \in SUBSET Blocks
  BY DEF Own
<1> HIDE DEF T
<1> QED
  BY <1>3, <1>7, <1>8, <1>9 DEF T

\* Disabling a display gives its blocks back, or keeps all that are locked.
LEMMA DisableEffect ==
    ASSUME TypeOK, NEW e \in Displays, sde_encoder_virt_disable(e)
    PROVE  /\ Moved(e)
           /\ com' \in [Displays -> {"boot", "idle", "queued", "seamless", "modeset", "off"}]
           /\ \/ UNCHANGED <<rsvp, on, hw, mode>>
              \/ /\ on' = [on EXCEPT ![e] = FALSE]
                 /\ hw' = [hw EXCEPT ![e] = {}]
                 /\ mode' = [mode EXCEPT ![e] = None]
                 /\ rsvp' = rsvp \/ rsvp' = _sde_rm_release_rsvp(rsvp, e)
<1>1. rsvp \in Holders /\ nxt = [b \in Blocks |-> None]
  BY DEF TypeOK, Holders
<1>2. \/ UNCHANGED <<rsvp, on, hw, mode>>
      \/ /\ on' = [on EXCEPT ![e] = FALSE]
         /\ hw' = [hw EXCEPT ![e] = {}]
         /\ mode' = [mode EXCEPT ![e] = None]
         /\ rsvp' = rsvp \/ rsvp' = _sde_rm_release_rsvp(rsvp, e)
  BY Zenon DEF sde_encoder_virt_disable, sde_rm_release
<1>3. rsvp' \in Holders /\ Apart(e, rsvp, rsvp')
  <2>1. CASE rsvp' = rsvp
    BY <1>1, <2>1 DEF Apart
  <2>2. CASE rsvp' = _sde_rm_release_rsvp(rsvp, e)
    BY <1>1, <2>2, ReleaseEffect
  <2> QED
    BY <1>2, <2>1, <2>2
<1>4. conn' \in [Displays -> [q : Requests, lock : BOOLEAN]]
  <2>1. PICK c \in {NoRequest(e), conn[e]} : conn' = [conn EXCEPT ![e] = c]
    BY Zenon DEF sde_encoder_virt_disable
  <2>2. c \in [q : Requests, lock : BOOLEAN]
    BY NoRequestType DEF TypeOK
  <2> QED
    BY <2>1, <2>2 DEF TypeOK
<1>5. com' \in [Displays -> {"boot", "idle", "queued", "seamless", "modeset", "off"}]
  BY DEF sde_encoder_virt_disable, TypeOK
<1>6. nxt' = [b \in Blocks |-> None]
  BY <1>1 DEF sde_encoder_virt_disable
<1> QED
  BY <1>2, <1>3, <1>4, <1>5, <1>6 DEF Moved

\* Switching one display leaves what the others drive alone.
LEMMA DrivesStep ==
    ASSUME TypeOK, DrivesItsOwn, NEW e \in Displays, Apart(e, rsvp, rsvp'),
           \A d \in Displays \ {e} : on'[d] = on[d] /\ hw'[d] = hw[d],
           on'[e] => hw'[e] \subseteq Own(rsvp', e)
    PROVE  DrivesItsOwn'
<1>1. ASSUME NEW d \in Displays, on'[d] PROVE hw'[d] \subseteq Own(rsvp', d)
  <2>1. CASE d = e
    BY <1>1, <2>1
  <2>2. CASE d # e
    <3>1. hw[d] \subseteq Own(rsvp, d)
      BY <1>1, <2>2 DEF DrivesItsOwn
    <3> QED
      BY <2>2, <3>1, OthersKeep
  <2> QED
    BY <2>1, <2>2
<1>2. Own(rsvp, e)' = Own(rsvp', e)
  BY DEF Own
<1> QED
  BY <1>1, Zenon DEF DrivesItsOwn, Own

\* A step that leaves the invariant's state alone.
LEMMA Unswitched ==
    ASSUME DrivesItsOwn, UNCHANGED <<rsvp, on, hw>>
    PROVE  DrivesItsOwn'
BY DEF DrivesItsOwn, Own

\* The invariant holds before the boot loader's picture is taken over.
LEMMA InitInv == Init => IInv
<1> SUFFICES ASSUME Init PROVE IInv
  OBVIOUS
<1>1. conn \in [Displays -> [q : Requests, lock : BOOLEAN]]
  <2>1. \A e \in Displays : [q |-> Splash[e].q, lock |-> FALSE] \in [q : Requests, lock : BOOLEAN]
    BY RmConstants
  <2> QED
    BY <2>1, NoRequestType DEF Init
<1>2. splash \in [Displays -> BOOLEAN]
  BY RmConstants DEF Init
<1>3. TypeOK
  BY <1>1, <1>2 DEF Init, TypeOK
<1>4. DrivesItsOwn
  BY DEF Init, DrivesItsOwn
<1> QED
  BY <1>3, <1>4 DEF IInv

\* Every check, commit and call of the display threads preserves the invariant.
LEMMA StepInv == IInv /\ [Next]_vars => IInv'
<1> SUFFICES ASSUME IInv, [Next]_vars PROVE IInv'
  OBVIOUS
<1>0. TypeOK /\ DrivesItsOwn
  BY DEF IInv
<1>1. ASSUME NEW e \in Displays, NEW q \in Display[e].asks, NEW lock \in BOOLEAN,
             NEW clear \in BOOLEAN, atomic_check(e, q, lock, clear)
      PROVE  IInv'
  <2>1. TypeOK'
    BY <1>0, <1>1, CheckEffect DEF TypeOK, Moved, Holders
  <2>2. CASE rsvp' = rsvp
    BY <1>0, <1>1, <2>1, <2>2, CheckEffect, Unswitched DEF IInv
  <2>3. CASE ~on[e]
    <3>1. Apart(e, rsvp, rsvp') /\ UNCHANGED <<on, hw>>
      BY <1>0, <1>1, CheckEffect DEF Moved
    <3> QED
      BY <1>0, <2>1, <2>3, <3>1, DrivesStep DEF IInv
  <2> QED
    BY <1>0, <1>1, <2>2, <2>3, CheckEffect
<1>2. ASSUME NEW e \in Displays, NEW lock \in BOOLEAN, commit_off(e, lock) PROVE IInv'
  <2>1. TypeOK'
    BY <1>0, <1>2 DEF commit_off, TypeOK
  <2> QED
    BY <1>0, <1>2, <2>1, Unswitched DEF commit_off, IInv
<1>3. ASSUME NEW e \in Displays, GetBlocks(e), splash' \in [Displays -> BOOLEAN] PROVE IInv'
  <2>1. CASE UNCHANGED <<rsvp, on, hw, mode>>
    <3>1. TypeOK'
      BY <1>0, <1>3, <2>1, GetBlocksEffect DEF TypeOK, Moved
    <3> QED
      BY <1>0, <2>1, <3>1, Unswitched DEF IInv
  <2>2. CASE /\ on' = [on EXCEPT ![e] = TRUE]
             /\ hw' = [hw EXCEPT ![e] = Own(rsvp', e)]
             /\ \E top \in DOMAIN Topology : mode' = [mode EXCEPT ![e] = top]
    <3>1. PICK own \in SUBSET Blocks : own = Own(rsvp', e)
      BY DEF Own
    <3>2. PICK top \in DOMAIN Topology : mode' = [mode EXCEPT ![e] = top]
      BY <2>2
    <3>3. hw' = [hw EXCEPT ![e] = own]
      BY <2>2, <3>1
    <3>4. TypeOK'
      BY <1>0, <1>3, <2>2, <3>2, <3>3, GetBlocksEffect DEF TypeOK, Moved, Holders
    <3>5. /\ Apart(e, rsvp, rsvp') /\ hw'[e] = Own(rsvp', e)
          /\ \A d \in Displays \ {e} : on'[d] = on[d] /\ hw'[d] = hw[d]
      BY <1>0, <1>3, <2>2, <3>1, <3>3, GetBlocksEffect DEF TypeOK, Moved
    <3> QED
      BY <1>0, <3>4, <3>5, DrivesStep DEF IInv
  <2> QED
    BY <1>0, <1>3, <2>1, <2>2, GetBlocksEffect
<1>4. ASSUME NEW e \in Displays, sde_encoder_update_caps_for_cont_splash(e) PROVE IInv'
  BY <1>0, <1>3, <1>4 DEF sde_encoder_update_caps_for_cont_splash, TypeOK
<1>5. ASSUME NEW e \in Displays, mode_set(e) PROVE IInv'
  <2>1. splash' \in [Displays -> BOOLEAN]
    BY <1>0, <1>5 DEF mode_set, TypeOK
  <2> QED
    BY <1>3, <1>5, <2>1 DEF mode_set
<1>6. ASSUME NEW e \in Displays, sde_encoder_virt_disable(e) PROVE IInv'
  <2>0. splash' = splash
    BY <1>6 DEF sde_encoder_virt_disable
  <2>1. CASE UNCHANGED <<rsvp, on, hw, mode>>
    <3>1. TypeOK'
      BY <1>0, <1>6, <2>0, <2>1, DisableEffect DEF TypeOK, Moved
    <3> QED
      BY <1>0, <2>1, <3>1, Unswitched DEF IInv
  <2>2. CASE /\ on' = [on EXCEPT ![e] = FALSE]
             /\ hw' = [hw EXCEPT ![e] = {}]
             /\ mode' = [mode EXCEPT ![e] = None]
    <3>1. TypeOK'
      BY <1>0, <1>6, <2>0, <2>2, DisableEffect DEF TypeOK, Moved, Holders
    <3>2. /\ Apart(e, rsvp, rsvp') /\ hw'[e] = {}
          /\ \A d \in Displays \ {e} : on'[d] = on[d] /\ hw'[d] = hw[d]
      BY <1>0, <1>6, <2>2, DisableEffect DEF TypeOK, Moved
    <3> QED
      BY <1>0, <3>1, <3>2, DrivesStep DEF IInv
  <2> QED
    BY <1>0, <1>6, <2>1, <2>2, DisableEffect
<1>7. CASE UNCHANGED vars
  <2>1. TypeOK'
    BY <1>0, <1>7 DEF vars, TypeOK
  <2> QED
    BY <1>0, <1>7, <2>1, Unswitched DEF vars, IInv
<1> QED
  BY <1>1, <1>2, <1>4, <1>5, <1>6, <1>7, Zenon DEF Next

-----------------------------------------------------------------------------
(* What a display that is on has.                                          *)

\* Switching one display leaves what the others have alone.
LEMMA CompleteKept ==
    ASSUME Complete, NEW e \in Displays,
           \A d \in Displays \ {e} : on'[d] = on[d] /\ hw'[d] = hw[d] /\ mode'[d] = mode[d],
           on'[e] => Fulfils(e, hw'[e], mode'[e])
    PROVE  Complete'
<1>1. ASSUME NEW d \in Displays, on'[d] PROVE Fulfils(d, hw'[d], mode'[d])
  <2>1. CASE d = e
    BY <1>1, <2>1
  <2>2. CASE d # e
    BY <1>1, <2>2 DEF Complete
  <2> QED
    BY <2>1, <2>2
<1> QED
  BY <1>1, Zenon DEF Complete, Fulfils

\* A display that gets its blocks has all of them, and one that is switched off has
\* none.
LEMMA StepComplete ==
    ASSUME PrimaryHasDspp, TypeOK, Complete, [Next]_vars
    PROVE  Complete'
<1>0. CASE UNCHANGED <<on, hw, mode>>
  BY <1>0 DEF Complete, Fulfils
<1>1. ASSUME NEW e \in Displays, GetBlocks(e) PROVE Complete'
  <2>1. CASE UNCHANGED <<on, hw, mode>>
    BY <1>0, <2>1
  <2>2. ASSUME NEW T \in SUBSET Blocks, NEW top \in DOMAIN Topology,
               on' = [on EXCEPT ![e] = TRUE], hw' = [hw EXCEPT ![e] = T],
               mode' = [mode EXCEPT ![e] = top], Fulfils(e, T, top)
        PROVE  Complete'
    <3>1. \A d \in Displays \ {e} : on'[d] = on[d] /\ hw'[d] = hw[d] /\ mode'[d] = mode[d]
      BY <2>2 DEF TypeOK
    <3>2. hw'[e] = T /\ mode'[e] = top
      BY <2>2 DEF TypeOK
    <3> QED
      BY <2>2, <3>1, <3>2, CompleteKept
  <2> QED
    BY <1>1, <2>1, <2>2, GetBlocksComplete
<1>2. ASSUME NEW e \in Displays, NEW q \in Display[e].asks, NEW lock \in BOOLEAN,
             NEW clear \in BOOLEAN, atomic_check(e, q, lock, clear)
      PROVE  Complete'
  BY <1>0, <1>2 DEF atomic_check
<1>3. ASSUME NEW e \in Displays, NEW lock \in BOOLEAN, commit_off(e, lock) PROVE Complete'
  BY <1>0, <1>3 DEF commit_off
<1>4. ASSUME NEW e \in Displays, sde_encoder_update_caps_for_cont_splash(e) PROVE Complete'
  BY <1>1, <1>4 DEF sde_encoder_update_caps_for_cont_splash
<1>5. ASSUME NEW e \in Displays, mode_set(e) PROVE Complete'
  BY <1>1, <1>5 DEF mode_set
<1>6. ASSUME NEW e \in Displays, sde_encoder_virt_disable(e) PROVE Complete'
  <2>1. CASE UNCHANGED <<rsvp, on, hw, mode>>
    BY <1>0, <2>1
  <2>2. CASE /\ on' = [on EXCEPT ![e] = FALSE]
             /\ hw' = [hw EXCEPT ![e] = {}]
             /\ mode' = [mode EXCEPT ![e] = None]
    <3>1. /\ \A d \in Displays \ {e} : on'[d] = on[d] /\ hw'[d] = hw[d] /\ mode'[d] = mode[d]
          /\ ~on'[e]
      BY <2>2 DEF TypeOK
    <3> QED
      BY <3>1, CompleteKept
  <2> QED
    BY <1>6, <2>1, <2>2, DisableEffect
<1>7. CASE UNCHANGED vars
  BY <1>0, <1>7 DEF vars
<1> QED
  BY <1>2, <1>3, <1>4, <1>5, <1>6, <1>7, Zenon DEF Next

-----------------------------------------------------------------------------
(* Blocks that are locked.                                                 *)

\* the requirements, cs being what is asked of the other displays
Asked(e, q, cs) ==
    LET cloned == Display[e].clone
        lms == IF cloned = None THEN 0 ELSE Topology[cs[cloned].q.top].lm
    IN  [top  |-> IF q.cwb THEN IF lms = 1 THEN "singlepipe" ELSE "dualpipe_3dmerge"
                           ELSE q.top,
         dspp |-> q.dspp \/ Display[e].dsi,
         ds   |-> q.ds \/ (Display[e].dsi /\ Display[e].primary /\ HasDs),
         cwb  |-> q.cwb, cdm |-> q.cdm]

\* whoever holds the other blocks, a display that holds those of own, or finds them
\* free, gets what it asks for
Suffice(own, e, q, lit) ==
    \A s \in Holders : own \subseteq Free(s, e) => NextRsvp(s, e, q, lit).ok

\* The display e has its blocks locked and will reserve them; until then what it
\* holds suffices, and a display that it clones is not switched.
Waits(e) == com[e] \in {"queued", "modeset"} /\ conn[e].lock
LockOf(e) ==
    /\ conn[e].q.cwb /\ Display[e].clone # None => com[Display[e].clone] = "idle"
    /\ Suffice(Own(rsvp, e), e, Asked(e, conn[e].q, conn), splash[e])
LockInv == \A e \in Displays : Waits(e) => LockOf(e)

\* Of the other displays only a cloned one matters, and only to a clone.
LEMMA AskedSame ==
    ASSUME NEW e, NEW q, NEW cs, NEW ds,
           q.cwb /\ Display[e].clone # None => cs[Display[e].clone] = ds[Display[e].clone]
    PROVE  Asked(e, q, cs) = Asked(e, q, ds)
<1> DEFINE lms(x) == IF Display[e].clone = None THEN 0 ELSE Topology[x[Display[e].clone].q.top].lm
           top(x) == IF q.cwb THEN IF lms(x) = 1 THEN "singlepipe" ELSE "dualpipe_3dmerge"
                              ELSE q.top
<1>1. \A x : Asked(e, q, x) =
        [top |-> top(x), dspp |-> q.dspp \/ Display[e].dsi,
         ds |-> q.ds \/ (Display[e].dsi /\ Display[e].primary /\ HasDs),
         cwb |-> q.cwb, cdm |-> q.cdm]
  BY Zenon DEF Asked
<1>2. top(cs) = top(ds)
  <2>1. CASE q.cwb
    <3>1. lms(cs) = lms(ds)
      BY <2>1
    <3> HIDE DEF lms
    <3> QED
      BY <3>1
  <2>2. CASE ~q.cwb
    BY <2>2
  <2> QED
    BY <2>1, <2>2
<1> HIDE DEF top
<1> QED
  BY <1>1, <1>2, Zenon

\* What holds more blocks suffices too.
LEMMA SufficeMore ==
    ASSUME NEW e, NEW q, NEW lit, NEW own, NEW more, own \subseteq more,
           Suffice(own, e, q, lit)
    PROVE  Suffice(more, e, q, lit)
BY DEF Suffice

\* The lock holds while the display's request and blocks stay.
LEMMA LockStays ==
    ASSUME NEW e \in Displays, LockOf(e),
           conn'[e].q = conn[e].q, splash'[e] = splash[e], Own(rsvp, e) \subseteq Own(rsvp', e),
           conn[e].q.cwb /\ Display[e].clone # None =>
               /\ com'[Display[e].clone] = "idle"
               /\ conn'[Display[e].clone] = conn[Display[e].clone]
    PROVE  LockOf(e)'
<1> DEFINE q == conn[e].q
<1>1. Asked(e, q, conn) = Asked(e, q, conn')
  BY AskedSame
<1>2. Suffice(Own(rsvp, e), e, Asked(e, q, conn), splash[e])
  BY DEF LockOf
<1>3. Suffice(Own(rsvp', e), e, Asked(e, conn'[e].q, conn'), splash'[e])
  <2>1. PICK a : a = Asked(e, q, conn)
    OBVIOUS
  <2>2. PICK own, more, lit : own = Own(rsvp, e) /\ more = Own(rsvp', e) /\ lit = splash[e]
    OBVIOUS
  <2>3. Suffice(own, e, a, lit)
    BY <1>2, <2>1, <2>2
  <2>4. Suffice(more, e, a, lit)
    BY <2>2, <2>3, SufficeMore
  <2> QED
    BY <1>1, <2>1, <2>2, <2>4
<1>4. conn'[e].q.cwb /\ Display[e].clone # None => com'[Display[e].clone] = "idle"
  OBVIOUS
<1> QED
  BY <1>3, <1>4 DEF LockOf

\* A display d that is cloned by one that waits is idle, and starts nothing.
LEMMA OtherLocks ==
    ASSUME LockInv, NEW d \in Displays, NEW e \in Displays \ {d}, Waits(e)',
           Apart(d, rsvp, rsvp'),
           \A x \in Displays \ {d} :
               com'[x] = com[x] /\ conn'[x] = conn[x] /\ splash'[x] = splash[x],
           \/ com'[d] = com[d] /\ conn'[d] = conn[d]
           \/ com[d] # "idle"
           \/ \A x \in Displays : Display[x].clone = d /\ conn[x].q.cwb => com[x] = "idle"
    PROVE  LockOf(e)'
<1>1. com'[e] = com[e] /\ conn'[e] = conn[e] /\ splash'[e] = splash[e]
  OBVIOUS
<1>2. Waits(e)
  BY <1>1 DEF Waits
<1>3. LockOf(e) /\ com[e] # "idle"
  BY <1>2 DEF LockInv, Waits
<1>4. Own(rsvp, e) \subseteq Own(rsvp', e)
  BY OthersKeep
<1>5. ASSUME conn[e].q.cwb, Display[e].clone # None
      PROVE  /\ com'[Display[e].clone] = "idle"
             /\ conn'[Display[e].clone] = conn[Display[e].clone]
  <2>1. Display[e].clone \in Displays /\ com[Display[e].clone] = "idle"
    BY <1>3, <1>5, RmConstants DEF LockOf
  <2>2. CASE Display[e].clone = d
    BY <1>3, <1>5, <2>1, <2>2
  <2>3. CASE Display[e].clone # d
    BY <2>1, <2>3
  <2> QED
    BY <2>2, <2>3
<1> QED
  BY <1>1, <1>3, <1>4, <1>5, LockStays

\* A check that locks its proposal holds what suffices to get it again.
LEMMA LockTaken ==
    ASSUME TypeOK, NEW e \in Displays, NEW q \in Display[e].asks, NEW clear \in BOOLEAN,
           atomic_check(e, q, TRUE, clear), ~UNCHANGED <<conn, com>>
    PROVE  LockOf(e)'
<1>1. q \in Requests
  BY RmConstants
<1>2. rsvp \in Holders /\ nxt = [b \in Blocks |-> None]
  BY DEF TypeOK, Holders
<1>3. PICK res : /\ res = sde_rm_reserve(e, q, TRUE, TRUE, clear)
                 /\ rsvp' = res.rsvp /\ res.ok /\ MayCommit(e, q.cwb)
                 /\ conn' = [conn EXCEPT ![e] = [q |-> q, lock |-> TRUE]]
                 /\ \E m \in Modes(e) : com' = [com EXCEPT ![e] = m]
  BY Zenon DEF atomic_check
<1>4. ~on[e] /\ (q.cwb => on[Display[e].clone]) /\ splash' = splash
  BY Zenon DEF atomic_check
<1>5. PICK yes \in BOOLEAN : yes = TRUE
  OBVIOUS
<1>6. res = sde_rm_reserve(e, q, yes, yes, clear)
  BY <1>3, <1>5, Zenon
<1>7. Keeps(e, q, yes, yes, clear, res)
  BY <1>1, <1>2, <1>6, ReserveEffect
<1>8. PICK r, a, lit : /\ r = Current(e, yes, clear)
                       /\ a = _sde_rm_populate_requirements(e, q) /\ lit = splash[e]
  OBVIOUS
<1>9. NextRsvp(r, e, a, lit).ok /\ Own(rsvp', e) = NextRsvp(r, e, a, lit).tags
  BY <1>3, <1>5, <1>7, <1>8 DEF Keeps, Proposed
<1>10. a \in Requests
  BY <1>1, <1>8, Populated
<1>11. Suffice(Own(rsvp', e), e, a, lit)
  <2>1. PICK own : own = Own(rsvp', e)
    OBVIOUS
  <2>2. ASSUME NEW s \in Holders, own \subseteq Free(s, e) PROVE NextRsvp(s, e, a, lit).ok
    BY <1>9, <1>10, <2>1, <2>2, ProposalAgain
  <2> QED
    BY <2>1, <2>2 DEF Suffice
<1>12. q.cwb /\ Display[e].clone # None =>
         /\ Display[e].clone \in Displays \ {e} /\ com[Display[e].clone] = "idle"
  BY <1>3, <1>4, RmConstants DEF MayCommit
<1>13. conn'[e].q = q /\ \A x \in Displays \ {e} : conn'[x] = conn[x] /\ com'[x] = com[x]
  BY <1>3 DEF TypeOK
<1>14. a = Asked(e, q, conn')
  <2>1. a = Asked(e, q, conn)
    BY <1>8, Zenon DEF Asked, _sde_rm_populate_requirements
  <2>2. q.cwb /\ Display[e].clone # None => conn[Display[e].clone] = conn'[Display[e].clone]
    BY <1>12, <1>13
  <2> QED
    BY <2>1, <2>2, AskedSame
<1>15. Suffice(Own(rsvp', e), e, Asked(e, conn'[e].q, conn'), splash'[e])
  BY <1>4, <1>8, <1>11, <1>13, <1>14
<1>16. conn'[e].q.cwb /\ Display[e].clone # None => com'[Display[e].clone] = "idle"
  BY <1>12, <1>13
<1> QED
  BY <1>15, <1>16 DEF LockOf

\* Every step keeps what is locked: the display's own check takes it, its switch off
\* leaves it, and no other display's call takes a block of it away.
LEMMA StepLock ==
    ASSUME TypeOK, LockInv, [Next]_vars
    PROVE  LockInv'
<1>1. ASSUME NEW d \in Displays, NEW q \in Display[d].asks, NEW lock \in BOOLEAN,
             NEW clear \in BOOLEAN, atomic_check(d, q, lock, clear),
             NEW e \in Displays, Waits(e)'
      PROVE  LockOf(e)'
  <2>1. Apart(d, rsvp, rsvp') /\ UNCHANGED splash
    BY <1>1, CheckEffect DEF Moved
  <2>2. \/ UNCHANGED <<conn, com>>
        \/ /\ MayCommit(d, q.cwb)
           /\ conn' = [conn EXCEPT ![d] = [q |-> q, lock |-> lock]]
           /\ \E m \in Modes(d) : com' = [com EXCEPT ![d] = m]
    BY <1>1, Zenon DEF atomic_check
  <2>3. CASE e # d
    <3>1. \A x \in Displays \ {d} :
            com'[x] = com[x] /\ conn'[x] = conn[x] /\ splash'[x] = splash[x]
      BY <2>1, <2>2 DEF TypeOK
    <3>2. \/ com'[d] = com[d] /\ conn'[d] = conn[d]
          \/ \A x \in Displays : Display[x].clone = d /\ conn[x].q.cwb => com[x] = "idle"
      BY <2>2 DEF MayCommit
    <3> QED
      BY <1>1, <2>1, <2>3, <3>1, <3>2, OtherLocks
  <2>4. CASE e = d /\ UNCHANGED <<conn, com>>
    <3>1. Waits(e) /\ LockOf(e)
      BY <1>1, <2>4 DEF Waits, LockInv
    <3>2. ~lock /\ ~clear
      BY <1>1, <2>4, <3>1 DEF Waits, atomic_check
    <3>3. rsvp' = rsvp
      BY <1>1, <3>2, CheckEffect
    <3> QED
      BY <2>1, <2>4, <3>1, <3>3, LockStays DEF LockOf
  <2>5. CASE e = d /\ ~UNCHANGED <<conn, com>>
    <3>1. lock = TRUE
      BY <1>1, <2>2, <2>5 DEF Waits, TypeOK
    <3> QED
      BY <1>1, <2>5, <3>1, LockTaken
  <2> QED
    BY <2>3, <2>4, <2>5
<1>2. ASSUME NEW d \in Displays, NEW lock \in BOOLEAN, commit_off(d, lock),
             NEW e \in Displays, Waits(e)'
      PROVE  LockOf(e)'
  <2>1. e # d
    BY <1>2 DEF commit_off, Waits, TypeOK
  <2>2. Apart(d, rsvp, rsvp')
    BY <1>2 DEF commit_off, Apart
  <2>3. \A x \in Displays \ {d} :
          com'[x] = com[x] /\ conn'[x] = conn[x] /\ splash'[x] = splash[x]
    BY <1>2 DEF commit_off, TypeOK
  <2>4. \A x \in Displays : Display[x].clone = d /\ conn[x].q.cwb => com[x] = "idle"
    BY <1>2 DEF commit_off, MayCommit
  <2> QED
    BY <1>2, <2>1, <2>2, <2>3, <2>4, OtherLocks
<1>3. ASSUME NEW d \in Displays, GetBlocks(d), com[d] # "idle",
             \A x \in Displays \ {d} : splash'[x] = splash[x],
             NEW e \in Displays, Waits(e)'
      PROVE  LockOf(e)'
  <2>1. e # d
    BY <1>3 DEF GetBlocks, Waits, TypeOK
  <2>2. Apart(d, rsvp, rsvp')
    BY <1>3, GetBlocksEffect DEF Moved
  <2>3. \A x \in Displays \ {d} : com'[x] = com[x] /\ conn'[x] = conn[x]
    BY <1>3 DEF GetBlocks, TypeOK
  <2> QED
    BY <1>3, <2>1, <2>2, <2>3, OtherLocks
<1>4. ASSUME NEW d \in Displays, sde_encoder_update_caps_for_cont_splash(d),
             NEW e \in Displays, Waits(e)'
      PROVE  LockOf(e)'
  BY <1>3, <1>4 DEF sde_encoder_update_caps_for_cont_splash
<1>5. ASSUME NEW d \in Displays, mode_set(d), NEW e \in Displays, Waits(e)'
      PROVE  LockOf(e)'
  <2>1. GetBlocks(d) /\ com[d] # "idle"
    BY <1>5 DEF mode_set
  <2>2. \A x \in Displays \ {d} : splash'[x] = splash[x]
    BY <1>5 DEF mode_set, TypeOK
  <2> QED
    BY <1>3, <1>5, <2>1, <2>2
<1>6. ASSUME NEW d \in Displays, sde_encoder_virt_disable(d), NEW e \in Displays, Waits(e)'
      PROVE  LockOf(e)'
  <2>1. /\ com[d] \in {"queued", "off"} /\ splash' = splash
        /\ com' = [com EXCEPT ![d] = IF com[d] = "off" THEN "idle" ELSE "modeset"]
        /\ conn' = [conn EXCEPT ![d] = IF com[d] = "off" THEN NoRequest(d) ELSE conn[d]]
    BY <1>6, Zenon DEF sde_encoder_virt_disable
  <2>2. \A x \in Displays \ {d} :
          com'[x] = com[x] /\ conn'[x] = conn[x] /\ splash'[x] = splash[x]
    BY <2>1 DEF TypeOK
  <2>3. CASE e # d
    <3>1. Apart(d, rsvp, rsvp') /\ com[d] # "idle"
      BY <1>6, <2>1, DisableEffect DEF Moved
    <3> QED
      BY <1>6, <2>2, <2>3, <3>1, OtherLocks
  <2>4. CASE e = d
    <3>1. com[e] = "queued" /\ conn' = conn
      BY <1>6, <2>1, <2>4 DEF Waits, TypeOK
    <3>2. Waits(e) /\ LockOf(e)
      BY <1>6, <3>1 DEF Waits, LockInv
    <3>3. rsvp' = rsvp
      <4>1. conn[d].lock
        BY <2>4, <3>2 DEF Waits
      <4>2. sde_rm_release(d) = rsvp
        BY <4>1, Zenon DEF sde_rm_release
      <4>3. rsvp' = sde_rm_release(d) \/ rsvp' = rsvp
        BY <1>6, Zenon DEF sde_encoder_virt_disable
      <4> QED
        BY <4>2, <4>3
    <3>4. ASSUME conn[e].q.cwb, Display[e].clone # None PROVE com'[Display[e].clone] = "idle"
      <4>1. Display[e].clone \in Displays /\ com[Display[e].clone] = "idle"
        BY <3>2, <3>4, RmConstants DEF LockOf
      <4> QED
        BY <2>2, <2>4, <3>1, <4>1
    <3> QED
      BY <2>1, <3>1, <3>2, <3>3, <3>4, LockStays
  <2> QED
    BY <2>3, <2>4
<1>7. ASSUME UNCHANGED vars, NEW e \in Displays, Waits(e)' PROVE LockOf(e)'
  BY <1>7 DEF vars, Waits, LockInv, LockOf
<1>8. ASSUME NEW e \in Displays, Waits(e)' PROVE LockOf(e)'
  BY <1>1, <1>2, <1>4, <1>5, <1>6, <1>7, <1>8, Zenon DEF Next
<1> QED
  BY <1>8, Zenon DEF LockInv

\* Nothing is locked while the boot loader's picture is shown.
LEMMA InitLock == Init => LockInv
<1> SUFFICES ASSUME Init, NEW e \in Displays PROVE ~Waits(e)
  BY DEF LockInv
<1> QED
  BY DEF Init, Waits

\* The locked blocks are the display's, hence free for it.
LEMMA LockSuffices ==
    ASSUME TypeOK, LockInv
    PROVE  LockHolds
<1> SUFFICES ASSUME NEW e \in Displays, com[e] \in {"queued", "modeset"}, conn[e].lock
             PROVE  sde_rm_reserve(e, conn[e].q, FALSE, TRUE, FALSE).ok
  BY DEF LockHolds
<1>1. rsvp \in Holders /\ nxt = [b \in Blocks |-> None] /\ conn[e].q \in Requests
  BY DEF TypeOK, Holders
<1>2. PICK no, yes \in BOOLEAN : no = FALSE /\ yes = TRUE
  OBVIOUS
<1>3. PICK res : res = sde_rm_reserve(e, conn[e].q, no, yes, no)
  OBVIOUS
<1>4. PICK ask \in Requests : ask = conn[e].q
  BY <1>1
<1>5. Keeps(e, ask, no, yes, no, res)
  <2>1. res = sde_rm_reserve(e, ask, no, yes, no)
    BY <1>3, <1>4
  <2> QED
    BY <1>1, <2>1, ReserveEffect
<1>6. NextRsvp(rsvp, e, Asked(e, ask, conn), splash[e]).ok
  <2>1. Suffice(Own(rsvp, e), e, Asked(e, ask, conn), splash[e])
    BY <1>4 DEF LockInv, LockOf, Waits
  <2>2. Own(rsvp, e) \subseteq Free(rsvp, e)
    BY DEF Own, Free, RESERVED_BY_OTHER
  <2> QED
    BY <1>1, <2>1, <2>2 DEF Suffice
<1>7. Current(e, no, no) = rsvp
  BY <1>2 DEF Current
<1>8. _sde_rm_populate_requirements(e, ask) = Asked(e, ask, conn)
  BY Zenon DEF Asked, _sde_rm_populate_requirements
<1>9. res.ok
  BY <1>5, <1>6, <1>7, <1>8 DEF Keeps, Proposed
<1> QED
  BY <1>2, <1>3, <1>9, Zenon

-----------------------------------------------------------------------------
(* The theorems.                                                           *)

\* The inductive invariant holds in every state of the manager and its users.
THEOREM InvInductive == Spec => []IInv
BY InitInv, StepInv, PTL DEF Spec

\* Every variable keeps its type, and no proposal outlives the call of
\* sde_rm_reserve that made it, whether it succeeded, failed or only tested.
THEOREM TypeCorrect == Spec => []TypeOK
<1>1. IInv => TypeOK
  BY DEF IInv
<1> QED
  BY <1>1, InvInductive, PTL

\* A display that is on drives blocks reserved for it and for nobody else, for
\* every catalog: the search tags only blocks that are free or its own, and no
\* other display's check, lock, clear or switch takes one away.
THEOREM NoSharedBlocks == Spec => []DrivesItsOwn
<1>1. IInv => DrivesItsOwn
  BY DEF IInv
<1> QED
  BY <1>1, InvInductive, PTL

\* A display that is on has, for every catalog in which the mixers of the primary
\* display have a DSPP, as many mixers, pairs of mixers and compression blocks as
\* its topology asks for, with all that is wired to them: what the rounds of the
\* search find is counted, and a proposal that succeeded is fetched whole.
THEOREM DisplaysComplete ==
    ASSUME PrimaryHasDspp
    PROVE  Spec => []Complete
<1>1. Init => Complete
  BY DEF Init, Complete
<1>2. TypeOK /\ Complete /\ [Next]_vars => Complete'
  BY StepComplete
<1> QED
  BY <1>1, <1>2, TypeCorrect, PTL DEF Spec

\* A display whose blocks were locked by a successful check gets what it asked for,
\* for every catalog and whatever the other displays reserve, release, lock and
\* clear until its commit is through ("after a successful test, reserve the
\* resources for this display"): the search may find other blocks then, but it
\* finds enough, since it looks at the same lists with at least the same of them
\* free and takes pairs before the last block.
THEOREM LocksHold == Spec => []LockHolds
<1>1. TypeOK /\ LockInv /\ [Next]_vars => LockInv'
  BY StepLock
<1>2. TypeOK /\ LockInv => LockHolds
  BY LockSuffices
<1> QED
  BY <1>1, <1>2, InitLock, TypeCorrect, PTL DEF Spec

\* Every step of the manager is a step of the abstract one, or none: a check of a
\* display that is on changes nothing, a check of one that is off and a switch
\* move blocks between that display and nobody only, and switching off gives back
\* all blocks or, locked, none.
THEOREM StepImplements == TypeOK /\ [Next]_vars => [R!Next]_R!vars
<1> SUFFICES ASSUME TypeOK, [Next]_vars PROVE R!Next \/ UNCHANGED <<rsvp, on>>
  BY DEF R!vars
<1>1. ASSUME NEW e \in Displays, NEW q \in Display[e].asks, NEW lock \in BOOLEAN,
             NEW clear \in BOOLEAN, atomic_check(e, q, lock, clear)
      PROVE  R!Next \/ UNCHANGED <<rsvp, on>>
  <2>1. CASE rsvp' = rsvp
    BY <1>1, <2>1, CheckEffect
  <2>2. CASE ~on[e]
    <3>1. R!Prepare(e)
      <4>1. UNCHANGED on /\ Apart(e, rsvp, rsvp')
        BY <1>1, CheckEffect DEF Moved
      <4> QED
        BY <2>2, <4>1 DEF R!Prepare, R!Moves, Apart
    <3> QED
      BY <3>1 DEF R!Next
  <2> QED
    BY <1>1, <2>1, <2>2, CheckEffect
<1>2. ASSUME NEW e \in Displays, NEW lock \in BOOLEAN, commit_off(e, lock)
      PROVE  UNCHANGED <<rsvp, on>>
  BY <1>2 DEF commit_off
<1>3. ASSUME NEW e \in Displays, GetBlocks(e) PROVE R!Next \/ UNCHANGED <<rsvp, on>>
  <2>1. CASE UNCHANGED <<rsvp, on, hw, mode>>
    BY <2>1
  <2>2. CASE on' = [on EXCEPT ![e] = TRUE]
    <3>1. R!SwitchOn(e)
      BY <1>3, <2>2, GetBlocksEffect DEF R!SwitchOn, R!Moves, Moved, Apart
    <3> QED
      BY <3>1 DEF R!Next
  <2> QED
    BY <1>3, <2>1, <2>2, GetBlocksEffect
<1>4. ASSUME NEW e \in Displays, sde_encoder_virt_disable(e)
      PROVE  R!Next \/ UNCHANGED <<rsvp, on>>
  <2>1. CASE UNCHANGED <<rsvp, on, hw, mode>>
    BY <2>1
  <2>2. CASE /\ on' = [on EXCEPT ![e] = FALSE]
             /\ rsvp' = rsvp \/ rsvp' = _sde_rm_release_rsvp(rsvp, e)
    <3>1. R!SwitchOff(e)
      BY <2>2 DEF R!SwitchOff, _sde_rm_release_rsvp
    <3> QED
      BY <3>1 DEF R!Next
  <2> QED
    BY <1>4, <2>1, <2>2, DisableEffect
<1>5. CASE UNCHANGED vars
  BY <1>5 DEF vars
<1> QED
  BY <1>1, <1>2, <1>3, <1>4, <1>5, Zenon
     DEF Next, sde_encoder_update_caps_for_cont_splash, mode_set

\* The resource manager implements the abstract specification of reservations,
\* for every catalog and every set of displays.
THEOREM Refinement == Spec => ImplementsReservations
<1>1. Init => R!Init
  <2>1. Init => TypeOK
    BY InitInv DEF IInv
  <2> QED
    BY <2>1 DEF R!Init, TypeOK
<1> QED
  BY <1>1, StepImplements, TypeCorrect, PTL DEF Spec, ImplementsReservations, R!Spec
=============================================================================
