------------------------------ MODULE MCSdeRm ------------------------------
(* A small catalog for TLC: a primary DSI panel lit by the boot loader, a   *)
(* DisplayPort and a writeback, on four mixers.                             *)
EXTENDS SdeRm

MCDisplays == {"dsi", "dp", "wb"}
Ask(top, cdm, cwb) == [top |-> top, dspp |-> FALSE, ds |-> FALSE, cwb |-> cwb, cdm |-> cdm]
Panel(primary, dsi, wb, outs, clone, asks) ==
    [primary |-> primary, dsi |-> dsi, wb |-> wb, outs |-> outs, clone |-> clone,
     asks |-> asks]
MCDisplay == [
    dsi |-> Panel(TRUE, TRUE, FALSE, {<<"intf", 1>>, <<"intf", 2>>}, None,
                  {Ask("singlepipe", FALSE, FALSE), Ask("dualpipe_dsc", FALSE, FALSE)}),
    dp  |-> Panel(FALSE, FALSE, FALSE, {<<"intf", 0>>}, None,
                  {Ask("dualpipe_3dmerge_dsc", TRUE, FALSE), Ask("singlepipe", FALSE, FALSE)}),
    wb  |-> Panel(FALSE, FALSE, TRUE, {<<"wb", 2>>}, "dsi",
                  {Ask("singlepipe", FALSE, TRUE)})]
NoSplash == [lit |-> FALSE, q |-> Ask("singlepipe", FALSE, FALSE), lm |-> <<>>,
             ctl |-> <<>>, dsc |-> <<>>]
MCSplash == [
    dsi |-> [lit |-> TRUE, q |-> Ask("dualpipe_dsc", FALSE, FALSE), lm |-> <<1, 2>>,
             ctl |-> <<1, 2>>, dsc |-> <<1, 2>>],
    dp |-> NoSplash, wb |-> NoSplash]

Lm(pp, dspp, ds, pairs, cwb) ==
    [pp |-> pp, dspp |-> dspp, ds |-> ds, pairs |-> pairs, primary |-> FALSE, cwb |-> cwb]
MCMixer == <<Lm(1, 1, 0, {2}, FALSE), Lm(2, 2, 0, {1}, FALSE),
             Lm(3, 0, 0, {4}, TRUE), Lm(4, 0, 0, {3}, TRUE)>>
MCPingpong == [p \in 1..4 |-> [split |-> FALSE, slave |-> FALSE]]
C(split) == [split |-> split, ppsplit |-> FALSE, primary |-> FALSE]
MCCtl == <<C(TRUE), C(TRUE), C(FALSE), C(FALSE), C(FALSE)>>
MCDsc == <<{2}, {1}, {}>>
MCCdm == <<{<<"wb", 2>>, <<"intf", 0>>}>>
=============================================================================
