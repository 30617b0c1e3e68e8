# TLA+ models of the ixgbevf VF driver

This directory holds TLA+ models of the parts of the ixgbevf driver (`src/`) that make decisions:

- the VF side of the VF↔PF mailbox protocol;
- the reset handshake;
- the address and filter requests;
- the RSS queries;
- the word encodings of the mailbox messages;
- the ethtool ring resize (`set_ringparam`) and the callbacks that take the interface down and up;
- the module parameters (`ixgbevf_param.c`);
- the ethtool coalesce, RSS hash-option and private-flag settings;
- the offline self test's register test and the register access layer (`ixgbevf_osdep*.h`) that it runs on, with the device removable at any step;
- link status (`ixgbe_check_mac_link_vf`) as the watchdog caches it, and the two ethtool readers of it: the link settings report and the link test;
- the ethtool offload setters of kernels without `ndo_set_features` (Rx/Tx checksum, TSO);
- the ethtool statistics dump: the count, the names and the values, which must agree entry by entry.

The TLC configurations here check those models.

## The system and how its parts interact

The VF driver controls its hardware through registers, and it controls everything else by asking the PF.

- **The mailbox** is one 16-word buffer shared by VF and PF, with three status bits (`spec.md` 4.1):
  - REQ: the VF posted a message;
  - ACK: the PF took it;
  - STS: the PF posted a message.

  `write_posted` writes and then polls for ACK. `read_posted` polls for STS and then reads. Both polls are bounded, so either can time out.

  A VF write clears stale ACK/STS. A PF reply overwrites the buffer and drops a REQ that is still pending. There is one buffer, so a late answer and a new request share it.
- **The transport and the PF live outside `src/`** (`ixgbe_mbx.c`, the PF driver). They are modelled from the spec's contract and marked `spec_modelled` in the map.
- **reset_hw** (`ixgbe_vf.c` 123-178) runs the reset handshake:
  1. stop the adapter;
  2. issue an FLR;
  3. poll the reset indication for up to `IXGBE_VF_INIT_TIMEOUT` rounds;
  4. post RESET and read the reply;
  5. accept only `RESET|ACK`, from which it takes the permanent MAC and `mc_filter_type`.

  `init_hw` then starts the adapter with that MAC.
- **The requests**:
  - set_rar waits for an answer.
  - set_uc_addr waits for an answer.
  - set_vfta and update_mc_addr_list are posted, with no answer message.
  - The RSS queries in `ixgbevf_ethtool.c` (get_reta_locked and get_rss_key_locked) skip the ACK wait: they write, then poll for any message.
- **The ethtool callbacks** run under `rtnl_lock`, one at a time.
  - `set_ringparam` is the one with a multi-step error path. It takes `__IXGBEVF_RESETTING`, clones every ring with the new count, and sets each clone up. Any allocation may fail, and a failure unwinds the clones set up so far. It then takes the interface down, swaps the rings in, and brings it up.
  - `diag_test` and `nway_reset` take a running interface down and up. The offline `diag_test` also walks `reg_test_vf`: for every tested register it saves the value, writes four patterns, reads each back and restores the saved value, and it stops at the first mismatch. Two entries of the table enable and then clear RXDCTL; the `ixgbevf_reset` after the test disables the queues again.
  - On kernels without `ndo_set_features`, `set_rx_csum` sets the adapter's Rx checksum flag and reinits a running interface (not when `dev_closed` is set) or resets a stopped one. `set_tx_csum` and `set_tso` flip netdev feature bits; turning TSO off also strips it from every VLAN device of `adapter->vlgrp`.
  - A statistics dump (`ethtool -S`) is three callbacks: `get_sset_count` gives the entry count, ethtool allocates that many name slots and u64 values, then `get_strings` and `get_ethtool_stats` fill them. The count comes from a macro over the queue counts; the names and the values come from two separate sets of loops, which must stay in step. The values also have a zero branch for a ring pointer that is NULL.
  - The other settings handlers validate input and move it into adapter state: the coalesce settings and each vector's EITR, the RSS flags and VFMRQC, and the legacy-rx flag (with a reinit of a running interface).
- **Link status** comes from the VFLINKS register, which the PF drives, not from the mailbox. The driver's periodic watchdog (outside `src/`) calls `check_link` with `adapter->link_speed` and `adapter->link_up` as the outputs. During a PF reset `check_mac_link` reports link down and speed 0. Otherwise it takes link up from LINKS_UP and maps the 2-bit speed field; pattern 00 has no case, so the speed from an earlier call stays. `get_link_ksettings` reports from those two adapter fields. The link test of the self test calls `check_link` with a local speed and looks only at link up.
- **Register access** (`ixgbevf_osdep2.h`): `IXGBE_WRITE_REG` does nothing once `hw->hw_addr` is cleared. A removed device reads as all-ones, and the driver clears `hw_addr` when such a read finds the device gone (`spec.md` line 55).
- **The module parameters** are read once at probe by `ixgbevf_check_options`, from arrays of `IXGBE_MAX_NIC + 1` entries indexed by board number.

## Modules

| Module | Models | State ↔ code |
|---|---|---|
| `VfMailbox` | Mailbox transport and the PF (spec 4.1, 4.2) | `mbmem` is the buffer as a record `[op, flag, seq, mac, data]` (seq is a ghost request number). `vfReq`, `pfAck` and `pfSts` are the REQ, ACK and STS bits. `rst` is the reset indication. `pfMsg`, `pfMac`, `pfReady` and `pfResets` are the PF's pending request, the address it assigned, whether it knows the VF, and its own resets. `VfFlr` is the FLR write in reset_hw. |
| `IxgbeVf` | VF operations in `ixgbe_vf.c` and the RSS queries in `ixgbevf_ethtool.c` | `pc` is where the one caller under `mbx_lock` is: `probe`, `idle`, `rst_poll`, `ack` or `read`. `curOp`, `retVal` and `rstPoll` are the call's opcode, its `ret_val` and the poll budget. `permAddr`, `macAddr`, `mcFilterType`, `adapterStopped` and `macValid` are `hw->mac.*`. `rssReta` and `rssKey` are the caller's buffers. Each code step between two mailbox calls is one action, for example `ResetPollWait`, `ResetReply`, `SetRarReply` and `RssReadPosted`. |
| `VfMsgCodec` | Word encodings | `MtaVector` is `ixgbe_mta_vector`. `McRequest` is the buffer that `update_mc_addr_list` builds. `UcWord0` is set_uc_addr's word 0. `RetaDecode` is the RETA loop. The PF's decoders `McEntries`, `MsgInfo` and `PackReta` come from the spec. u32 words are kept as u16 halves because TLC integers are 32-bit signed. |
| `MCIxgbeVf` | Model values for `IxgbeVf` | Two MACs. `m1` is the one the PF assigns. |
| `MCVfMsgCodec` | Harness for the encodings, the statistics dump and the module parameters | `job` picks what a behaviour runs: one encoder or decoder on one input, one statistics dump (`VfStats`), or one probe of `VfParam`. The other jobs' variables stay pinned, so the state spaces add up. The invariants compare a result with a reference, with the PF's decoding, or with the other calls of the dump. |
| `VfStats` | `IXGBEVF_STATS_LEN`, `ixgbevf_get_strings(ETH_SS_STATS)`, `ixgbevf_get_ethtool_stats` | Pure operators. An entry is the statistic it is about: a row of `ixgbe_gstrings_stats` or `[kind, q, f]` for field `f` of queue `q` of a Tx, XDP or Rx ring; `Zero` is the 0 written for a NULL ring. `StatFields(bp)` is `struct ixgbevf_stats` with or without `BP_EXTENDED_STATS` (packets, bytes, and yields/misses/cleaned). Each loop over the queues of a kind is one `FlattenSeq`. |
| `VfRingParam` | `ixgbevf_set_ringparam`, `ixgbevf_diag_test`, `ixgbevf_nway_reset` | A ring is `[count, res]`: its descriptor count and the descriptors its resources hold. `txq` and `rxq` are the adapter's rings (Tx slots after `NumTx` are the XDP rings). `txBuf`, `rxBuf`, `newTx`, `newRx` and `err` are the call's locals. `pc` is its label: `spin`, `setup_tx`, `setup_rx`, `swap` or `clear_reset`. `resetting` is `__IXGBEVF_RESETTING`. `leaked` records clone memory dropped without a free. `Open` and `Close` (`ixgbevf_open`/`close`) are not in `src/` and are modelled from the spec. |
| `VfParam` | `ixgbevf_validate_option`, `ixgbevf_check_options` | One behaviour is one probe of board `bd`. `itrArg` and `rbmArg` are `<<array, num_X>>` as `module_param_array` leaves them. `eitr`, `itr` and `flags` are `eitr_param`, `itr_setting` and the Rx capability flags. |
| `VfCoalesce` | `ixgbevf_set_coalesce`, `ixgbevf_get_coalesce` | `rxSetting` and `txSetting` are `rx/tx_itr_setting`. `vecItr[i]` is `q_vector[i]->itr`. `layout` fixes which vectors hold Rx, Tx or both. `req` and `reported` are the last accepted request and the last report. |
| `MCEthtoolSettings` | `VfCoalesce`, `VfRxnfc`, `VfLink`, `VfOffload` and `VfRingParam` on one adapter | `part` picks the behaviour's subject. In part `settings`, each step is one whole coalesce or rxnfc handler, as under `rtnl_lock`. In parts `link`, `offload` and `rings`, the steps are those of `VfLink`, `VfOffload` or `VfRingParam`. These share no state with the settings handlers, so their states are added to theirs rather than multiplied. `ofRunning` is `VfOffload`'s `running`, apart from `VfRxnfc`'s. `rgRunning` is `VfRingParam`'s `running`. The properties of all five are re-exported under their own names. |
| `VfOffload` | `ixgbevf_set_rx_csum`, `set_tx_csum`, `set_tso` | `rxCsum` is IXGBE_FLAG_RX_CSUM_ENABLED. `features` holds the netdev offload bits. `vlans` maps each VLAN id that holds a device to its features. `running` and `devClosed` are `netif_running` and `adapter->dev_closed`. `hwCsum` is the mode the running queues were set up in. `Reinit`, `Open`, `Close` and `AddVlan` are driver-core code outside `src/`, from their contract. |
| `VfLink` | `ixgbe_check_mac_link_vf`, `ixgbevf_get_link_ksettings`/`get_settings`, `ixgbevf_link_test` and the online self test | `links` is the upper half of VFLINKS (LINKS_UP and the speed field). `rst` is the mailbox reset indication. `linkUp` and `linkSpeed` are `adapter->link_up` and `link_speed`. `testData` is the self test's `data[1]`. `lastMapped` is a history variable: the latest mapped speed field the watchdog read since it last saw a reset. `CheckMacLink` returns `<<ret, link_up, speed>>`. `Report` is the speed/duplex report. `Watchdog` (outside `src/`), `LinksChange` and `RstToggle` come from the spec. |
| `VfRegTest` | `ixgbevf_diag_test` (offline), `ixgbevf_reg_test`, `reg_pattern_test`, `IXGBE_READ_REG`/`IXGBE_WRITE_REG`, the Rx half of `ixgbe_stop_adapter_vf` and the FLR of `ixgbe_reset_hw_vf` | A u32 is `<<hi, lo>>` u16 halves joined with `Bitwise` `&`. `hwRegs` is the register file over the tested registers and the two RXDCTLs, keyed by the real offsets. `impl[r]` is the bits register `r` implements (healthy: the table's mask; a fault from `Faults` changes one register). `gone` is the physical removal, `hwNull` the cleared `hw_addr`. `pc` is the test's position (`start`, `regtest`, `entry`, `pat_write`, `pat_check`, `reset`, `done`); `ent`, `idx`, `pat`, `before`, `data`, `rc` are the code's loop indices and locals. `sawOnes` is a ghost. `ResetHw` is `ixgbevf_reset` as far as the queues go: `stop_adapter` clears RXDCTL(i) for `i < max_rx_queues` (1, as `ixgbe_init_ops_vf` sets it), then the VFCTRL.RST function-level reset disables every queue of the VF. `CloseRx`, `OpenRegs`, `CheckRemove` and `Remove` come from the spec. |
| `HwControl` | The hardware control state machine of spec 4.3 (abstract) | `phase` is Idle, Resetting or AwaitingPermAddr. `stopped`, `permOk`, `perm`, `mcType` and `mac` are the flag and caches the spec names. An acknowledged reset caches the PF's MAC and filter type. Init needs a trusted MAC. A rejected MAC change falls back to `perm`. Every reset ends (weak fairness). |
| `RegTestSpec` | What the register test promises (abstract) | One `Test` step: on a present device, pass iff every tested register is healthy, else fail with the first unhealthy register in table order; registers unchanged. Once gone, any verdict. `Remove` makes every register all-ones. |
| `VfRxnfc` | `set_rxnfc`/`set_rss_hash_opt`, `get_rss_hash_opts`, `set/get_priv_flags` | `flags` holds the two UDP RSS flags and LEGACY_RX. `vfmrqc` is the VFMRQC register's fields. `ringsLegacy` is the Rx mode the running queues were set up in. `asked` is the last accepted request per flow. |

**Why there is a single caller.** The driver holds `adapter->mbx_lock` around every mailbox exchange, including get_rxfh. The model therefore runs one VF operation at a time. The interleavings it explores are the ones between that operation and the PF: a late answer, a lost request, a PF reset, or a poll timing out while the PF is still working.

## Runs

| Run | Expect | What it checks |
|---|---|---|
| `ideal` (`MCIxgbeVf_ideal.cfg`) | pass | The PF always answers and polls never time out. `AcceptedRepliesCorrelated`: every reply the VF accepts answers its latest request. `OpsComplete`: every call returns. `HwControlRefined`: `IxgbeVf` implements `HwControl`, including that every reset ends. |
| `lossy` (`MCIxgbeVf_lossy.cfg`) | pass | Polls may time out while the PF is slow or resetting. `ResetHandshakeAgreed`: a valid MAC equals what the PF assigned, with a matching filter type. `RssQueryTruthful`: RSS results are the PF's data. |
| `late_reply` | violation | `AcceptedRepliesCorrelated` fails. Reset ignores `write_posted`'s error and reads a RESET\|ACK left over from a timed-out earlier reset. |
| `nack_silent` | violation | `NackReported` fails. `set_rar` returns 0 on a NACK, but the spec (§7) says a NACK is reported. |
| `reset_timeout` (`MCIxgbeVf_rsttimeout.cfg`) | violation | `ResetTimeoutReported` fails. A reset whose indication is still set when the poll budget runs out returns `IXGBE_ERR_INVALID_MAC_ADDR`, the error of a refused reply. Spec 4.3, 7 and 8 ask for a distinct reset-timeout error. |
| `reset_last_poll` (`MCIxgbeVf_lastpoll.cfg`) | violation | `ResetGivesUpOnlyWhileResetting` fails. The last `check_for_rst`, made when `timeout` is already 0, may see the reset cleared, but `reset_hw` tests `timeout` and gives up anyway. |
| `codec` | pass | `mta_vector` is checked against a bit-window reference for all 65536 byte pairs × 5 filter types. The multicast request fits 16 words and decodes to the first 30 vectors. The RETA decode gives valid queues. Statistics: `StatsFitCount`: the names and values a dump writes are as many as each other and no more than `get_sset_count` allocated. `StatsAligned`: the i-th value is the counter the i-th name names, or 0 for a NULL ring. Parameters: `ParamTypeOK` and `ItrAsDescribed`: every InterruptThrottleRate entry (0, 1, the range edges, negative ints) gives the rate and control bit that the description and comments promise. |
| `diag_reopen` (`VfRingParam_reopen.cfg`) | violation | `UpRingsBacked` fails. `diag_test` ignores `ixgbevf_open`'s error, and a following `nway_reset` brings the interface up on freed rings. |
| `param_rbm_default` | violation | `RxBufModeDefault` fails. A board with no RxBufferMode entry gets 1BUF\|PS (mode 2), not the documented default mode 0. |
| `ethtool_settings` (`MCEthtoolSettings.cfg`) | pass | The coalesce and rxnfc/private-flag handlers interleaved. `CoalesceRoundTrip`: get_coalesce reports what set_coalesce accepted. `VectorsFollowRequest`: every vector's EITR follows the request for its rings, on mixed and split layouts and at the range edge. `HashOptsRoundTrip`: the hash options read back as set, for every flow. `MrqcMatchesFlags`: VFMRQC agrees with the UDP flags. `LegacyRxApplied`: the running queues follow the legacy-rx flag across open and close. Link part: `SpeedNotCarriedAcrossReset`: with the link up, the report shows `SPEED_UNKNOWN` or the latest mapped speed read since the last PF reset, never a speed from before it. `LinkReportSettles`: unless VFLINKS or the reset indication keep changing, the report keeps returning to agreement with them. Offload part: `RxCsumApplied`: a running interface (not marked `dev_closed`) checks Rx checksums exactly as the flag says. `VlanTsoWithinReal`: no VLAN device has TSO the real device turned off. Rings part: `set_ringparam` calls where any vmalloc or ring setup may fail, mixed with open, close, `diag_test` and `nway_reset`. `RingsConsistent`: between calls every ring has the adapter's count. `NoLeak`: no clone memory is lost on any unwind. `ErrorKeepsConfig`: an error return changes nothing. `RingCallReturns`: every call returns and clears the bit. |
| `regtest` (`VfRegTest.cfg`) | pass | The offline self test, with one faulty register or none and a removal possible at every step. `RegTestRefines`: the step-by-step test implements `RegTestSpec` (the refinement maps the register under test to its saved value between write and restore, a removed device to all-ones, and `pc`/`rc` to the verdict). `RemovalNeverPasses`: a test that read a removed device never passes. `QueuesQuiescedAfterTest`: on a stopped interface no RXDCTL is left enabled, even when a failure skipped the table's RXDCTL clear. `DiagTestReturns`: every test returns. |

What the passing runs do not show:
- The PF's MAC, filter type and RSS data are constants, so `ResetHandshakeAgreed` and `RssQueryTruthful` cannot tell a late answer from a fresh one; the `late_reply` run is where a stale answer shows.
- The multicast request's halves past the count are abstracted, so `McRequestRoundTrip` says nothing about the uninitialised half word the code may send.
- The `uc` job of the codec run only exercises `UcWord0`; the word it builds is checked against the PF in `IxgbeVf`, not here.

Every property of a passing run has a mutant in `PROJECT.json`: a plausible bug in the code it is about, which TLC finds. The findings in `PROJECT.json` explain each violation.

## Bounds

- `MaxOps = 5` in `ideal` and `lossy`. This is enough for:
  - a reset, a timed-out request, and a second request that meets its late answer, then a third;
  - a reset followed by set_rar, then a NACK, then another request;
  - two timed-out requests whose late answers are both pending around a new reset.
- `InitTimeout = 2`: the poll loop both expires and succeeds.
- `MaxPFResets = 2`: one PF reset raises the reset indication while the VF holds a valid MAC or has a request in flight (it leaves `pfReady` and `pfMac` as they were); a second lets a PF reset land during the VF's recovery from the first.
- Two MACs: one assigned and one other. This is enough to tell "accepted" from "reverted".
- `RssData` is a single value, so a refused or foreign reply is told apart by its op and flag.
- The codec run uses all 256 values of address bytes 4 and 5.
  - RETA dwords are packed at 4 entries instead of 16, because TLC integers are 32-bit signed. The decode loop is the same.
  - Multicast list lengths include 29, 30, 31 and 33, around the 30-vector cap.
  - The `stats` job takes 0 to 2 Tx queues, 0 or 1 XDP queue, 1 or 2 Rx queues, every set of NULL rings among them, with and without `BP_EXTENDED_STATS`. One queue of each kind already tells a swapped loop or a missing count term apart; two show the per-queue order.
- The reset violation runs (`reset_timeout`, `reset_last_poll`) take `MaxOps = 1`, `MaxPFResets = 0` (the reset indication may still be set from before probe), `InitTimeout = 2`, API 1.3 only, and no mailbox timeouts, so a trace is the probe's reset loop and nothing else.
- `ethtool_settings`, rings part, uses 2 Tx rings, 1 XDP ring and 2 Rx rings, so a failure can hit the first ring, a later one, and the first XDP ring (where the unwind index crosses from `tx_ring` into `xdp_ring`).
  - The pending values 63, 100, 512, 1024 and 4097 cover: below the minimum, an unaligned value, each current count (nothing to do), and above the maximum.
  - `MaxCalls = 3` allows a failed call followed by a successful one, on a stopped and a running interface.
- The codec run's `param` job uses the real `IXGBE_MAX_NIC = 8` and the real rate range. It takes boards 0, 1 and 8 and every `num` from 0 to 9.
  - The entries are -7 and -1 (negative ints), 0 and 1 (the special values), 2, the range edges ±1 (955/956/957 and 488281/488282).
- `ethtool_settings`, coalescing part: three vectors (all mixed, 1 Rx + 2 Tx, or 2 Rx + 1 Tx) and usecs 0, 1, 2, 3, 500, 1022 (the largest accepted) and 1023 (the smallest refused).
- `ethtool_settings`, link part: all eight VFLINKS patterns that `check_mac_link` can tell apart (link up or down × the four speed fields), with and without the reset indication, changing in any order. This covers a mapped speed, then a reset, then the unmapped pattern.
- `ethtool_settings`, offload part: every starting flag and feature set, two VLAN slots (so the loop meets an empty slot and a device, and a VLAN can be registered after TSO changed), the interface up or down, `dev_closed` set or not.
- `ethtool_settings`, rxnfc part: the flows TCP_V4, UDP_V4, UDP_V6, ESP_V4 and IPV4 (which is refused by set and answered by get). It tries every subset of the four RXH bits plus an unknown bit, on both MAC generations.

- `regtest` uses the real table, masks, patterns and register offsets. Any subset of three faults may be present, so a test can meet two faulty registers and must report the first. The faults are RDT(0) with bit 0 stuck (fails in the middle of the table, between the RXDCTL enable and clear), RDLEN(1) keeping low bits its mask says read as zero, and TDBAH(1) with its top bit stuck (fails near the end). Two initial register contents, the interface up or down, and the device present, removed, or removed and detected at the start. A removal may happen before any step, including between a pattern's write and its check.

## Fairness

- The VF step of an operation that has started is weakly fair (`WF_vars(VFBusy)`): a caller under `mbx_lock` keeps polling until it succeeds or times out.
- The PF's take, reply and reset completion are weakly fair. The PF's interrupt handler services the mailbox, and spec 4.2 says every request is answered.
- New calls (`VFCall`), PF resets and timeouts are not fair. They may or may not happen.
- A `set_ringparam` call in progress is weakly fair (`WF_vars(RingStep)`): it holds `rtnl_lock` and sleeps only in its spin on the bit. New calls, open, close, `diag_test` and `nway_reset` are not fair.
- The `HwControl` refinement asks that every reset end. That rests on the same fairness as `OpsComplete`.
- In `VfRegTest` the test's own steps are weakly fair (`WF_vars(TestStep)`): `diag_test` is one ethtool call that only sleeps for fixed times. Removal is not fair.
- In `VfLink` the watchdog's link update is weakly fair (`WF(Watchdog)`): the driver's service timer fires every two seconds for as long as the driver is loaded. VFLINKS changes and PF resets are not fair.
- `VfParam`, `VfStats` and the settings and offload parts of `MCEthtoolSettings` check only safety, so they assume no fairness.
- `VfRegTest` models one `diag_test` call, so its run does not check deadlock: the call returns and nothing follows. The `codec` run's behaviours each make one call and stop, so it does not check deadlock either.

## Not modelled

`PROJECT.json` lists each part and the reason it is left out:

- `ixgbe_init_ops_vf`: a function-pointer table.
- `ixgbe_setup_mac_link_vf` and `set_link_ksettings`: they return a constant and change nothing.
- VFLINKS read from a removed device (all-ones: link up at 10G) is not combined with removal in `VfLink`.
- The ethtool reporting callbacks other than the statistics set (`get_regs`, `get_drvinfo`, `get_eeprom`, `get_ringparam`, the test and private-flag string sets, `get_rxnfc`'s GRXRINGS, the checksum getters): each copies fields or registers into the caller's buffer with no branch a property could tell apart. `set_msglevel` only sets which log lines print.
- The text of the statistic names (`snprintf` into `ETH_GSTRING_LEN` slots): `VfStats` keeps which statistic a slot names, not its spelling.
- `struct ixgbevf_stats` is in `ixgbevf.h`, which is not in the repository; `StatFields` takes its layout (two u64 counters, five with `BP_EXTENDED_STATS`) from the loops of `get_ethtool_stats`. In a `BP_EXTENDED_STATS` build the count has 3 more entries per XDP queue than the dump writes; those trailing slots stay as ethtool zeroed them. `StatsFitCount` allows this shortfall; it is not an overrun.
- The `regtest` run is not folded into a composed harness: its liveness and refinement properties over a larger sum of state spaces take far beyond the time a run may use.
- Who sets `adapter->dev_closed` is outside `src/`; `VfOffload` fixes it per behaviour. The Tx queue stop/start that `set_tso` does around the change is atomic in the model, because transmit is not modelled.
- `IXGBE_WRITE_REG64`, the register array macros and the debug printing of the osdep headers: no modelled operation uses them.
- The offline self test's link test, which runs before the register test: `VfRegTest` starts after it, and the link test is modelled in `VfLink`.
- `reg_set_and_check`: `reg_test_vf` has no `SET_READ_TEST` entry, so it is never called.
- The Hyper-V header (`ixgbe_hv_vf.h`): prototypes only, with no body in `src/`.
- The X550 RSS cache path.
- The UDP RSS warning and every other log line.

## Findings

Each violation run above is a finding in `PROJECT.json`:
- `late_reply`, `nack_silent`, `reset_timeout` and `reset_last_poll` are in the mailbox code.
- `diag_reopen` is in `diag_test` (`ixgbevf_ethtool.c:1421`).
- `param_rbm_default` is in `ixgbevf_param.c:268`.

The speed field 00 of VFLINKS, which spec §9 leaves open, is checked rather than reported: `SpeedNotCarriedAcrossReset` shows that the stale speed it leaves can only be one read since the last PF reset.

## Refinement

There are two refinements.

**`IxgbeVf` implements `HwControl`.** `IxgbeVf` defines `HC == INSTANCE HwControl WITH ...`, and the `ideal` run checks `HwControlRefined == HC!Spec`. The mapping is:
- `phase`: `Resetting` while reset_hw polls the reset indication, `AwaitingPermAddr` while it posts RESET and reads the reply, and `Idle` otherwise;
- `stopped`, `permOk`, `perm`, `mcType` and `mac`: `adapterStopped`, `macValid`, `permAddr`, `mcFilterType` and `macAddr`.

The mapping leaves out return values. Spec 4.3 asks for a distinct reset-timeout error, which the code does not return; the `reset_timeout` run shows it.

**`VfRegTest` implements `RegTestSpec`.** `VfRegTest` defines `Abs == INSTANCE RegTestSpec WITH ...` and checks `RegTestRefines == Abs!Spec` as a property in the `regtest` run. Every step of the detailed test maps to `Test`, `Remove` or a stutter. The mapping is:
- `regs`: the register file, with the register between its pattern write and its restore seen as its saved `before`; all-ones once the device is gone;
- `ok`: `Healthy(r)`, i.e. the written bits that read back are exactly the masked ones;
- `result`: `none` until `pc` reaches `reset`, then `pass` or `fail` from `rc`.

The refinement is what says that the test is transparent, that it reports the first faulty register, and that it reports exactly the faulty ones.

## Plan for later work

1. The `__IXGBEVF_RESETTING` bit against the reset task and the watchdog (code outside `src/`). Today `set_ringparam` is its only taker in the model.
2. `diag_test`'s TESTING bit against the watchdog and the reset task (code outside `src/`).
3. A request/answer channel that the shared-buffer mailbox of `VfMailbox` implements.
4. The X550 RSS path of `get_rxfh`, from the adapter's RSS caches.
