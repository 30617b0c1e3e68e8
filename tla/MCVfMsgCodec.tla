----------------------------- MODULE MCVfMsgCodec -----------------------------
(***************************************************************************)
(* Each behaviour runs one encoder or decoder on one input drawn from     *)
(* bounded sets and keeps the result; the invariants compare the result    *)
(* with a reference definition or with what the PF decodes from it.       *)
(* Job "stats" is one ethtool statistics dump (VfStats).                  *)
(* Job "param" is one probe of VfParam (ixgbevf_check_options), the other *)
(* computation of the driver that runs once and returns.  A behaviour     *)
(* runs one job; the variables of the others stay pinned, so the state    *)
(* spaces add up instead of multiplying.                                   *)
(***************************************************************************)
EXTENDS VfMsgCodec, Integers

CONSTANTS
  Bytes,        \* values tried for address bytes 4 and 5
  McLens,       \* multicast list lengths tried
  RxQueues,     \* num_rx_queues values tried
  UcIndexes,    \* set_uc_addr index values tried
  MaxNic, MinItr, MaxItr, Boards,  \* the constants of VfParam
  TxQueues, XdpQueues              \* num_tx/xdp_queues values tried for "stats"

\* The parameter entries tried: around the ITR range and its special
\* values, and two negative ints (UNSET and another).
ParamValues == {-7, -1, 0, 1, 2, 955, 956, 957, 488281, 488282}

\* Every byte value.
AllBytes == 0..255

\* Two byte values, for runs that are not about the hash.
SomeBytes == {0, 255}

VARIABLES
  job,     \* "hash", "mc", "uc", "reta", "stats" or "param"
  input,   \* the input of the last job
  output,  \* its result
  done,    \* the call has returned
  bd, itrArg, rbmArg, eitr, itr, flags   \* the probe of job "param"

Pa == INSTANCE VfParam WITH Values <- ParamValues
St == INSTANCE VfStats

paVars == <<bd, itrArg, rbmArg, eitr, itr, flags>>
vars == <<job, input, output, done, paVars>>

\* A multicast address with the given bytes 4 and 5.
McAddr(b4, b5) == [i \in 0..5 |-> CASE i = 0 -> 1 [] i = 4 -> b4 [] i = 5 -> b5
                                       [] OTHER -> 0]

\* A list of n hash vectors alternating between x and y.
Alternating(n, x, y) == [i \in 1..n |-> IF i % 2 = 1 THEN x ELSE y]

\* The inputs each job is run on.
Inputs ==
  [hash |-> {<<t, McAddr(b4, b5)>> : t \in 0..4, b4 \in Bytes, b5 \in Bytes},
   mc   |-> {<<Alternating(n, x, y), fill>> :
             n \in McLens, x \in {0, 4095}, y \in {1, 2048}, fill \in {0, U16 - 1}},
   uc   |-> UcIndexes,
   reta |-> [0..(RetaEntriesPerDword - 1) -> 0..3] \X RxQueues,
   stats |-> {[nq |-> nq, bp |-> bp, null |-> null] :
              nq \in [tx : TxQueues, xdp : XdpQueues, rx : RxQueues],
              bp \in BOOLEAN,
              null \in [{"tx", "xdp", "rx"} -> SUBSET (0..1)]}]

Init ==
  /\ job \in {"hash", "mc", "uc", "reta", "stats", "param"}
  /\ input \in IF job = "param" THEN {0} ELSE Inputs[job]
  /\ output = 0
  /\ IF job = "param" THEN Pa!Init
     ELSE /\ bd = 0 /\ itrArg = <<>> /\ rbmArg = <<>>
          /\ eitr = 0 /\ itr = 0 /\ flags = {} /\ done = FALSE

\* One call on the input; then there is nothing left to do.
Run(j, out) ==
  /\ job = j /\ ~done /\ output' = out /\ done' = TRUE
  /\ UNCHANGED <<job, input, paVars>>

HashAddr == Run("hash", MtaVector(input[1], input[2]))

EncodeMc == Run("mc", McRequest(input[1], input[2]))

EncodeUc == Run("uc", UcWord0(input))

DecodeReta == Run("reta", RetaDecode(PackReta(input[1], RetaEntriesPerDword), input[2]))

CheckOptions ==
  job = "param" /\ Pa!CheckOptions /\ UNCHANGED <<job, input, output>>

\* ethtool's ETHTOOL_GSTATS: get_sset_count sizes the buffers, then
\* get_strings and get_ethtool_stats fill them, all under rtnl_lock.
GetStats ==
  Run("stats", [count  |-> St!StatsLen(input.nq, input.bp),
                names  |-> St!GetStrings(input.nq, input.bp),
                values |-> St!GetEthtoolStats(input.nq, input.bp, input.null)])

Next == HashAddr \/ EncodeMc \/ EncodeUc \/ DecodeReta \/ GetStats \/ CheckOptions

Spec == Init /\ [][Next]_vars

\* ixgbe_mta_vector picks the bit window of the address that the filter
\* type names ([47:36], [46:35], [45:34], [43:32]) and 0 for any other type.
MtaVectorMatchesReference ==
  job = "hash" /\ done => output = RefMtaVector(input[1], input[2])

\* The vectors ixgbe_update_mc_addr_list_vf packs stay inside the
\* 16-word mailbox buffer, and the PF reads back exactly the first
\* min(count, 30) of them, whatever the unused halves hold.
McRequestRoundTrip ==
  job = "mc" /\ done =>
    /\ DOMAIN output = 0..(MailboxWords - 1)
    /\ 1 + (McCount(Len(input[1])) + 1) \div 2 <= MailboxWords
    /\ McEntries(output) = SubSeq(input[1], 1, McCount(Len(input[1])))

\* Every RETA entry get_reta_locked hands back names one of the VF's
\* num_rx_queues queues, and is the PF's entry whenever that entry does.
RetaDecodeSound ==
  job = "reta" /\ done =>
    \A j \in DOMAIN output :
      /\ output[j] < input[2]
      /\ input[1][j] < input[2] => output[j] = input[1][j]

\* get_strings and get_ethtool_stats each write one entry per statistic,
\* never more than the get_sset_count entries ethtool allocated: the core
\* copies count entries out, and a longer write overruns its buffer.
StatsFitCount ==
  job = "stats" /\ done =>
    /\ Len(output.values) = Len(output.names)
    /\ Len(output.names) <= output.count

\* The i-th value get_ethtool_stats writes is the counter the i-th name
\* get_strings writes names, or 0 for a queue whose ring is NULL.
StatsAligned ==
  job = "stats" /\ done =>
    \A i \in DOMAIN output.values \cap DOMAIN output.names :
      LET n == output.names[i] IN
        \/ output.values[i] = n
        \/ output.values[i] = St!Zero /\ n.q \in input.null[n.kind]

\* check_options leaves the adapter's interrupt rate inside the option's
\* range and itr_setting below the maximum rate, whatever entry was given.
ParamTypeOK == job = "param" => Pa!ParamTypeOK

\* InterruptThrottleRate behaves as MODULE_PARM_DESC describes it: 0 off,
\* 1 dynamic (the only setting with bit 0 of itr_setting), a rate in range
\* as given, anything else the default 8000.
ItrAsDescribed == job = "param" => Pa!ItrAsDescribed
=============================================================================
