-------------------------------- MODULE PacketPath --------------------------------
(***************************************************************************)
(* The path of a packet through the NAT router (user_main.c 505-688): the  *)
(* hooks on both sides of both interfaces, which ask the ACLs, feed the    *)
(* monitor, spend the tokens of the bit rate limits and count the daily    *)
(* total; and the part of timer_func that refills and resets these.        *)
(***************************************************************************)
EXTENDS Acl, Monitor

CONSTANTS
  MAX_TOKEN_RATIO,   \* the size of a bucket in seconds of its rate: 4
  SECOND,            \* the timer's units in a second: 1000
  KBYTE,             \* the bytes in the unit of the daily limit: 1024
  WORD,              \* a uint32_t is less than this: 2^32
  Shaped,            \* bound: the directions ("us", "ds") a limit is set for
  Rates,             \* bound: limits, in bytes per second, none is 0
  DailyLimits,       \* bound: daily limits, none is 0
  Intervals,         \* bound: the time from one run of the timer to the next
  Packets,           \* bound: the packets there are
  MaxBytes           \* bound: up to which the daily total is counted

ASSUME PacketAssumption ==
  /\ {MAX_TOKEN_RATIO, SECOND, KBYTE, WORD} \subseteq Nat \ {0}
  /\ Rates \subseteq Nat /\ DailyLimits \subseteq Nat /\ Intervals \subseteq Nat
  /\ MaxBytes \in Nat /\ Shaped \subseteq {"us", "ds"}
  /\ \A p \in Packets : p.len \in 1 .. MaxLen /\ p.id \in Ids

Directions == {"us", "ds"}

VARIABLES
  rate,           \* config.kbps_us and config.kbps_ds, as Bps
  token_bucket,   \* token_bucket_us and token_bucket_ds
  daily_limit,
  Bytes_per_day,
  passed,         \* the last packet went on to the interface's own function
  (* History variables: *)
  metered,        \* the timer has run since the rate was set, so that the
                  \* bucket has a size
  excess,         \* what has passed in the meantime beyond the rate, times SECOND
  bytesAtSet      \* the daily total when the limit was set

shaperVars == <<rate, token_bucket, daily_limit, Bytes_per_day, passed,
                metered, excess, bytesAtSet>>
vars == <<aclVars, monitorVars, shaperVars>>
-----------------------------------------------------------------------------
Uint32(n) == n % WORD

Refill_mutant(bps, dt) == (dt * bps) \div SECOND + 1
Refill(bps, dt) == Uint32(dt * bps) \div SECOND

Bucket(bps) == MAX_TOKEN_RATIO * bps

Spent_mutant(bytes) == bytes \div KBYTE > daily_limit
Spent(bytes) == bytes \div KBYTE >= daily_limit

Conforms_mutant(dir, p) == rate[dir] = 0 \/ token_bucket[dir] > 0
Conforms(dir, p) == rate[dir] = 0 \/ p.len <= token_bucket[dir]

(* The bit rate limit, then the daily limit; the tokens are gone even when  *)
(* the daily limit drops the packet.                                        *)
Shape(dir, p) ==
  LET conforms == Conforms(dir, p)
      allowed == daily_limit = 0 \/ ~Spent(Bytes_per_day)
  IN  /\ token_bucket' = IF rate[dir] # 0 /\ conforms
                         THEN [token_bucket EXCEPT ![dir] = @ - p.len] ELSE token_bucket
      /\ passed' = (conforms /\ allowed)
      /\ Bytes_per_day' = IF passed' /\ Bytes_per_day + p.len <= MaxBytes
                          THEN Bytes_per_day + p.len ELSE Bytes_per_day
      /\ excess' = IF passed' /\ metered[dir] /\ rate[dir] # 0
                   THEN [excess EXCEPT ![dir] = @ + SECOND * p.len] ELSE excess
      /\ UNCHANGED <<rate, daily_limit, metered, bytesAtSet>>

(* The packet ends here, or passes without being shaped. *)
Unshaped(passes) ==
  /\ passed' = passes
  /\ UNCHANGED <<rate, token_bucket, daily_limit, Bytes_per_day, metered, excess, bytesAtSet>>

(* my_input_ap with list 0 and my_output_ap with list 1. *)
ApHook(n, dir, p) ==
  /\ acl_check_packet(n, p)
  /\ Mirror(p, Verdict(n, p))
  /\ IF Lost(p) \/ ~Passes(Verdict(n, p)) THEN Unshaped(FALSE) ELSE Shape(dir, p)

my_input_ap(p) == ApHook(0, "us", p)
my_output_ap(p) == ApHook(1, "ds", p)

(* my_input_sta with list 2 and my_output_sta with list 3. *)
StaHook(n, p) ==
  /\ acl_check_packet(n, p)
  /\ Unshaped(Passes(Verdict(n, p)))
  /\ UNCHANGED monitorVars

my_input_sta(p) == StaHook(2, p)
my_output_sta(p) == StaHook(3, p)
-----------------------------------------------------------------------------
Init ==
  /\ AclInit /\ MonitorInit
  /\ rate \in {r \in [Directions -> Rates \cup {0}] :
                 \A d \in Directions \ Shaped : r[d] = 0}
  /\ token_bucket = [d \in Directions |-> 0]
  /\ daily_limit \in DailyLimits
  /\ Bytes_per_day = 0 /\ passed = FALSE
  /\ metered = [d \in Directions |-> TRUE]
  /\ excess = [d \in Directions |-> 0]
  /\ bytesAtSet = 0

(* "set upstream_kbps" and "set downstream_kbps".  The tokens stay.         *)
SetRate(dir, bps) ==
  /\ rate' = [rate EXCEPT ![dir] = bps]
  /\ metered' = [metered EXCEPT ![dir] = FALSE]
  /\ excess' = [excess EXCEPT ![dir] = 0]
  /\ passed' = FALSE
  /\ UNCHANGED <<aclVars, monitorVars, token_bucket, daily_limit, Bytes_per_day, bytesAtSet>>

(* "set daily_limit". *)
SetDailyLimit(limit) ==
  /\ daily_limit' = limit /\ bytesAtSet' = Bytes_per_day
  /\ passed' = FALSE
  /\ UNCHANGED <<aclVars, monitorVars, rate, token_bucket, Bytes_per_day, metered, excess>>

Refilled(dir, dt) ==
  IF rate[dir] = 0 THEN token_bucket[dir]
  ELSE LET n == Uint32(token_bucket[dir] + Refill(rate[dir], dt))
       IN  IF n > Bucket(rate[dir]) THEN Bucket(rate[dir]) ELSE n

(* What exceeds the rate after dt more units of time. *)
Drained(dir, dt) ==
  IF metered[dir] /\ excess[dir] > dt * rate[dir] THEN excess[dir] - dt * rate[dir] ELSE 0

(* timer_func.  newDay: there is an uplink, toggle is set, SNTP knows the    *)
(* time and its day is not last_date.                                       *)
Timer(dt, newDay) ==
  /\ token_bucket' = [d \in Directions |-> Refilled(d, dt)]
  /\ excess' = [d \in Directions |-> Drained(d, dt)]
  /\ metered' = [d \in Directions |-> TRUE]
  /\ Bytes_per_day' = IF newDay THEN 0 ELSE Bytes_per_day
  /\ bytesAtSet' = IF newDay THEN 0 ELSE bytesAtSet
  /\ passed' = FALSE
  /\ UNCHANGED <<aclVars, monitorVars, rate, daily_limit>>

Forward == \E p \in Packets : \/ my_input_ap(p) \/ my_output_ap(p)
                              \/ my_input_sta(p) \/ my_output_sta(p)

Firewall ==
  /\ \E n \in AclNos : acl_clear(n) \/ \E r \in Rules : acl_add(n, r)
  /\ Unshaped(FALSE) /\ UNCHANGED monitorVars

Debug == \E on \in BOOLEAN : set_acl_debug(on) /\ Unshaped(FALSE) /\ UNCHANGED monitorVars

Observe ==
  /\ MonitorNext /\ Unshaped(FALSE) /\ UNCHANGED aclVars

Limit == \/ \E d \in Shaped, bps \in Rates : SetRate(d, bps)
         \/ \E limit \in DailyLimits : SetDailyLimit(limit)
         \/ \E dt \in Intervals, newDay \in BOOLEAN : Timer(dt, newDay)

Next == Forward \/ Firewall \/ Debug \/ Observe \/ Limit

Spec == Init /\ [][Next]_vars
-----------------------------------------------------------------------------
AclType ==
  /\ acl \in [AclNos -> Seq([proto : Nat, src : Nat, s_block : Nat \ {0},
                             dest : Nat, d_block : Nat \ {0}, s_port : Nat, d_port : Nat,
                             allow : SUBSET Flags, hit_count : Nat])]
  /\ acl_allow_count \in Nat /\ acl_deny_count \in Nat
  /\ my_deny_cb \in BOOLEAN /\ acl_debug \in BOOLEAN

ShaperType ==
  /\ rate \in [Directions -> Nat] /\ token_bucket \in [Directions -> Nat]
  /\ daily_limit \in Nat /\ Bytes_per_day \in Nat /\ bytesAtSet \in Nat
  /\ metered \in [Directions -> BOOLEAN] /\ excess \in [Directions -> Nat]
  /\ passed \in BOOLEAN

TypeOK == AclType /\ MonitorType /\ ShaperType

(* Over any stretch of time in which a limit is not changed, no more passes *)
(* than the rate times that time and one full bucket, refilled late or not  *)
(* (README.md:327, "Token Bucket").                                         *)
RateLimit ==
  \A d \in Directions :
    rate[d] # 0 /\ metered[d] => excess[d] <= SECOND * Bucket(rate[d])

(* The total of a day exceeds the limit by less than a packet, unless it    *)
(* did when the limit was set (README.md:153).                              *)
DailyLimit ==
  daily_limit # 0 =>
    \/ Bytes_per_day <= bytesAtSet
    \/ Bytes_per_day < daily_limit * KBYTE + MaxLen

(* The places <<list, index>> of the rules that allow, or of the others, and  *)
(* the hits they have together.                                             *)
Ruling(lists, allowing) ==
  UNION {{n} \X {i \in DOMAIN lists[n] : Passes(lists[n][i].allow) = allowing} : n \in AclNos}
HitsAt(lists, allowing) ==
  [q \in Ruling(lists, allowing) |-> lists[q[1]][q[2]].hit_count]
Hits(allowing) == SumFunction(HitsAt(acl, allowing))

(* "show acl": the rules have no more hits than packets were counted; a      *)
(* packet's hit and its count agree on what became of it (README.md:281).   *)
HitsCounted == Hits(TRUE) <= acl_allow_count /\ Hits(FALSE) <= acl_deny_count

(* The first rule that matches, in the order they were added, allows p.     *)
FirstAllows(n, p) ==
  \/ acl[n] = <<>> \/ p.eth = "ARP"
  \/ \E i \in DOMAIN acl[n] :
       /\ Matches(acl[n][i], p) /\ "ALLOW" \in acl[n][i].allow
       /\ \A j \in 1 .. i - 1 : ~Matches(acl[n][j], p)

(* No hook lets a packet pass that its list denies, whatever the monitor     *)
(* does with it (README.md:279, 285).                                       *)
DeniedNeverPasses ==
  [][\A p \in Packets :
       /\ passed' /\ my_input_ap(p) => FirstAllows(0, p)
       /\ passed' /\ my_output_ap(p) => FirstAllows(1, p)
       /\ passed' /\ my_input_sta(p) => FirstAllows(2, p)
       /\ passed' /\ my_output_sta(p) => FirstAllows(3, p)]_vars
=============================================================================
