---------------------------------- MODULE Acl ----------------------------------
(***************************************************************************)
(* user/acl.c: four lists of rules, the first rule that matches a packet   *)
(* decides.  Also acl_deny_cb of user_main.c, which reports a denial.      *)
(*                                                                         *)
(* A packet is a record; its fields eth ("ARP", "IP", "other"), room (how  *)
(* much of it is there: less than the "eth" header, that, the "ip" header, *)
(* "all"), proto, src, dest, s_port, d_port are what a check looks at.     *)
(* Addresses are numbers; a mask is the number of addresses it makes one   *)
(* (s_block, d_block): 1 for a host, 2^32 for any.                         *)
(***************************************************************************)
EXTENDS Naturals, Sequences, FiniteSetsExt

CONSTANTS
  MAX_ACL_ENTRIES,   \* rules of a list
  Rules,             \* bound: the rules that are added, as acl_add gets them
  RuledLists,        \* bound: the lists that get rules
  MaxRules,          \* bound: the rules of all lists together
  MaxCount           \* bound: the packets that are counted

Flags == {"ALLOW", "MONITOR"}

ASSUME AclAssumption ==
  /\ {MAX_ACL_ENTRIES, MaxRules, MaxCount} \subseteq Nat
  /\ Rules \subseteq [proto : Nat, src : Nat, s_block : Nat \ {0},
                      dest : Nat, d_block : Nat \ {0},
                      s_port : Nat, d_port : Nat, allow : SUBSET Flags]

AclNos == 0 .. 3   \* from_sta, to_sta, from_ap, to_ap

VARIABLES
  acl,               \* the lists, with the hits of each rule
  acl_allow_count,
  acl_deny_count,
  my_deny_cb,        \* is acl_deny_cb registered?
  acl_debug          \* acl_deny_cb is to print on the console

aclVars == <<acl, acl_allow_count, acl_deny_count, my_deny_cb, acl_debug>>
-----------------------------------------------------------------------------
Masked(addr, block) == addr - (addr % block)

FieldMatches(rule, value) == rule = 0 \/ rule = value

Matches(rule, p) ==
  /\ FieldMatches(rule.proto, p.proto)
  /\ FieldMatches(rule.src, Masked(p.src, rule.s_block))
  /\ FieldMatches(rule.dest, Masked(p.dest, rule.d_block))
  /\ FieldMatches(rule.s_port, p.s_port)
  /\ FieldMatches(rule.d_port, p.d_port)

(* The rules of list n that match, and the one that is applied. *)
Matching(n, p) == {i \in DOMAIN acl[n] : Matches(acl[n][i], p)}

Applied(n, p) == Min(Matching(n, p))

(* ICMP has no ports: the packets of that kind have ports 0. *)
KnownProtos == {1, 6, 17}

(* Is the packet one the rules are asked about? *)
Judged(p) ==
  /\ p.eth = "IP" /\ p.proto \in KnownProtos
  /\ p.room = "all" \/ (p.room = "ip" /\ p.proto = 1)

(* A packet that has no room for its headers is dropped without a count,    *)
(* unless it is the IP header that is short.                                *)
Uncounted_mutant(p) ==      \* wants ports of ICMP, too
  \/ p.room = "none"
  \/ p.eth = "IP" /\ p.room = "ip" /\ p.proto \in KnownProtos
Uncounted(p) ==
  \/ p.room = "none"
  \/ p.eth = "IP" /\ p.room = "ip" /\ p.proto \in KnownProtos \ {1}

(* The flags of the verdict: "ALLOW", "MONITOR" or both; none is a denial. *)
Verdict(n, p) ==
  CASE acl[n] = <<>> -> {"ALLOW"}
    [] p.room # "none" /\ p.eth = "ARP" -> {"ALLOW"}
    [] Judged(p) /\ Matching(n, p) # {} -> acl[n][Applied(n, p)].allow
    [] OTHER -> {}

(* A hook lets the packet pass. *)
Passes_mutant(verdict) == verdict # {}      \* takes deny_monitor for allow
Passes(verdict) == "ALLOW" \in verdict
-----------------------------------------------------------------------------
(* config_load_default's acl_init, or the lists of the flash, then user_init. *)
AclInit ==
  /\ acl = [n \in AclNos |-> <<>>]
  /\ acl_allow_count = 0 /\ acl_deny_count = 0
  /\ my_deny_cb = TRUE /\ acl_debug = FALSE

acl_clear(n) ==
  /\ acl' = [acl EXCEPT ![n] = <<>>]
  /\ my_deny_cb' = FALSE
  /\ UNCHANGED <<acl_allow_count, acl_deny_count, acl_debug>>

RuleCount == MapThenSumSet(LAMBDA n : Len(acl[n]), AclNos)

acl_add(n, rule) ==
  /\ n \in RuledLists /\ RuleCount < MaxRules
  /\ acl' = IF Len(acl[n]) >= MAX_ACL_ENTRIES THEN acl
            ELSE [acl EXCEPT ![n] =
                    Append(@, [proto  |-> rule.proto,
                               src    |-> Masked(rule.src, rule.s_block),
                               s_block |-> rule.s_block,
                               dest   |-> Masked(rule.dest, rule.d_block),
                               d_block |-> rule.d_block,
                               s_port |-> rule.s_port, d_port |-> rule.d_port,
                               allow  |-> rule.allow, hit_count |-> 0])]
  /\ UNCHANGED <<acl_allow_count, acl_deny_count, my_deny_cb, acl_debug>>

set_acl_debug(on) ==
  /\ acl_debug' = on
  /\ UNCHANGED <<acl, acl_allow_count, acl_deny_count, my_deny_cb>>

(* acl_check_packet, behind acl_is_empty.  my_deny_cb leaves the verdict as   *)
(* it is.                                                                    *)
acl_check_packet(n, p) ==
  LET passes == Passes(Verdict(n, p))
      counting == acl_allow_count + acl_deny_count < MaxCount
      counts == counting /\ acl[n] # <<>> /\ ~Uncounted(p)
      hits == counting /\ Judged(p) /\ Matching(n, p) # {}
  IN  /\ acl' = IF hits THEN [acl EXCEPT ![n][Applied(n, p)].hit_count = @ + 1] ELSE acl
      /\ acl_allow_count' = acl_allow_count + IF counts /\ passes THEN 1 ELSE 0
      /\ acl_deny_count' = acl_deny_count + IF counts /\ ~passes THEN 1 ELSE 0
      /\ UNCHANGED <<my_deny_cb, acl_debug>>
=============================================================================
