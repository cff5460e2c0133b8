-------------------------------- MODULE Vlan --------------------------------
(***************************************************************************)
(* The VLAN allow-lists of eswitch_vlan.h.  A member of a vSwitch is an    *)
(* access port (untagged frames, optionally inside one VLAN) or a trunk    *)
(* with one or two ranges of VLAN ids.  A last of 0 means a single VLAN, a *)
(* second range of 0 and 0 is absent.  The uint16_t sums cannot overflow   *)
(* for the ids these functions accept, so they are plain numbers here.     *)
(***************************************************************************)
EXTENDS Integers, FiniteSets

CONSTANT MaxVlan   \* ESWITCH_VLAN_MAX

ASSUME VlanAssumption == MaxVlan \in Nat \ {0}

VlanId   == 1..MaxVlan
VlanWord == 0..(MaxVlan + 1)     \* what a request may say

eswitch_vlan_valid(v) == v \in VlanId

eswitch_vlan_range_last(first, last) == IF last = 0 THEN first ELSE last

eswitch_vlan_range_valid(first, last) ==
  LET end == eswitch_vlan_range_last(first, last)
  IN  eswitch_vlan_valid(first) /\ eswitch_vlan_valid(end) /\ first <= end

eswitch_vlan_is_range(first, last) == eswitch_vlan_range_last(first, last) > first

eswitch_vlan_range_size(first, last) ==
  IF eswitch_vlan_range_valid(first, last)
  THEN eswitch_vlan_range_last(first, last) - first + 1 ELSE 0

eswitch_vlan_ranges_overlap(f1, l1, f2, l2) ==
  f1 <= eswitch_vlan_range_last(f2, l2) /\ f2 <= eswitch_vlan_range_last(f1, l1)

eswitch_vlan_extra_present(l) == l.xfirst # 0 \/ l.xlast # 0

eswitch_vlan_allowlist_valid(l) ==
  /\ eswitch_vlan_range_valid(l.first, l.last)
  /\ eswitch_vlan_extra_present(l) =>
       /\ eswitch_vlan_range_valid(l.xfirst, l.xlast)
       /\ ~ eswitch_vlan_ranges_overlap(l.first, l.last, l.xfirst, l.xlast)

eswitch_vlan_allowlist_size(l) ==
  IF ~ eswitch_vlan_allowlist_valid(l) THEN 0
  ELSE eswitch_vlan_range_size(l.first, l.last)
       + (IF eswitch_vlan_extra_present(l)
          THEN eswitch_vlan_range_size(l.xfirst, l.xlast) ELSE 0)

\* Mutant: the second range starts one too late.
AllowlistAtLate(l, index) ==
  LET primary == eswitch_vlan_range_size(l.first, l.last)
  IN  IF index <= primary THEN l.first + index ELSE l.xfirst + (index - primary)

eswitch_vlan_allowlist_at(l, index) ==
  LET primary == eswitch_vlan_range_size(l.first, l.last)
  IN  IF index < primary THEN l.first + index
      ELSE IF /\ eswitch_vlan_extra_present(l)
              /\ index - primary < eswitch_vlan_range_size(l.xfirst, l.xlast)
           THEN l.xfirst + (index - primary)
           ELSE 0

\* Mutant: the two second ranges are not compared.
OverlapPrimary(l, r) ==
  \/ eswitch_vlan_ranges_overlap(l.first, l.last, r.first, r.last)
  \/ /\ eswitch_vlan_extra_present(l)
     /\ eswitch_vlan_ranges_overlap(l.xfirst, l.xlast, r.first, r.last)
  \/ /\ eswitch_vlan_extra_present(r)
     /\ eswitch_vlan_ranges_overlap(l.first, l.last, r.xfirst, r.xlast)

eswitch_vlan_allowlists_overlap(l, r) ==
  \/ eswitch_vlan_ranges_overlap(l.first, l.last, r.first, r.last)
  \/ /\ eswitch_vlan_extra_present(l)
     /\ eswitch_vlan_ranges_overlap(l.xfirst, l.xlast, r.first, r.last)
  \/ /\ eswitch_vlan_extra_present(r)
     /\ eswitch_vlan_ranges_overlap(l.first, l.last, r.xfirst, r.xlast)
  \/ /\ eswitch_vlan_extra_present(l) /\ eswitch_vlan_extra_present(r)
     /\ eswitch_vlan_ranges_overlap(l.xfirst, l.xlast, r.xfirst, r.xlast)

eswitch_vlan_is_transparent_trunk(mode, l) ==
  mode = "trunk" /\ (eswitch_vlan_is_range(l.first, l.last) \/ eswitch_vlan_extra_present(l))

eswitch_vlan_uses_tagged_domain(mode, l) ==
  eswitch_vlan_is_transparent_trunk(mode, l) \/ (mode = "access" /\ l.first # 0)

\* The ids a list stands for, and the ids eswitch_pipeline_attach_port
\* installs a rule for, one per index.
VlanRange(first, last) == {v \in VlanId : first <= v /\ v <= eswitch_vlan_range_last(first, last)}

VlanSet(l) ==
  VlanRange(l.first, l.last)
    \union (IF eswitch_vlan_extra_present(l) THEN VlanRange(l.xfirst, l.xlast) ELSE {})

VlanRules(l) ==
  {eswitch_vlan_allowlist_at(l, i) : i \in 0..(eswitch_vlan_allowlist_size(l) - 1)}

=============================================================================
