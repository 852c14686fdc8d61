------------------------------ MODULE MCLockup ------------------------------
(***************************************************************************)
(* Lockup on small instances.                                              *)
(***************************************************************************)
EXTENDS Lockup

Schedule(s, c, e) == [start |-> s, cliff |-> c, end |-> e]
Enabled == [enabled |-> TRUE, timestamp |-> 0]
Disabled == [enabled |-> FALSE, timestamp |-> 0]

(* No vesting, and a schedule that outlasts the lockup: a public one, and a *)
(* private one that the lockup and the release shadow.                      *)
OwnerVestings ==
    {Vesting("None", NoSchedule), Vesting("VestingSchedule", Schedule(0, 1, 3)),
     Vesting("VestingHash", Schedule(0, 1, 3))}
(* A public schedule, and a private one that, as VestingHash assumes, does  *)
(* not outlast the release.                                                 *)
TerminationVestings ==
    {Vesting("VestingSchedule", Schedule(0, 1, 3)),
     Vesting("VestingHash", Schedule(0, 1, 2))}
PublicVesting == {Vesting("VestingSchedule", Schedule(0, 1, 4))}
BothTransfers == {Enabled, Disabled}
OnlyEnabled == {Enabled}
=============================================================================
