------------------------------ MODULE MCDevice -------------------------------
(* Instances of Device for TLC: a fan with a lease and a lamp without one,  *)
(* commands of the first boot and of the one the reboot fault starts.       *)
EXTENDS Device, TLC

CONSTANTS fan, lamp

Set(key, target, value, lease, boot, after) ==
  [key |-> key, target |-> target, op |-> "set", value |-> value, lease |-> lease,
   boot |-> boot, after |-> after, expires |-> 0]

Stop(key, target, boot) ==
  [key |-> key, target |-> target, op |-> "safe_stop", value |-> 0, lease |-> 0,
   boot |-> boot, after |-> 0, expires |-> 0]

(* A leased start of the fan with a lifetime, a safe stop, and the lamp     *)
(* under the first key in the boot after the fault.                         *)
Start == Set(1, fan, 1, 1, 0, 1)
StopFan == Stop(2, fan, 0)
Light == Set(1, lamp, 1, 0, 1, 0)

CommandContents == {Start, StopFan, Light}

CommandGateways == {{Start, Light}, {Start, StopFan}}

AnySchedule ==
  {<<{"reboot"}, {"disconnect", "duplicate"}>>,
   <<{"disconnect"}, {"reboot", "duplicate", "ack_lost"}>>,
   <<{"stale", "expired"}, {"ack_lost", "duplicate", "stuck"}>>}

(* A confirmed command without effect is answered as a refused one is.      *)
AnyMode == Modes \ {"confirmed"}

(* A world that always does as it is told, and one reboot.                  *)
OnlyOk == {"ok"}

OneReboot == {<<{"reboot"}>>}

(* The start is sent again for the boot after the reboot.                   *)
Again == Set(1, fan, 1, 1, 1, 0)

RebootContents == {Start, Again}

RebootGateways == {RebootContents}

(* And the lamp is commanded while the fan's lease runs.                    *)
OtherOutput == Set(2, lamp, 1, 0, 0, 0)

LeaseContents == {Start, OtherOutput}

LeaseGateways == {LeaseContents}

NoFaults == {<< >>}
=============================================================================
