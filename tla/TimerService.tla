---------------------------- MODULE TimerService ----------------------------
(***************************************************************************)
(* What TimerWheel promises its callers: an alarm goes off at the very     *)
(* tick it is due, a periodic one then once every period, a dropped one    *)
(* never.  Time may not pass an alarm that is due.                         *)
(***************************************************************************)
EXTENDS Naturals

VARIABLES
    time,
    alarms,             \* id -> [due, period], period 0 for once
    ringing             \* the alarm whose callback runs, 0 for none

ServiceInit == time = 0 /\ DOMAIN alarms = {} /\ ringing = 0

AlarmsWithout(ids) == [a \in DOMAIN alarms \ ids |-> alarms[a]]

Set == /\ \E a \in DOMAIN alarms' \ DOMAIN alarms :
            /\ alarms'[a].due > time
            /\ DOMAIN alarms' = DOMAIN alarms \cup {a}
       /\ \A b \in DOMAIN alarms : alarms'[b] = alarms[b]
       /\ UNCHANGED <<time, ringing>>

Drop == /\ \E ids \in SUBSET DOMAIN alarms : alarms' = AlarmsWithout(ids)
        /\ UNCHANGED <<time, ringing>>

GoOff == /\ ringing = 0
         /\ \E a \in DOMAIN alarms :
             /\ alarms[a].due = time /\ ringing' = a
             /\ alarms' = IF alarms[a].period = 0 THEN AlarmsWithout({a})
                          ELSE [alarms EXCEPT ![a].due = time + alarms[a].period]
         /\ time' = time

Silence == /\ ringing # 0 /\ ringing' = 0
           /\ UNCHANGED <<time, alarms>>

Pass == /\ ringing = 0 /\ \A a \in DOMAIN alarms : alarms[a].due > time
        /\ time' = time + 1
        /\ UNCHANGED <<alarms, ringing>>

ServiceSpec ==
    ServiceInit /\ [][Set \/ Drop \/ GoOff \/ Silence \/ Pass]_<<time, alarms, ringing>>
=============================================================================
