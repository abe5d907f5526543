------------------------------ MODULE Passthru ------------------------------
(***************************************************************************)
(* UART pass-through between two ports (GCS_Common.cpp): update_passthru() *)
(* on the main thread turns it on and off as it is configured, a timer     *)
(* passes the data and has both ports locked, and follows the baud rate    *)
(* and parity that a USB host sets on one port with those of the other.    *)
(* A rate or parity is the port's own, FALSE, or another one, TRUE.        *)
(* get_passthru(), which is not in this code, is taken to hand out both    *)
(* ports' configured rates also when it answers that there is no           *)
(* pass-through: update_passthru() restores them from its two variables    *)
(* and gives them no value of its own.                                     *)
(***************************************************************************)
EXTENDS Integers

CONSTANTS UsbPort,     \* the port on USB, 1 or 2, or 0
          Timeout,     \* SERIAL_PASSTIMO in ticks, 0 for none
          MaxSwitches  \* bound: changes of configuration and of the USB host

VARIABLES wanted,     \* AP_SerialManager's configuration
          enabled,    \* _passthru.enabled
          starting,   \* _passthru.start_ms # 0; its second is not over
          quiet,      \* ticks since port 1 had data
          locked,     \* the ports are locked
          baud, parity,        \* of the ports
          followBaud, followParity,  \* _passthru.baud1, baud2, parity1, parity2
          host,       \* what the USB host asks for
          switches

passVars == <<wanted, enabled, starting, quiet, locked, baud, parity, followBaud,
              followParity, host, switches>>

Ports == {1, 2}
Normal == [p \in Ports |-> FALSE]
Off == "off"

ASSUME PassAssumption == UsbPort \in 0..2 /\ Timeout \in Nat

PassInit ==
    /\ wanted = FALSE /\ enabled = FALSE /\ starting = Off /\ quiet = 0 /\ locked = FALSE
    /\ baud = Normal /\ parity = Normal /\ followBaud = Normal /\ followParity = Normal
    /\ host = [baud |-> FALSE, parity |-> FALSE]
    /\ switches = 0

\* SERIAL_PASS2 is set; the USB host opens its port another way.
Configure(on) ==
    /\ switches < MaxSwitches /\ wanted # on
    /\ wanted' = on
    /\ switches' = switches + 1
    /\ UNCHANGED <<enabled, starting, quiet, locked, baud, parity, followBaud,
                   followParity, host>>

HostSets(b, p) ==
    /\ switches < MaxSwitches /\ UsbPort # 0
    /\ host' = [baud |-> b, parity |-> p]
    /\ switches' = switches + 1
    /\ UNCHANGED <<wanted, enabled, starting, quiet, locked, baud, parity, followBaud,
                   followParity>>

EnablePassthru ==
    /\ wanted /\ ~enabled
    /\ enabled' = TRUE /\ starting' = "wait" /\ quiet' = 0
    /\ followBaud' = Normal /\ followParity' = parity
    /\ UNCHANGED <<wanted, locked, baud, parity, host, switches>>

\* Both ports as they were: begin() at the configured rate if another one
\* was followed, configure_parity() if the parity is not the one noted.
Restored ==
    /\ enabled' = FALSE /\ locked' = FALSE
    /\ baud' = [p \in Ports |-> IF followBaud[p] THEN FALSE ELSE baud[p]]
    /\ parity' = followParity
    /\ UNCHANGED <<starting, followBaud, followParity, host, switches>>

DisablePassthru ==
    /\ ~wanted /\ enabled
    /\ Restored
    /\ UNCHANGED <<wanted, quiet>>

TimeoutPassthru ==
    /\ wanted /\ enabled
    /\ Timeout # 0 /\ quiet > Timeout
    /\ Restored
    /\ wanted' = FALSE   \* disable_passthru()
    /\ UNCHANGED quiet

\* The timer does nothing when pass-through has been disabled after starting.
TimerUnchecked == starting # "wait"
TimerRuns == enabled /\ starting # "wait"

\* The port that follows the USB host's.
Followers == {p \in Ports : UsbPort \in Ports \ {p}}

(* passthru_timer(); after the first second the ports begin at the rates   *)
(* noted.                                                                  *)
PassthruTimer(data) ==
    /\ TimerRuns
    /\ starting' = Off
    /\ locked' = TRUE
    /\ followBaud' = [p \in Ports |-> IF p \in Followers THEN host.baud ELSE followBaud[p]]
    /\ baud' = [p \in Ports |-> IF p \in Followers \/ starting = "begin"
                                THEN followBaud'[p] ELSE baud[p]]
    /\ followParity' =
         [p \in Ports |-> IF p \in Followers THEN host.parity ELSE followParity[p]]
    /\ parity' = [p \in Ports |-> IF p \in Followers /\ followParity[p] # host.parity
                                  THEN host.parity ELSE parity[p]]
    /\ quiet' = IF data THEN 0 ELSE quiet
    /\ UNCHANGED <<wanted, enabled, host, switches>>

PassTick ==
    /\ quiet <= Timeout \/ starting = "wait"
    /\ quiet' = IF quiet <= Timeout THEN quiet + 1 ELSE quiet
    /\ starting' = IF starting = "wait" THEN "begin" ELSE starting
    /\ UNCHANGED <<wanted, enabled, locked, baud, parity, followBaud, followParity, host,
                   switches>>

PassNext ==
    \/ \E on \in BOOLEAN : Configure(on)
    \/ \E b, p \in BOOLEAN : HostSets(b, p)
    \/ EnablePassthru \/ DisablePassthru \/ TimeoutPassthru
    \/ \E data \in BOOLEAN : PassthruTimer(data)
    \/ PassTick

PassSpec == PassInit /\ [][PassNext]_passVars

PassTypeOK ==
    /\ wanted \in BOOLEAN /\ enabled \in BOOLEAN /\ locked \in BOOLEAN
    /\ starting \in {Off, "wait", "begin"}
    /\ baud \in [Ports -> BOOLEAN] /\ parity \in [Ports -> BOOLEAN]

(* While pass-through is off neither port is locked and both run at their  *)
(* own rates, so the flight controller can use them again: whether it was  *)
(* turned off or timed out, and with the timer running on another thread   *)
(* (update_passthru(), passthru_timer()).                                  *)
PortsReleased == ~enabled => ~locked /\ baud = Normal
=============================================================================
