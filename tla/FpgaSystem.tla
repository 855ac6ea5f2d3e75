----------------------------- MODULE FpgaSystem -----------------------------
(***************************************************************************)
(* The FPGA driver and the chain of device management behind it.  They     *)
(* share the state report and the signal that announces it; apart from     *)
(* that each component runs on its own.                                    *)
(***************************************************************************)
EXTENDS FpgaDriver

CONSTANTS Types, DeviceOf

VARIABLES static, declared, devices, configSig, provided, devicesSig, start,
          init_config

Management == INSTANCE DeviceManagement

fpga == <<roms, thread, logic>>
management == <<static, declared, devices, configSig, provided, devicesSig,
                start, init_config>>
systemVars == <<vars, management>>

SystemInit == Init /\ Management!Init

SystemNext == \/ Next /\ UNCHANGED management
              \/ Management!Next /\ UNCHANGED fpga

SystemSpec == /\ SystemInit /\ [][SystemNext]_systemVars
              /\ Fairness /\ Management!Fairness

-----------------------------------------------------------------------------
(* Properties. *)

\* No stage of the chain is stuck on an old version of its inputs.
CaughtUp == Management!CaughtUp

\* What the operator asks for is in effect: the FPGA driver manages the
\* bitstream of its config, a bitstream reported as loaded is the one of the
\* config in its latest version, and the drivers that run are those whose
\* devices exist.
InEffect ==
  /\ managed = cfg
  /\ state.loaded => pl = [name |-> cfg, content |-> file[cfg]] /\ ~held
  /\ init_config = Management!DriversFor(
                     static \union (IF state.loaded THEN declared[cfg] ELSE {}))

\* When the operator stops changing things, what he asked for takes effect
\* and stays so, whichever signals were coalesced on the way, unless a file
\* that is no bitstream ended the FPGA driver.
Converges ==
  <>[][FALSE]_<<cfg, file, static, declared>>
    => <>[](pc = "dead" \/ InEffect)
=============================================================================
