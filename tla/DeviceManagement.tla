-------------------------- MODULE DeviceManagement --------------------------
(***************************************************************************)
(* The chain that turns the state of the FPGA into running drivers: the    *)
(* devices manager (src/app/devices_manager) adds the devices of the       *)
(* loaded bitstream to the static ones, the platform driver                *)
(* (src/drivers/platform/zynq) provides and reports them, and the driver   *)
(* manager (src/app/driver_manager/zynq) starts and stops drivers.         *)
(*                                                                         *)
(* Each component is woken by a signal, which says nothing but "look", and *)
(* then takes the newest version of each of its ROM modules.               *)
(***************************************************************************)
CONSTANTS Types,      \* device types
          Names,      \* bitstream names
          DeviceOf    \* the drivers of the driver manager's config, with the
                      \* type of device each is started for

VARIABLES
  state,        \* the report of the FPGA driver
  updateSig,    \* a signal of one of its ROMs waits for the devices manager
  static,       \* the devices ROM of the devices manager
  declared,     \* its config: the devices of each bitstream
  devices,      \* its report, the config of the platform driver
  configSig,    \* ... with a signal pending
  provided,     \* the devices report of the platform driver
  devicesSig,   \* ... with a signal for the driver manager pending
  start,        \* drivers whose flag is set in the driver manager
  init_config   \* drivers in its report, the config of the dynamic init

inputs == <<state, static, declared>>
vars == <<inputs, updateSig, devices, configSig, provided, devicesSig, start,
          init_config>>

Init ==
  /\ static \in SUBSET Types
  /\ declared \in [Names -> SUBSET Types]
  /\ updateSig = TRUE
  /\ devices = {} /\ configSig = FALSE
  /\ provided = {} /\ devicesSig = FALSE
  /\ start = {} /\ init_config = {}

\* External: the operator edits the ROMs of the devices manager.
ChangeStatic(types) ==
  /\ types # static
  /\ static' = types /\ updateSig' = TRUE
  /\ UNCHANGED <<state, declared, devices, configSig, provided, devicesSig,
                 start, init_config>>

ChangeDeclared(name, types) ==
  /\ types # declared[name]
  /\ declared' = [declared EXCEPT ![name] = types] /\ updateSig' = TRUE
  /\ UNCHANGED <<state, static, devices, configSig, provided, devicesSig,
                 start, init_config>>

\* The devices of the platform with the bitstream that is reported loaded.
Present ==
  static \union (IF state.loaded THEN declared[state.name] ELSE {})

\* _handle_update
HandleUpdate ==
  /\ updateSig
  /\ updateSig' = FALSE
  /\ devices' = Present /\ configSig' = TRUE
  /\ UNCHANGED <<inputs, provided, devicesSig, start, init_config>>

\* Main::_handle_config of the platform driver; the code behind it that
\* updates and reports the devices is external.
HandleConfig ==
  /\ configSig
  /\ configSig' = FALSE
  /\ provided' = devices /\ devicesSig' = TRUE
  /\ UNCHANGED <<inputs, updateSig, devices, start, init_config>>

\* Mutant: only a driver to be started is a change.
ChangedIfStarted(old, new) == new \ old # {}

\* The flag changed of _handle_devices_update.
Changed(old, new) == new \ old # {} \/ old \ new # {}

\* The drivers of the config whose type of device is among the given ones.
DriversFor(types) == {d \in DOMAIN DeviceOf : DeviceOf[d] \in types}

\* _handle_devices_update
HandleDevicesUpdate ==
  /\ devicesSig
  /\ devicesSig' = FALSE
  /\ start' = DriversFor(provided)
  /\ init_config' = IF Changed(start, start') THEN start' ELSE init_config
  /\ UNCHANGED <<inputs, updateSig, devices, configSig, provided>>

Operator == \/ \E types \in SUBSET Types : ChangeStatic(types)
            \/ \E name \in Names, types \in SUBSET Types :
                 ChangeDeclared(name, types)
Managers == HandleUpdate \/ HandleConfig \/ HandleDevicesUpdate

Next == Operator \/ Managers

Fairness == /\ WF_vars(HandleUpdate)
            /\ WF_vars(HandleConfig)
            /\ WF_vars(HandleDevicesUpdate)

-----------------------------------------------------------------------------
(* Properties. *)

\* Each component has caught up with its inputs unless a signal tells it to
\* look again, whatever was coalesced: no stage is stuck on an old version.
CaughtUp == /\ updateSig \/ devices = Present
            /\ configSig \/ provided = devices
            /\ devicesSig \/ init_config = DriversFor(provided)
=============================================================================
