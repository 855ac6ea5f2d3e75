------------------------- MODULE FpgaSystem_proofs -------------------------
(***************************************************************************)
(* Proofs about the FPGA driver and the device management behind it, for   *)
(* any bitstreams, versions of them, device types and drivers.             *)
(*                                                                         *)
(* ReportTruthful is not inductive: while a bitstream is being exchanged   *)
(* it speaks of the name that is reported, and the steps compare that name *)
(* with the one that is managed.  ReportInv adds that the two agree as     *)
(* long as something is reported loaded, which the destructor of           *)
(* Managed_bitstream ensures by reporting before it resets the PL.         *)
(* CaughtUp needs that the driver manager's report is what its flags say,  *)
(* since it only generates the report when a flag has changed.             *)
(***************************************************************************)
EXTENDS FpgaSystem, TLAPS

-----------------------------------------------------------------------------
(* The inductive invariants. *)

\* A bitstream is only opened, and its ROM only watched, under a name, and
\* only what was read is transferred.
Named == /\ pc = "open" => target # None
         /\ romSig => managed # None
         /\ pc \in {"reset", "transfer"} => copy \in AllContents

ReportInv ==
  /\ state.loaded => managed = state.name /\ managed # None
  /\ pc \in {"unload_reset", "open"} => ~state.loaded
  /\ pc = "loaded" => pl # None /\ pl.name = managed /\ ~held
  /\ ReportTruthful

\* The config of the dynamic init is what the flags of the drivers say.
ReportedAsFlagged == init_config = start

\* The steps of the device management leave the FPGA driver alone, but for
\* the signal of its report.
LEMMA ManagersLeaveDriver ==
  ASSUME (Management!Next /\ UNCHANGED fpga) \/ UNCHANGED systemVars
  PROVE  /\ UNCHANGED <<cfg, cfgSig, file, romSig, managed, copy, target, pc,
                        pl, held, state>>
         /\ updateSig \in BOOLEAN => updateSig' \in BOOLEAN
  BY DEF Management!Next, Management!Operator, Management!ChangeStatic,
         Management!ChangeDeclared, Management!Managers,
         Management!HandleUpdate, Management!HandleConfig,
         Management!HandleDevicesUpdate, Management!inputs, systemVars, vars,
         fpga, roms, thread, logic, report

-----------------------------------------------------------------------------
(* Types. *)

\* Every reachable state of the FPGA driver is well-typed; in particular
\* handle_rom only runs while there is a Managed_bitstream, and no unnamed
\* one is ever opened.
THEOREM Typing == SystemSpec => [](TypeOK /\ Named)
<1>1. SystemInit => TypeOK /\ Named
  <2> SUFFICES ASSUME SystemInit PROVE TypeOK /\ Named
    OBVIOUS
  <2>1. Init
    BY DEF SystemInit
  <2>2. file \in [Names -> AllContents]
    BY <2>1 DEF Init
  <2>3. QED
    BY <2>1, <2>2 DEF Init, TypeOK, Named
<1>2. TypeOK /\ Named /\ [SystemNext]_systemVars => (TypeOK /\ Named)'
  <2> SUFFICES ASSUME TypeOK, Named, [SystemNext]_systemVars
               PROVE  (TypeOK /\ Named)'
    OBVIOUS
  <2> USE NoneAssumption
      DEF TypeOK, Named, roms, thread, logic, report
  <2>1. ASSUME NEW n \in Names \union {None}, ChangeConfig(n)
        PROVE  (TypeOK /\ Named)'
    BY <2>1 DEF ChangeConfig
  <2>2. ASSUME NEW n \in Names, NEW c \in Contents[n], ChangeFile(n, c)
        PROVE  (TypeOK /\ Named)'
    <3>1. c \in AllContents
      BY DEF AllContents
    <3>2. file' \in [Names -> AllContents] /\ romSig' \in BOOLEAN
      BY <2>2, <3>1 DEF ChangeFile
    <3>3. QED
      BY <2>2, <3>2 DEF ChangeFile
  <2>3. CASE HandleConfig
    BY <2>3 DEF HandleConfig
  <2>4. CASE Unload
    BY <2>4 DEF Unload, Report
  <2>5. CASE UnloadReset
    BY <2>5 DEF UnloadReset
  <2>6. CASE Open
    BY <2>6 DEF Open
  <2>7. CASE HandleRom
    <3>1. managed # None
      BY <2>7 DEF HandleRom
    <3>2. QED
      BY <2>7, <3>1 DEF HandleRom
  <2>8. CASE Read
    <3>1. copy' \in AllContents
      BY <2>8 DEF Read
    <3>2. QED
      BY <2>8, <3>1 DEF Read
  <2>9. ASSUME NEW ready \in BOOLEAN, ResetPl(ready)
        PROVE  (TypeOK /\ Named)'
    BY <2>9 DEF ResetPl
  <2>10. ASSUME NEW ok \in BOOLEAN, TransferEnds(ok)
         PROVE  (TypeOK /\ Named)'
    <3>1. [name |-> managed, content |-> copy] \in Designs
      BY <2>10 DEF TransferEnds, Designs
    <3>2. pl' \in Designs \union {None}
      BY <2>10, <3>1 DEF TransferEnds
    <3>3. QED
      BY <2>10, <3>2 DEF TransferEnds
  <2>11. CASE ReportLoaded
    BY <2>11 DEF ReportLoaded, Report
  <2>12. CASE (Management!Next /\ UNCHANGED fpga) \/ UNCHANGED systemVars
    BY <2>12, ManagersLeaveDriver
  <2>13. QED
    BY <2>1, <2>2, <2>3, <2>4, <2>5, <2>6, <2>7, <2>8, <2>9, <2>10, <2>11,
       <2>12
    DEF SystemNext, Next, Environment, Driver
<1>3. QED
  BY <1>1, <1>2, PTL DEF SystemSpec


-----------------------------------------------------------------------------
(* The report. *)

\* The report never says loaded of a bitstream that is not in a running PL,
\* except while another version of the same bitstream is being loaded.
THEOREM ReportIsTruthful == SystemSpec => []ReportTruthful
<1>1. SystemInit => ReportInv
  BY DEF SystemInit, Init, ReportInv, ReportTruthful
<1>2. TypeOK /\ Named /\ ReportInv /\ [SystemNext]_systemVars => ReportInv'
  <2> SUFFICES ASSUME TypeOK, Named, ReportInv, [SystemNext]_systemVars
               PROVE  ReportInv'
    OBVIOUS
  <2> USE NoneAssumption
      DEF ReportInv, ReportTruthful, roms, thread, logic, report
  <2>1. CASE Environment
    BY <2>1 DEF Environment, ChangeConfig, ChangeFile
  <2>2. CASE HandleConfig
    BY <2>2 DEF HandleConfig
  <2>3. CASE Unload
    BY <2>3 DEF Unload, Report
  <2>4. CASE UnloadReset
    BY <2>4 DEF UnloadReset
  <2>5. CASE Open
    BY <2>5 DEF Open
  <2>6. CASE HandleRom
    BY <2>6 DEF HandleRom
  <2>7. CASE Read
    BY <2>7 DEF Read
  <2>8. ASSUME NEW ready \in BOOLEAN, ResetPl(ready) PROVE ReportInv'
    BY <2>8 DEF ResetPl
  <2>9. ASSUME NEW ok \in BOOLEAN, TransferEnds(ok) PROVE ReportInv'
    <3>1. [name |-> managed, content |-> copy] \in Designs
      BY <2>9 DEF TransferEnds, TypeOK, Named, Designs
    <3>2. CASE ok
      <4>1. /\ pl' = [name |-> managed, content |-> copy] /\ ~held'
            /\ pl' # None
        <5>1. pl' = [name |-> managed, content |-> copy] /\ ~held'
          BY <2>9, <3>2 DEF TransferEnds
        <5>2. QED
          BY <3>1, <5>1
      <4>2. QED
        BY <2>9, <3>2, <4>1 DEF TransferEnds
    <3>3. CASE ~ok
      BY <2>9, <3>3 DEF TransferEnds
    <3>4. QED
      BY <3>2, <3>3
  <2>10. CASE ReportLoaded
    BY <2>10 DEF ReportLoaded, Report, TypeOK
  <2>11. CASE (Management!Next /\ UNCHANGED fpga) \/ UNCHANGED systemVars
    BY <2>11, ManagersLeaveDriver
  <2>12. QED
    BY <2>1, <2>2, <2>3, <2>4, <2>5, <2>6, <2>7, <2>8, <2>9, <2>10, <2>11
    DEF SystemNext, Next, Driver
<1>3. ReportInv => ReportTruthful
  BY DEF ReportInv
<1>4. QED
  BY <1>1, <1>2, <1>3, Typing, PTL DEF SystemSpec

-----------------------------------------------------------------------------
(* The chain of device management. *)

\* Every component of the chain has worked with the newest version of its
\* inputs or has a signal to do so, however the steps interleave.
THEOREM ChainCaughtUp == SystemSpec => []CaughtUp
<1> USE DEF CaughtUp, Management!CaughtUp, ReportedAsFlagged
<1>1. SystemInit => CaughtUp /\ ReportedAsFlagged
  BY DEF SystemInit, Management!Init, Management!DriversFor
<1>2. CaughtUp /\ ReportedAsFlagged /\ [SystemNext]_systemVars
      => (CaughtUp /\ ReportedAsFlagged)'
  <2> SUFFICES ASSUME CaughtUp, ReportedAsFlagged, [SystemNext]_systemVars
               PROVE  (CaughtUp /\ ReportedAsFlagged)'
    OBVIOUS
  <2> DEFINE Goal == (CaughtUp /\ ReportedAsFlagged)'
  <2> USE DEF Management!Present, Management!DriversFor
  <2>1. CASE Next /\ UNCHANGED management
    <3>1. updateSig' \/ UNCHANGED <<state, updateSig>>
      BY <2>1 DEF Next, Environment, Driver, ChangeConfig, ChangeFile,
                  HandleConfig, Unload, UnloadReset, Open, HandleRom, Read,
                  ResetPl, TransferEnds, ReportLoaded, Report, report
    <3>2. UNCHANGED <<static, declared, devices, configSig, provided,
                      devicesSig, start, init_config>>
      BY <2>1 DEF management
    <3>3. QED
      BY <3>1, <3>2
  <2>2. CASE Management!Operator
    BY <2>2 DEF Management!Operator, Management!ChangeStatic,
                Management!ChangeDeclared
  <2>3. CASE Management!HandleUpdate
    BY <2>3 DEF Management!HandleUpdate, Management!inputs
  <2>4. CASE Management!HandleConfig
    BY <2>4 DEF Management!HandleConfig, Management!inputs
  <2>5. CASE Management!HandleDevicesUpdate
    <3>1. /\ start' = Management!DriversFor(provided)
          /\ init_config' = IF Management!Changed(start, start') THEN start'
                            ELSE init_config
          /\ UNCHANGED <<state, static, declared, updateSig, devices,
                         configSig, provided>>
      BY <2>5 DEF Management!HandleDevicesUpdate, Management!inputs
    <3>2. init_config' = start'
      BY <3>1 DEF Management!Changed
    <3>3. QED
      BY <3>1, <3>2
  <2>6. CASE UNCHANGED systemVars
    BY <2>6 DEF systemVars, vars, report, management
  <2>7. QED
    BY <2>1, <2>2, <2>3, <2>4, <2>5, <2>6
    DEF SystemNext, Management!Next, Management!Managers
<1>3. QED
  BY <1>1, <1>2, PTL DEF SystemSpec
=============================================================================
