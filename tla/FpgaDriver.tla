----------------------------- MODULE FpgaDriver -----------------------------
(***************************************************************************)
(* The FPGA driver (src/drivers/fpga/): it follows its config, which names *)
(* a bitstream, and the ROM module of that name, loads the bitstream into  *)
(* the programmable logic (PL) through PCAP and reports what is loaded.    *)
(*                                                                         *)
(* The driver is one thread.  Its handlers are cut where they touch what   *)
(* others see: the ROM modules, the PL and the state report.  External:    *)
(* whoever writes the ROM modules, the ROM service, which signals every    *)
(* change the driver has not picked up, and the DMA engine.                *)
(***************************************************************************)
CONSTANTS Names,      \* bitstream names the config may ask for
          Contents,   \* what the file of each name may contain:
          Invalid,    \*   no bitstream at all
          Odd,        \*   a byte-swapped one of incomplete last word
          None        \* no name, nothing loaded

AllContents == UNION {Contents[n] : n \in Names}

ASSUME ContentsAssumption == /\ DOMAIN Contents = Names
                             /\ Invalid \subseteq AllContents
                             /\ Odd \subseteq AllContents \ Invalid

\* What may be in the PL.
Designs == [name : Names, content : AllContents]

ASSUME NoneAssumption == None \notin Names \union Designs

VARIABLES
  cfg, cfgSig,      \* the name in the config ROM; a signal is pending
  file, romSig,     \* the bitstream files; a signal for the attached one
  managed,          \* name of managed_bitstream, None if not constructed
  copy,             \* what rom.update() found, while it is being loaded
  target,           \* new_name of handle_config, None if no longer needed
  pc,               \* next step of the driver
  pl,               \* name and content of the design in the PL
  held,             \* the driver has acquired devcfg, which halts the PL
  state,            \* the report: name and loaded
  updateSig         \* its reader has a signal pending

roms == <<cfg, cfgSig, file, romSig>>
thread == <<managed, copy, target, pc>>
report == <<state, updateSig>>
logic == <<pl, held>>
vars == <<roms, thread, logic, report>>

Init ==
  /\ cfg \in Names \union {None} /\ cfgSig = TRUE
  /\ file \in [Names -> AllContents \ (Invalid \union Odd)]
  /\ \A n \in Names : file[n] \in Contents[n]
  /\ romSig = FALSE
  /\ managed = None /\ copy = None /\ target = None /\ pc = "idle"
  /\ pl = None /\ held = TRUE
  /\ state = [name |-> None, loaded |-> FALSE] /\ updateSig = TRUE

-----------------------------------------------------------------------------
(* External. *)

ChangeConfig(n) ==
  /\ n # cfg
  /\ cfg' = n /\ cfgSig' = TRUE
  /\ UNCHANGED <<file, romSig, thread, logic, report>>

ChangeFile(n, c) ==
  /\ c # file[n]
  /\ file' = [file EXCEPT ![n] = c]
  /\ romSig' = (romSig \/ managed = n)
  /\ UNCHANGED <<cfg, cfgSig, thread, logic, report>>

\* The DMA engine and the PL are done, with or without errors.  Only after
\* success the driver releases devcfg, and the PL runs.
TransferEnds(ok) ==
  /\ pc = "transfer"
  /\ pl' = IF ok THEN [name |-> managed, content |-> copy] ELSE None
  /\ held' = ~ok
  /\ pc' = IF ok THEN "loaded" ELSE "failed"
  /\ UNCHANGED <<roms, managed, copy, target, report>>

-----------------------------------------------------------------------------
(* handle_config *)

HandleConfig ==
  /\ pc = "idle" /\ cfgSig
  /\ cfgSig' = FALSE
  /\ target' = IF cfg = managed THEN None ELSE cfg
  /\ pc' = IF cfg = managed THEN "idle"
           ELSE IF managed # None THEN "unload"
           ELSE "open"
  /\ UNCHANGED <<cfg, file, romSig, managed, copy, logic, report>>

Report(name, loaded) ==
  /\ state' = [name |-> name, loaded |-> loaded]
  /\ updateSig' = TRUE

\* Mutant: the destructor resets the PL without a report.
UnloadSilently ==
  /\ pc = "unload"
  /\ pc' = "unload_reset"
  /\ UNCHANGED <<roms, managed, copy, target, logic, report>>

\* The destructor of Managed_bitstream reports that it unloads ...
Unload ==
  /\ pc = "unload"
  /\ Report(None, FALSE)
  /\ pc' = "unload_reset"
  /\ UNCHANGED <<roms, managed, copy, target, logic>>

\* ... and resets the PL; its signal handler goes with it.
UnloadReset ==
  /\ pc = "unload_reset"
  /\ pl' = None /\ held' = TRUE
  /\ managed' = None /\ romSig' = FALSE
  /\ pc' = IF target = None THEN "idle" ELSE "open"
  /\ UNCHANGED <<cfg, cfgSig, file, copy, target, report>>

\* The constructor of Managed_bitstream opens the ROM.
Open ==
  /\ pc = "open"
  /\ managed' = target /\ target' = None
  /\ pc' = "read"
  /\ UNCHANGED <<roms, copy, logic, report>>

-----------------------------------------------------------------------------
(* handle_rom *)

HandleRom ==
  /\ pc = "idle" /\ romSig
  /\ romSig' = FALSE
  /\ pc' = "read"
  /\ UNCHANGED <<cfg, cfgSig, file, managed, copy, target, logic, report>>

\* rom.update(), the constructor of Bitstream and the copy to the DMA buffer.
\* Nobody catches a Format_error: the component ends.  load_bitstream begins
\* by acquiring devcfg; as not all bytes of an odd bitstream are copied, it
\* gives up on one before the PL is reset.
Read ==
  /\ pc = "read"
  /\ copy' = file[managed]
  /\ pc' = IF copy' \in Invalid THEN "dead"
           ELSE IF copy' \in Odd THEN "failed"
           ELSE "reset"
  /\ held' = (held \/ copy' \notin Invalid)
  /\ UNCHANGED <<roms, managed, target, pl, report>>

\* The PL is reset before the DMA queue is found full or busy.
ResetPl(ready) ==
  /\ pc = "reset"
  /\ pl' = None
  /\ pc' = IF ready THEN "transfer" ELSE "failed"
  /\ UNCHANGED <<roms, managed, copy, target, held, report>>

\* Mutant: a signal that came while the bitstream was loaded is dropped.
ReportClearsSignal ==
  /\ pc \in {"loaded", "failed"}
  /\ Report(managed, pc = "loaded")
  /\ pc' = "idle" /\ copy' = None /\ romSig' = FALSE
  /\ UNCHANGED <<cfg, cfgSig, file, managed, target, logic>>

ReportLoaded ==
  /\ pc \in {"loaded", "failed"}
  /\ Report(managed, pc = "loaded")
  /\ pc' = "idle" /\ copy' = None
  /\ UNCHANGED <<roms, managed, target, logic>>

-----------------------------------------------------------------------------
Environment == \/ \E n \in Names \union {None} : ChangeConfig(n)
               \/ \E n \in Names : \E c \in Contents[n] : ChangeFile(n, c)

Driver == \/ HandleConfig \/ Unload \/ UnloadReset \/ Open
          \/ HandleRom \/ Read \/ (\E ready \in BOOLEAN : ResetPl(ready))
          \/ (\E ok \in BOOLEAN : TransferEnds(ok))
          \/ ReportLoaded

Next == Environment \/ Driver

\* A handler runs to its end, and a signal is handled some day although the
\* other one may be raised again and again.
Fairness == WF_vars(Driver) /\ SF_vars(HandleConfig) /\ SF_vars(HandleRom)

-----------------------------------------------------------------------------
(* Properties. *)

\* The variables have the types of the members they model, and handle_rom
\* only runs while there is a Managed_bitstream.
TypeOK ==
  /\ cfg \in Names \union {None} /\ cfgSig \in BOOLEAN
  /\ file \in [Names -> AllContents] /\ romSig \in BOOLEAN
  /\ managed \in Names \union {None}
  /\ copy \in AllContents \union {None}
  /\ target \in Names \union {None}
  /\ pc \in {"idle", "unload", "unload_reset", "open", "read", "reset",
             "transfer", "loaded", "failed", "dead"}
  /\ pc \in {"read", "reset", "transfer", "loaded", "failed"}
       => managed # None
  /\ pl \in Designs \union {None} /\ held \in BOOLEAN
  /\ state \in [name : Names \union {None}, loaded : BOOLEAN]
  /\ updateSig \in BOOLEAN

\* If the report says that a bitstream is loaded, its design is in the PL
\* and the PL is running, through every change of name, failed load and
\* death of the driver.  The one exception: the driver does not take the
\* report back while it loads another version of the same bitstream.
ReportTruthful ==
  state.loaded =>
    \/ pl # None /\ pl.name = state.name /\ ~held
    \/ managed = state.name /\ pc \in {"reset", "transfer", "failed"}
=============================================================================
