------------------------------ MODULE GemDevice ------------------------------
(***************************************************************************)
(* How the Ethernet driver starts: the constructors of Device (device.h),  *)
(* with the question to the PHY for the speed of the link                  *)
(* (marvell_phy.h), and of Uplink_client (uplink_client.h), up to the      *)
(* point where the controller receives and interrupts are handled.         *)
(*                                                                         *)
(* External: the management port (MDIO) of the controller and the PHY.     *)
(***************************************************************************)
EXTENDS Naturals

CONSTANTS Speeds,    \* speeds the PHY may have negotiated
          Timeout,   \* how often _mdio_wait looks again
          NoLink     \* SPEED_UNDEFINED

ASSUME TimeoutAssumption == Timeout \in Nat
ASSUME NoLinkAssumption == NoLink \notin Speeds

VARIABLES
  pc,          \* next step of the driver thread
  timeout,     \* local of _mdio_wait
  speed,       \* Config.Gige_en and Speed_100, NoLink if not set yet
  enabled,     \* Interrupt_enable, and the handler is registered
  rx_en,       \* Control.Rx_en
  qbar,        \* Rx_qbar is the base of the descriptor ring
  idle,        \* Status.Phy_mgmt_idle
  data,        \* Phy_maintenance.Data
  phy          \* what the PHY has negotiated

registers == <<speed, enabled, rx_en, qbar>>
port == <<idle, data, phy>>
device == <<timeout, registers, port>>

BringUpSteps == {"deinit", "init", "mdio_wait", "mdio_read", "eth_speed",
                 "enable_irq", "irq_sigh", "enable", "dead"}

Answers == Speeds \union {NoLink}

\* The boot loader may have left the receiver running, and the answer to a
\* question of its own in the data register.
DeviceInit ==
  /\ pc = "deinit" /\ timeout = Timeout
  /\ speed = NoLink /\ enabled \in BOOLEAN /\ rx_en \in BOOLEAN
  /\ qbar = FALSE
  /\ idle \in BOOLEAN /\ data \in Answers /\ phy \in Answers

-----------------------------------------------------------------------------
\* The management port is done with an operation (external).
HwMdio ==
  /\ ~idle /\ idle' = TRUE
  /\ data' = phy
  /\ UNCHANGED <<pc, timeout, registers, phy>>

-----------------------------------------------------------------------------
(* The constructor of Device. *)

\* deinit leaves Interrupt_status alone.  The 0 it writes to Phy_maintenance
\* would read as no link.
Deinit ==
  /\ pc = "deinit" /\ pc' = "init"
  /\ rx_en' = FALSE /\ qbar' = FALSE /\ enabled' = FALSE
  /\ data' = NoLink
  /\ UNCHANGED <<timeout, speed, idle, phy>>

\* Mutant: init enables what its comment says.
ConfigureEnables ==
  /\ pc = "init" /\ pc' = "mdio_wait"
  /\ rx_en' = TRUE
  /\ UNCHANGED <<timeout, speed, enabled, qbar, port>>

\* init up to the question to the PHY.  It enables the management port only.
Configure ==
  /\ pc = "init" /\ pc' = "mdio_wait"
  /\ UNCHANGED device

\* _mdio_wait looks again after a millisecond, and throws in the end.
MdioWait ==
  /\ pc \in {"mdio_wait", "mdio_read"} /\ ~idle
  /\ IF timeout = 0 THEN pc' = "dead" /\ UNCHANGED timeout
                    ELSE timeout' = timeout - 1 /\ UNCHANGED pc
  /\ UNCHANGED <<registers, port>>

\* _phy_setup_op starts an operation when the port is idle ...
PhySetup ==
  /\ pc = "mdio_wait" /\ idle
  /\ idle' = FALSE
  /\ pc' = "mdio_read" /\ timeout' = Timeout
  /\ UNCHANGED <<registers, data, phy>>

\* ... and phy_read takes the answer when it is idle again.
PhyRead ==
  /\ pc = "mdio_read" /\ idle
  /\ pc' = "eth_speed" /\ timeout' = Timeout
  /\ UNCHANGED <<registers, port>>

\* Without a link the constructor throws.
EthSpeed ==
  /\ pc = "eth_speed"
  /\ speed' = data
  /\ pc' = IF data = NoLink THEN "dead" ELSE "enable_irq"
  /\ UNCHANGED <<timeout, enabled, rx_en, qbar, port>>

EnableInterrupts ==
  /\ pc = "enable_irq" /\ pc' = "irq_sigh"
  /\ enabled' = TRUE
  /\ UNCHANGED <<timeout, speed, rx_en, qbar, port>>

(* The constructor of Uplink_client makes the rings and registers the       *)
(* handler, which does not run before the constructor has returned.         *)

RegisterHandler ==
  /\ pc = "irq_sigh" /\ pc' = "enable"
  /\ UNCHANGED device

EnableReceiver ==
  /\ pc = "enable" /\ pc' = "idle"
  /\ qbar' = TRUE /\ rx_en' = TRUE
  /\ UNCHANGED <<timeout, speed, enabled, port>>

BringUp == \/ Deinit \/ Configure \/ MdioWait \/ PhySetup \/ PhyRead
           \/ EthSpeed \/ EnableInterrupts \/ RegisterHandler \/ EnableReceiver

-----------------------------------------------------------------------------
DeviceTypeOK ==
  /\ timeout \in 0..Timeout
  /\ speed \in Answers /\ data \in Answers /\ phy \in Answers
  /\ {enabled, rx_en, qbar, idle} \subseteq BOOLEAN

\* From deinit on, the controller never receives without a ring to store
\* frames in, a speed that is the PHY's, and interrupts: whatever was left
\* running, however long the PHY takes to answer.
ReceiverReady ==
  rx_en /\ pc # "deinit" => qbar /\ enabled /\ speed = phy
=============================================================================
