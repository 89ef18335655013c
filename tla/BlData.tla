------------------------------- MODULE BlData -------------------------------
(***************************************************************************)
(* Bootloader Data (BL-Data): the metadata of the bootloader, kept twice   *)
(* in flash, and the repair the ROM runs on it at every boot.              *)
(* Source: bsp/bootloader/fw-manager/bl_data.c, bootstrap/rom_startup.c.   *)
(*                                                                         *)
(* A flash page being written is erased first and then filled word by word *)
(* (qm_flash_page_write), so a power loss leaves it as it was, Blank, or   *)
(* Torn.  The CRC is the last word of a copy and is 16 bits in a 32-bit    *)
(* field, so that neither a Blank nor a Torn page passes the CRC test.     *)
(* The unit of application flash is the page group one QFU block fills.    *)
(*                                                                         *)
(* Execution is single threaded: between two flash writes nothing but a    *)
(* power loss can happen, and a power loss clears the RAM.  A handler's    *)
(* RAM updates are therefore made when it starts, and pc walks through the *)
(* flash writes it makes.                                                  *)
(***************************************************************************)
EXTENDS Naturals

CONSTANTS
  NumParts,       \* BL_FLASH_PARTITIONS_NUM
  NumPages,       \* QFU blocks one partition holds
  Targets,        \* boot targets (cores)
  TargetOf,       \* target_idx of each partition
  DefaultActive,  \* active partition of each target in BL_TARGET_LIST
  Images,         \* firmware images a host may send
  Size,           \* data blocks of each image (n_blocks minus the header)
  Svn,            \* security version number of each image
  SvnMax,         \* the largest of them
  Keys,           \* values of the two authentication keys
  DefaultKey,     \* the all-zero key of a device that was never keyed
  Factory,        \* code programmed through JTAG before the first boot
  Blank, Torn     \* an erased page, a page whose write was interrupted

Partitions == 1 .. NumParts
Pages == 1 .. NumPages

ASSUME PartitionAssumption ==
  /\ NumParts \in Nat \ {0}
  /\ NumPages \in Nat \ {0}
  /\ TargetOf \in [Partitions -> Targets]
  /\ DefaultActive \in [Targets -> Partitions]

\* An image has at least one block: the host tools build none from an
\* empty binary.  An image may be larger than the partition.
ASSUME ImageAssumption ==
  /\ Size \in [Images -> Nat \ {0}]
  /\ SvnMax \in Nat
  /\ Svn \in [Images -> 0 .. SvnMax]
  /\ DefaultKey \in Keys

ASSUME PageAssumption ==
  /\ {Factory, Blank, Torn} \cap Images = {}
  /\ Factory # Blank /\ Factory # Torn /\ Blank # Torn

(***************************************************************************)
(* The fields of bl_data_t that change.  ver names the image the partition *)
(* was last completed with; Factory stands for version 0.                  *)
(***************************************************************************)
BlRecord == [cons   : [Partitions -> BOOLEAN],
             ver    : [Partitions -> Images \cup {Factory}],
             active : [Targets -> Partitions],
             svn    : [Targets -> 0 .. SvnMax],
             fwKey  : Keys,
             rvKey  : Keys]

ASSUME CopyAssumption == Blank \notin BlRecord /\ Torn \notin BlRecord

PageData == Images \cup {Factory, Blank, Torn}

VARIABLES
  main, bck,   \* the two copies of BL-Data in flash
  code,        \* application flash: code[p][k] is block k of partition p
  shadow,      \* bl_data_shadow, the RAM copy
  pc,          \* the flash write, or the waiting point, execution is at
  next,        \* what follows the writeback in progress
  fm           \* FALSE while booting, TRUE once FM mode is entered

flash == <<main, bck, code>>
blVars == <<main, bck, code, shadow, pc, next, fm>>

\* The RAM copy as .bss leaves it: all fields zero.
ZeroData == [cons   |-> [p \in Partitions |-> FALSE],
             ver    |-> [p \in Partitions |-> Factory],
             active |-> [t \in Targets |-> 1],
             svn    |-> [t \in Targets |-> 0],
             fwKey  |-> DefaultKey,
             rvKey  |-> DefaultKey]

Valid(copy) == copy \notin {Blank, Torn}

AllConsistent(r) == [r EXCEPT !.cons = [p \in Partitions |-> TRUE]]

Erased(p) == \A k \in Pages : code[p][k] = Blank

BlTypeOK ==
  /\ main \in BlRecord \cup {Blank, Torn}
  /\ bck \in BlRecord \cup {Blank, Torn}
  /\ code \in [Partitions -> [Pages -> PageData]]
  /\ shadow \in BlRecord
  /\ pc \in {"off", "fixMain", "fixBck", "erase", "wbMain", "wbBck",
             "block", "entry", "ready", "app", "halted"}
  /\ next \in {"load", "block", "return"}
  /\ fm \in BOOLEAN

\* A device that was never booted: BL-Data is blank, the application flash
\* is blank or holds what JTAG wrote.
BlInit ==
  /\ main = Blank /\ bck = Blank
  /\ code \in [Partitions -> { [k \in Pages |-> Blank],
                               [k \in Pages |-> Factory] }]
  /\ shadow = ZeroData
  /\ pc = "off" /\ next = "return" /\ fm = FALSE

(***************************************************************************)
(* bl_data_sanitize and bl_data_shadow_writeback, as changes of pc, next   *)
(* and shadow a caller makes; the flash writes are the actions below.      *)
(***************************************************************************)
Return == IF fm THEN "ready" ELSE "entry"

LoadOnly(r) ==  \* Mutant: inconsistent partitions are not looked for.
  /\ shadow' = r
  /\ pc' = Return
  /\ next' = "return"

\* bl_data_sanitize, line 259 on: reload the RAM copy, then see to the
\* inconsistent partitions.
Load(r) ==
  /\ shadow' = r
  /\ pc' = IF \E p \in Partitions : ~r.cons[p] THEN "erase" ELSE Return
  /\ next' = "return"

Writeback(r, then) ==
  /\ shadow' = r
  /\ pc' = "wbMain"
  /\ next' = then

\* bl_data_init; the fields it does not set are zero since the last reset.
Provision == Writeback([AllConsistent(shadow) EXCEPT !.active = DefaultActive],
                       "load")

Halt == pc' = "halted" /\ UNCHANGED <<shadow, next>>

Fix(step) == pc' = step /\ UNCHANGED <<shadow, next>>

\* Mutant: a stale or torn backup is left as it is.
SanitizeMainOnly ==
  \/ /\ ~Valid(main) /\ ~Valid(bck)
     /\ IF main = Blank /\ bck = Blank THEN Provision ELSE Halt
  \/ ~Valid(main) /\ Valid(bck) /\ Fix("fixMain")
  \/ Valid(main) /\ Load(main)

Sanitize ==
  \/ /\ ~Valid(main) /\ ~Valid(bck)
     /\ IF main = Blank /\ bck = Blank THEN Provision ELSE Halt
  \/ ~Valid(main) /\ Valid(bck) /\ Fix("fixMain")
  \/ Valid(main) /\ bck # main /\ Fix("fixBck")
  \/ Valid(main) /\ bck = main /\ Load(main)

----------------------------------------------------------------------------
(* The flash writes.                                                       *)

FixMain ==
  /\ pc = "fixMain"
  /\ main' = bck
  /\ Load(bck)
  /\ UNCHANGED <<bck, code, fm>>

FixBck ==
  /\ pc = "fixBck"
  /\ bck' = main
  /\ Load(main)
  /\ UNCHANGED <<main, code, fm>>

\* The next page bl_data_erase_partition erases that is not blank already.
ErasePage(p, k) ==
  /\ pc = "erase"
  /\ ~shadow.cons[p] /\ code[p][k] # Blank
  /\ \A q \in Partitions, j \in Pages :
       (q < p \/ (q = p /\ j < k)) => (shadow.cons[q] \/ code[q][j] = Blank)
  /\ code' = [code EXCEPT ![p][k] = Blank]
  /\ UNCHANGED <<main, bck, shadow, pc, next, fm>>

\* Mutant: the erased partitions are not marked back as consistent.
EraseDoneUnmarked ==
  /\ pc = "erase"
  /\ \A p \in Partitions : shadow.cons[p] \/ Erased(p)
  /\ Writeback(shadow, "load")
  /\ UNCHANGED <<flash, fm>>

EraseDone ==
  /\ pc = "erase"
  /\ \A p \in Partitions : shadow.cons[p] \/ Erased(p)
  /\ Writeback(AllConsistent(shadow), "return")
  /\ UNCHANGED <<flash, fm>>

WritebackMain ==
  /\ pc = "wbMain"
  /\ main' = shadow
  /\ pc' = "wbBck"
  /\ UNCHANGED <<bck, code, shadow, next, fm>>

\* app_erase goes on with bl_data_sanitize, which only reloads: the two
\* copies have just been made equal.
WritebackBck ==
  /\ pc = "wbBck"
  /\ bck' = shadow
  /\ \/ next = "load" /\ Load(main)
     \/ next = "block" /\ pc' = "block" /\ UNCHANGED <<shadow, next>>
     \/ next = "return" /\ pc' = Return /\ UNCHANGED <<shadow, next>>
  /\ UNCHANGED <<main, code, fm>>

----------------------------------------------------------------------------
(* Power, boot and the application.                                        *)

Boot ==
  /\ pc = "off"
  /\ Sanitize
  /\ UNCHANGED <<flash, fm>>

\* rom_startup looks at the first word of the first partition only.  A torn
\* page may or may not have its first word.
StartApp ==
  /\ pc = "entry"
  /\ code[1][1] # Blank
  /\ pc' = "app"
  /\ UNCHANGED <<flash, shadow, next, fm>>

Interrupted(old) == {old, Blank, Torn}

\* Power is lost: the page being written keeps one of its transient values.
LosePower(page) ==
  /\ pc # "off"
  /\ main' \in IF pc \in {"fixMain", "wbMain"} THEN Interrupted(main) ELSE {main}
  /\ bck' \in IF pc \in {"fixBck", "wbBck"} THEN Interrupted(bck) ELSE {bck}
  /\ code' = page
  /\ shadow' = ZeroData
  /\ pc' = "off" /\ next' = "return" /\ fm' = FALSE

\* What the application flash can be after a power loss during an erase.
ErasingPages ==
  {code} \cup { [code EXCEPT ![p][k] = Torn] :
                  p \in {q \in Partitions : ~shadow.cons[q]}, k \in Pages }
=============================================================================
