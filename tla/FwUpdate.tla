------------------------------ MODULE FwUpdate ------------------------------
(***************************************************************************)
(* Firmware management: the DFU state machine (dfu_core.c) with its two    *)
(* request handlers, QFM at alternate setting 0 (qfm.c) and QFU at the     *)
(* others (qfu.c), over BL-Data.  The host sends any request at any time;  *)
(* requests arrive one at a time, when the previous one has been answered. *)
(***************************************************************************)
EXTENDS BlData

CONSTANTS
  Auth,          \* ENABLE_FIRMWARE_MANAGER_AUTH
  SignedWith,    \* the firmware key each image is authenticated with
  Corrupt,       \* a data block that belongs to no image
  NoHeader,      \* hdr_buf holding no image header
  BlockNumMod,   \* 65536: the host's block numbers are uint16_t
  FirstBlockNums \* numbers a host may give the first block of a transfer

ASSUME ProtocolAssumption ==
  /\ Auth \in BOOLEAN
  /\ SignedWith \in [Images -> Keys]
  /\ Corrupt \notin Images /\ NoHeader \notin Images /\ Corrupt # NoHeader
  /\ Corrupt \notin {Factory, Blank, Torn}
  /\ BlockNumMod \in Nat /\ BlockNumMod > NumPages + 1
  /\ FirstBlockNums \subseteq 0 .. BlockNumMod - 1

BlockNums == 0 .. BlockNumMod - 1

States == {"IDLE", "DNLOAD_SYNC", "DNLOAD_IDLE", "MANIFEST_SYNC",
           "UPLOAD_IDLE", "ERROR"}
Statuses == {"OK", "STALLEDPKT", "VENDOR", "NOTDONE", "TARGET", "ADDRESS",
             "FILE", "VERIFY"}

VARIABLES
  dfuState, dfuStatus,  \* dfu_core.c: the DFU state machine
  alt,                  \* the alternate setting; 0 selects the QFM handler
  blockCnt,             \* block_cnt, the block number a handler is given
  nextBlockNum,         \* next_block_num, what the host is to number it
  hdr,                  \* img_hdr: the image announced by the last header
  rhStatus,             \* the handler's own status (qfu_err_status, or the
                        \* dfu_status of qfm.c; each handler's init clears it)
  infoPending,          \* sys_info_rsp_pending
  blk                   \* blk_buf: the data block to be written

dfuVars == <<dfuState, dfuStatus, alt, blockCnt, nextBlockNum, hdr, rhStatus,
             infoPending, blk>>
vars == <<main, bck, code, shadow, pc, next, fm, dfuState, dfuStatus, alt,
          blockCnt, nextBlockNum, hdr, rhStatus, infoPending, blk>>

\* A data block is known by the image it is a block of; Auth or not, the
\* block after the header is the first one of the image, and so on.
TypeOK ==
  /\ BlTypeOK
  /\ dfuState \in States
  /\ dfuStatus \in Statuses
  /\ alt \in 0 .. NumParts
  /\ blockCnt \in Nat
  /\ nextBlockNum \in BlockNums
  /\ hdr \in Images \cup {NoHeader}
  /\ rhStatus \in Statuses
  /\ infoPending \in BOOLEAN
  /\ blk \in Images

ResetDfu ==
  /\ dfuState' = "IDLE" /\ dfuStatus' = "OK"
  /\ alt' = 0 /\ rhStatus' = "OK"
  /\ blockCnt' = 0 /\ nextBlockNum' = 0
  /\ hdr' = NoHeader
  /\ infoPending' = FALSE
  /\ blk' = blk

Init ==
  /\ BlInit
  /\ dfuState = "IDLE" /\ dfuStatus = "OK"
  /\ alt = 0 /\ rhStatus = "OK"
  /\ blockCnt = 0 /\ nextBlockNum = 0
  /\ hdr = NoHeader
  /\ infoPending = FALSE
  /\ blk \in Images

flashIdle == UNCHANGED <<main, bck, code, fm>>
blIdle == UNCHANGED blVars

\* set_err: enter the error state with a status of DFU core's own.
SetErr(status) == dfuState' = "ERROR" /\ dfuStatus' = status

\* A request that changes nothing but the two state variables of DFU core.
Refuse(status) ==
  /\ SetErr(status)
  /\ blIdle
  /\ UNCHANGED <<alt, blockCnt, nextBlockNum, hdr, rhStatus, infoPending, blk>>

FromHost == pc = "ready"

----------------------------------------------------------------------------
(* DFU_DNLOAD.  A request carries a block number and a payload that is     *)
(* empty, shorter than a block, or a full block.                           *)

Lens == {"empty", "short", "full"}

NextNumUnwrapped(num) == num + 1  \* Mutant: a wider next_block_num.

NextNum(num) == (num + 1) % BlockNumMod

\* dfu_process_dnload up to the handler's call, and after it.
TransferStarts(num, len) ==
  /\ FromHost /\ dfuState = "IDLE"
  /\ num \in FirstBlockNums /\ len # "empty"
  /\ nextBlockNum' = NextNum(num)
  /\ blockCnt' = 1
  /\ dfuState' = "DNLOAD_SYNC"
  /\ UNCHANGED <<dfuStatus, alt>>

TransferGoesOn(num, len) ==
  /\ FromHost /\ dfuState = "DNLOAD_IDLE"
  /\ num = nextBlockNum /\ len # "empty"
  /\ nextBlockNum' = NextNum(num)
  /\ blockCnt' = blockCnt + 1
  /\ dfuState' = "DNLOAD_SYNC"
  /\ UNCHANGED <<dfuStatus, alt>>

DnloadRefused(num, len) ==
  /\ FromHost
  /\ \/ dfuState = "IDLE" /\ len = "empty" /\ Refuse("STALLEDPKT")
     \/ dfuState = "DNLOAD_IDLE" /\ num # nextBlockNum /\ Refuse("VENDOR")
     \/ dfuState \notin {"IDLE", "DNLOAD_IDLE"} /\ Refuse("STALLEDPKT")

AuthenticAnyVersion(i) ==  \* Mutant: the version number is not compared.
  Auth => shadow.fwKey # DefaultKey /\ SignedWith[i] = shadow.fwKey

\* qfu_check_ext_hdr: nothing to check without authentication.
Authentic(i) ==
  Auth => /\ shadow.fwKey # DefaultKey
          /\ Svn[i] >= shadow.svn[TargetOf[alt]]
          /\ SignedWith[i] = shadow.fwKey

\* qfu_handle_hdr.  A header is well formed, has no header magic, or has
\* another block size or extended header than this build expects.
HeaderStatus(i, p, form, len) ==
  IF len # "full" THEN "ADDRESS"
  ELSE IF form = "noMagic" THEN "TARGET"
  ELSE IF p # alt THEN "ADDRESS"
  ELSE IF form = "badSize" THEN "FILE"
  ELSE IF Size[i] > NumPages THEN "ADDRESS"
  ELSE IF ~Authentic(i) THEN "FILE"
  ELSE "OK"

Forms == {"ok", "noMagic", "badSize"}

\* The header is stored before it is checked.
DnloadHeader(num, len, i, p, form) ==
  /\ alt # 0
  /\ TransferStarts(num, len)
  /\ rhStatus' = HeaderStatus(i, p, form, len)
  /\ hdr' = IF len # "full" THEN hdr ELSE IF form = "ok" THEN i ELSE NoHeader
  /\ blIdle
  /\ UNCHANGED <<infoPending, blk>>

\* Without authentication the device cannot tell whose blocks it is sent:
\* the host then sends those of the image it announced.
Sendable(d) == Auth \/ d = hdr

IsSecondBlock == blockCnt = 2  \* Mutant: NUM_HDR_BLOCKS off by one.

IsFirstBlock == blockCnt = 1

\* qfu_handle_blk, up to the write.  The first data block marks the
\* partition inconsistent; a block with the wrong hash has the inconsistent
\* partitions erased.
DnloadData(num, len, d) ==
  /\ alt # 0
  /\ TransferGoesOn(num, len)
  /\ Sendable(d)
  /\ \/ /\ blockCnt > Size[hdr] \/ (blockCnt < Size[hdr] /\ len # "full")
        /\ rhStatus' = "ADDRESS"
        /\ blIdle
        /\ UNCHANGED blk
     \/ /\ blockCnt <= Size[hdr] /\ (blockCnt < Size[hdr] => len = "full")
        /\ IF d # hdr
             THEN /\ rhStatus' = "FILE"
                  /\ Sanitize
                  /\ UNCHANGED blk
             ELSE /\ rhStatus' = rhStatus
                  /\ blk' = d
                  /\ IF IsFirstBlock
                       THEN Writeback([shadow EXCEPT !.cons[alt] = FALSE], "block")
                       ELSE pc' = "block" /\ UNCHANGED <<shadow, next>>
        /\ flashIdle
  /\ UNCHANGED <<hdr, infoPending>>

\* The page write of qfu_handle_blk, and its verification.  blockCnt has
\* moved past the block already.
WriteBlock ==
  /\ pc = "block"
  /\ \E content \in {blk, Torn} :
       /\ code' = [code EXCEPT ![alt][blockCnt - 1] = content]
       /\ rhStatus' = IF content = blk THEN "OK" ELSE "VERIFY"
  /\ pc' = "ready"
  /\ UNCHANGED <<main, bck, shadow, next, fm, dfuState, dfuStatus, alt,
                 blockCnt, nextBlockNum, hdr, infoPending, blk>>

NoMoreThanAnnounced(num) == num <= Size[hdr] + 1  \* Mutant: <= for =.

AllReceived(num) == num = Size[hdr] + 1

\* qfu_dnl_finalize_transfer.  It is given the host's block number.
InstallImage ==
  Writeback([shadow EXCEPT !.cons[alt] = TRUE,
                           !.ver[alt] = hdr,
                           !.active[TargetOf[alt]] = alt,
                           !.svn[TargetOf[alt]] = IF Auth THEN Svn[hdr] ELSE @],
            "return")

DnloadEnds(num) ==
  /\ FromHost /\ dfuState = "DNLOAD_IDLE" /\ num = nextBlockNum
  /\ \/ alt = 0 /\ dfuState' = "MANIFEST_SYNC" /\ dfuStatus' = dfuStatus /\ blIdle
     \/ /\ alt # 0 /\ AllReceived(num)
        /\ InstallImage
        /\ dfuState' = "MANIFEST_SYNC" /\ dfuStatus' = dfuStatus
        /\ flashIdle
     \/ /\ alt # 0 /\ ~AllReceived(num)
        /\ Sanitize
        /\ SetErr("NOTDONE")
        /\ flashIdle
  /\ UNCHANGED <<alt, blockCnt, nextBlockNum, hdr, rhStatus, infoPending, blk>>

----------------------------------------------------------------------------
(* The QFM handler: device management requests, alternate setting 0.       *)

Requests == {"sysInfo", "appErase", "unknown"}
KeyKinds == {"fwKey", "rvKey"}

\* app_erase exists in builds without authentication only.
DnloadRequest(num, len, req) ==
  /\ alt = 0
  /\ TransferStarts(num, len)
  /\ infoPending' = (req = "sysInfo")
  /\ LET known == req = "sysInfo" \/ (req = "appErase" /\ ~Auth)
     IN  rhStatus' = IF known THEN "OK" ELSE "TARGET"
  /\ IF req = "appErase" /\ ~Auth
       THEN Writeback([shadow EXCEPT !.cons = [p \in Partitions |-> FALSE]], "load")
       ELSE UNCHANGED <<shadow, pc, next>>
  /\ flashIdle
  /\ UNCHANGED <<hdr, blk>>

WithKey(which, new) ==
  IF which = "fwKey" THEN [shadow EXCEPT !.fwKey = new]
                     ELSE [shadow EXCEPT !.rvKey = new]

\* qfm_update_key: the packet is authenticated with both current keys.  The
\* firmware key cannot be set before the revocation key.
DnloadKey(num, len, which, new, genuine) ==
  /\ alt = 0 /\ Auth
  /\ TransferStarts(num, len)
  /\ infoPending' = FALSE
  /\ IF genuine /\ (which = "fwKey" => shadow.rvKey # DefaultKey)
       THEN /\ rhStatus' = "OK"
            /\ Writeback(WithKey(which, new), "return")
       ELSE rhStatus' = "VENDOR" /\ UNCHANGED <<shadow, pc, next>>
  /\ flashIdle
  /\ UNCHANGED <<hdr, blk>>

\* A QFM request is one block long.
DnloadExtra(num, len) ==
  /\ alt = 0
  /\ TransferGoesOn(num, len)
  /\ rhStatus' = "TARGET" /\ infoPending' = FALSE
  /\ blIdle
  /\ UNCHANGED <<hdr, blk>>

----------------------------------------------------------------------------
(* The other DFU requests.                                                 *)

\* What the host asks for, compared with the size of a SysInfo response.
ReqLens == {"zero", "less", "equal", "more"}

\* dfu_process_upload.  The QFU handler returns nothing; the QFM handler
\* returns a pending response that fits.  Asking for nothing, or for just
\* what is returned, leaves the transfer open.  Neither handler looks at the
\* number of an upload block, which is left at 1.
Upload(num, reqLen) ==
  /\ FromHost
  /\ \/ dfuState = "IDLE"
     \/ dfuState = "UPLOAD_IDLE" /\ num = nextBlockNum
  /\ nextBlockNum' = NextNum(num)
  /\ blockCnt' = 1
  /\ LET filled == alt = 0 /\ infoPending /\ reqLen \in {"equal", "more"}
         over   == IF filled THEN reqLen = "more" ELSE reqLen # "zero"
     IN  dfuState' = IF over THEN "IDLE" ELSE "UPLOAD_IDLE"
  /\ infoPending' = IF alt = 0 THEN FALSE ELSE infoPending
  /\ blIdle
  /\ UNCHANGED <<dfuStatus, alt, hdr, rhStatus, blk>>

UploadRefused(num) ==
  /\ FromHost
  /\ \/ dfuState \notin {"IDLE", "UPLOAD_IDLE"} /\ Refuse("STALLEDPKT")
     \/ dfuState = "UPLOAD_IDLE" /\ num # nextBlockNum /\ Refuse("VENDOR")

\* dfu_get_status: a block is processed before it is acknowledged, so the
\* handler's answer is final and its poll timeout zero.
GetStatus ==
  /\ FromHost
  /\ dfuState \in {"DNLOAD_SYNC", "MANIFEST_SYNC"}
  /\ dfuStatus' = rhStatus
  /\ dfuState' = IF rhStatus # "OK" THEN "ERROR"
                 ELSE IF dfuState = "DNLOAD_SYNC" THEN "DNLOAD_IDLE"
                 ELSE "IDLE"
  /\ blIdle
  /\ UNCHANGED <<alt, blockCnt, nextBlockNum, hdr, rhStatus, infoPending, blk>>

ClrStatus ==
  /\ FromHost
  /\ \/ dfuState # "ERROR" /\ Refuse("STALLEDPKT")
     \/ /\ dfuState = "ERROR"
        /\ dfuState' = "IDLE" /\ dfuStatus' = "OK" /\ rhStatus' = "OK"
        /\ IF alt = 0 THEN blIdle ELSE Sanitize /\ flashIdle
        /\ UNCHANGED <<alt, blockCnt, nextBlockNum, hdr, infoPending, blk>>

Abort ==
  /\ FromHost
  /\ \/ dfuState \notin {"DNLOAD_IDLE", "UPLOAD_IDLE"} /\ Refuse("STALLEDPKT")
     \/ /\ dfuState \in {"DNLOAD_IDLE", "UPLOAD_IDLE"}
        /\ dfuState' = "IDLE"
        /\ IF dfuState = "DNLOAD_IDLE" /\ alt # 0 THEN Sanitize /\ flashIdle
                                                  ELSE blIdle
        /\ infoPending' = (infoPending /\ ~(dfuState = "DNLOAD_IDLE" /\ alt = 0))
        /\ UNCHANGED <<dfuStatus, alt, blockCnt, nextBlockNum, hdr, rhStatus, blk>>

\* dfu_set_alt_setting.  qfm_init drops no pending response.
SetAlt(a) ==
  /\ FromHost
  /\ dfuState' = "IDLE" /\ dfuStatus' = "OK" /\ rhStatus' = "OK"
  /\ alt' = a
  /\ IF a = 0 THEN blIdle ELSE Sanitize /\ flashIdle
  /\ UNCHANGED <<blockCnt, nextBlockNum, hdr, infoPending, blk>>

----------------------------------------------------------------------------
(* Boot, reset and power.                                                  *)

\* fm_hook and the end of rom_startup: the FM pin or the sticky bit asks for
\* FM mode, which is also entered when there is no application.
EnterFm ==
  /\ pc = "entry"
  /\ pc' = "ready" /\ fm' = TRUE
  /\ UNCHANGED <<flash, shadow, next>>
  /\ ResetDfu

BootStep ==
  /\ Boot \/ StartApp
  /\ UNCHANGED dfuVars

FlashStep ==
  /\ \/ FixMain \/ FixBck \/ EraseDone \/ WritebackMain \/ WritebackBck
     \/ \E p \in Partitions, k \in Pages : ErasePage(p, k)
  /\ UNCHANGED dfuVars

\* A power loss, a reset the host asks for, or the idle timeout of the FM
\* loop, at any point of any handler.
PowerLoss ==
  /\ \/ LosePower(code)
     \/ pc = "erase" /\ \E pages \in ErasingPages : LosePower(pages)
     \/ pc = "block" /\ \E t \in {Blank, Torn} :
                          LosePower([code EXCEPT ![alt][blockCnt - 1] = t])
  /\ ResetDfu

Dnload ==
  \E num \in BlockNums, len \in Lens :
    \/ DnloadRefused(num, len)
    \/ DnloadEnds(num) /\ len = "empty"
    \/ DnloadExtra(num, len)
    \/ \E i \in Images, p \in Partitions, form \in Forms :
         DnloadHeader(num, len, i, p, form)
    \/ \E d \in Images \cup {Corrupt} : DnloadData(num, len, d)
    \/ \E req \in Requests : DnloadRequest(num, len, req)
    \/ \E which \in KeyKinds, new \in Keys, genuine \in BOOLEAN :
         DnloadKey(num, len, which, new, genuine)

Request ==
  \/ Dnload
  \/ \E num \in BlockNums, reqLen \in ReqLens : Upload(num, reqLen)
  \/ \E num \in BlockNums : UploadRefused(num)
  \/ GetStatus
  \/ ClrStatus
  \/ Abort
  \/ \E a \in 0 .. NumParts : SetAlt(a)

Next == BootStep \/ FlashStep \/ WriteBlock \/ EnterFm \/ Request \/ PowerLoss

Spec == Init /\ [][Next]_vars

\* The ROM runs: a step that is not the host's is taken.
FairSpec == /\ Spec
            /\ WF_vars(BootStep) /\ WF_vars(FlashStep)
            /\ WF_vars(WriteBlock) /\ WF_vars(EnterFm)

----------------------------------------------------------------------------
(* Properties.                                                             *)

\* The copy of BL-Data a boot would go by (bl_data_sanitize prefers Main).
Recoverable == Valid(main) \/ Valid(bck)
Effective == IF Valid(main) THEN main ELSE bck

\* The partition is empty, or holds every block of image v.
Whole(p, v) ==
  \/ Erased(p)
  \/ v = Factory /\ \A k \in Pages : code[p][k] \in {Factory, Blank}
  \/ v \in Images /\ \A k \in Pages : k <= Size[v] => code[p][k] = v

\* At every moment, and so wherever power is lost, a partition the next boot
\* will take for consistent is empty or holds the whole of the image its
\* version names: partial and mixed contents are always marked.
WholeOrInconsistent ==
  Recoverable => \A p \in Partitions :
                   Effective.cons[p] => Whole(p, Effective.ver[p])

\* Once the device has been provisioned, one copy of BL-Data is always
\* valid, so that no power loss can ever lead to the endless loop of
\* bl_loop_if_not_blank.
StaysRecoverable == [][Recoverable => Recoverable']_vars

\* When a request has been answered, both copies in flash are what the RAM
\* copy says: no update of BL-Data is forgotten or half written back.
CopiesAgree == pc \in {"ready", "app"} => main = bck /\ (fm => shadow = main)

\* With a partition selected and no transfer open, no partition is left
\* inconsistent: every way out of a failed transfer erases what it wrote.
NoLeftovers ==
  (pc = "ready" /\ alt # 0 /\ dfuState = "IDLE") =>
    \A p \in Partitions : shadow.cons[p]

\* The security version number a target is held to never falls, across
\* updates, failures and power losses.
SvnNeverFalls ==
  [][Recoverable => \A t \in Targets :
                      Effective'.svn[t] >= Effective.svn[t]]_vars

\* If power stays on, a boot gets to the application or to FM mode, unless
\* the device is in the faulty state.
BootSettles ==
  <>[][~PowerLoss]_vars => (pc = "off" ~> pc \in {"ready", "app", "halted"})

\* The copies of BL-Data at each point of a handler.
CopyInv ==
  /\ pc \in {"erase", "block", "entry", "ready", "app"} =>
       Valid(main) /\ bck = main /\ shadow = main
  /\ pc = "wbMain" => main = bck
  /\ pc = "wbBck" => Valid(main) /\ shadow = main
  /\ pc = "fixMain" => Valid(bck) /\ ~Valid(main)
  /\ pc = "fixBck" => Valid(main)
  /\ pc = "off" => shadow = ZeroData

\* Metadata r promises nothing the flash does not hold.
Safe(r) == \A p \in Partitions : r.cons[p] => Whole(p, r.ver[p])

SafeInv ==
  /\ Recoverable => Safe(Effective)
  /\ pc = "wbMain" => Safe(shadow)
  /\ ~Recoverable => \A p \in Partitions : Whole(p, Factory)

\* A block is waiting to be written.
Pending == pc = "block" \/ (pc \in {"wbMain", "wbBck"} /\ next = "block")

\* A firmware transfer in which no block was refused.
Transferring ==
  /\ alt # 0 /\ rhStatus = "OK"
  /\ dfuState \in {"DNLOAD_SYNC", "DNLOAD_IDLE"}

\* The blocks received are the image's, and the partition that holds them
\* is marked from the first one on.
TransferInv ==
  /\ dfuState = "DNLOAD_IDLE" => rhStatus = "OK"
  /\ Pending => /\ Transferring /\ dfuState = "DNLOAD_SYNC"
                /\ blk = hdr /\ blockCnt >= 2
  /\ Transferring =>
       /\ pc = "ready" \/ Pending
       /\ hdr \in Images
       /\ Size[hdr] <= NumPages
       /\ blockCnt \in 1 .. Size[hdr] + 1
       /\ nextBlockNum = blockCnt
       /\ \A k \in Pages : k < (IF Pending THEN blockCnt - 1 ELSE blockCnt)
                             => code[alt][k] = hdr
       /\ blockCnt >= 2 => ~shadow.cons[alt]

\* The inductive invariant behind the first theorems of FwUpdateProofs.
CoreInv == TypeOK /\ CopyInv /\ SafeInv /\ TransferInv

\* The four things a writeback may make of BL-Data: provision a new device,
\* keep or mark partitions, clear the marks of erased ones, install one image.
Provisions(r) == \A p \in Partitions : r.cons[p] /\ r.ver[p] = Factory

Marks(r) == /\ r.ver = main.ver
            /\ \A p \in Partitions : r.cons[p] => main.cons[p]

Discards(r) == /\ r.ver = main.ver
               /\ \A p \in Partitions : r.cons[p] /\ (main.cons[p] \/ Erased(p))

Installs(r, p, i) == /\ ~main.cons[p] /\ ~Erased(p)
                     /\ r.cons = [main.cons EXCEPT ![p] = TRUE]
                     /\ r.ver = [main.ver EXCEPT ![p] = i]

KeepsSvn(r) == \A t \in Targets : r.svn[t] >= main.svn[t]

\* r is a legal successor of the BL-Data in flash.
Succeeds(r) ==
  IF Valid(main)
    THEN /\ KeepsSvn(r)
         /\ \/ Marks(r) \/ Discards(r)
            \/ \E p \in Partitions, i \in Images : Installs(r, p, i)
    ELSE Provisions(r)

WritebackInv == pc = "wbMain" => Succeeds(shadow)

\* The header of an open transfer was checked against the version number the
\* shadow still has.
HeaderInv ==
  (Auth /\ Transferring) => Svn[hdr] >= shadow.svn[TargetOf[alt]]

\* A partition can be selected in FM mode only.  No other partition is
\* marked then, and the selected one only while a transfer is open or has
\* failed; what is marked is being erased otherwise.
LeftoverInv ==
  /\ pc = "ready" => fm
  /\ alt # 0 =>
       /\ fm /\ pc \in {"ready", "erase", "wbMain", "wbBck", "block"}
       /\ pc # "erase" =>
            \A p \in Partitions :
              shadow.cons[p] \/ (p = alt /\ dfuState \in {"DNLOAD_SYNC",
                                                          "DNLOAD_IDLE", "ERROR"})

\* The whole inductive invariant.
IndInv == CoreInv /\ WritebackInv /\ HeaderInv /\ LeftoverInv

\* What the secure programmer's guide says of the endless loop: it is
\* entered only after a hardware fault or an attack.
OnlyFaultsHalt == pc # "halted"

\* What the comment in app_erase says it does: every partition is marked
\* inconsistent and its version set to undefined.
AppEraseForgetsVersions ==
  [][(fm /\ pc' = "wbMain" /\ next' = "load") =>
       \A p \in Partitions : shadow'.ver[p] = Factory]_vars

CONSTANTS
  Empty,    \* an erased partition
  Updating  \* a partition marked as being updated

\* A partition's two other states are no image.
ASSUME SlotAssumption ==
  /\ {Empty, Updating} \cap (Images \cup {Factory}) = {}
  /\ Empty # Updating

Slot == INSTANCE FirmwareSlot WITH
  Parts <- Partitions, Contents <- Images \cup {Factory},
  slot <- [p \in Partitions |->
             IF Recoverable /\ ~Effective.cons[p] THEN Updating
             ELSE IF Erased(p) THEN Empty
             ELSE IF Recoverable THEN Effective.ver[p]
             ELSE Factory]

\* Seen through the effective BL-Data, updates are atomic: BL-Data, QFU and
\* the DFU core together implement the firmware slots.
ImplementsSlots == Slot!Spec
=============================================================================
