--------------------------- MODULE FwUpdateProofs ---------------------------
(***************************************************************************)
(* Proofs about FwUpdate, for any number of partitions, pages, images and  *)
(* keys, with or without authentication.  The safety theorems assume that  *)
(* the host numbers the first block of a transfer zero.                    *)
(***************************************************************************)
EXTENDS FwUpdate, TLAPS

USE DEF Partitions, Pages

----------------------------------------------------------------------------
(* Records.                                                                *)

\* Marking all partitions consistent changes nothing else.
LEMMA AllConsistentRecord ==
  ASSUME NEW r \in BlRecord
  PROVE  /\ AllConsistent(r) \in BlRecord
         /\ AllConsistent(r).ver = r.ver
         /\ \A p \in Partitions : AllConsistent(r).cons[p] = TRUE
  BY DEF AllConsistent, BlRecord

LEMMA ZeroRecord ==
  /\ ZeroData \in BlRecord
  /\ \A p \in Partitions : ZeroData.ver[p] = Factory
  BY PartitionAssumption, ImageAssumption DEF ZeroData, BlRecord

\* What bl_data_init writes.
LEMMA ProvisionedRecord ==
  ASSUME NEW r, r = [AllConsistent(ZeroData) EXCEPT !.active = DefaultActive]
  PROVE  /\ r \in BlRecord
         /\ \A p \in Partitions : r.cons[p] /\ r.ver[p] = Factory
  <1>1. /\ AllConsistent(ZeroData) \in BlRecord
        /\ AllConsistent(ZeroData).ver = ZeroData.ver
        /\ \A p \in Partitions : AllConsistent(ZeroData).cons[p]
    BY ZeroRecord, AllConsistentRecord
  <1>2. /\ r \in BlRecord
        /\ r.ver = AllConsistent(ZeroData).ver
        /\ r.cons = AllConsistent(ZeroData).cons
    BY <1>1, PartitionAssumption DEF BlRecord
  <1> QED
    BY <1>1, <1>2, ZeroRecord

\* Marking one partition.
LEMMA MarkedRecord ==
  ASSUME NEW r \in BlRecord, NEW p \in Partitions,
         NEW s, s = [r EXCEPT !.cons[p] = FALSE]
  PROVE  /\ s \in BlRecord
         /\ s.ver = r.ver
         /\ s.cons = [r.cons EXCEPT ![p] = FALSE]
  BY DEF BlRecord

LEMMA ClearedRecord ==
  ASSUME NEW r \in BlRecord,
         NEW s, s = [r EXCEPT !.cons = [p \in Partitions |-> FALSE]]
  PROVE  /\ s \in BlRecord
         /\ \A p \in Partitions : s.cons[p] = FALSE
  BY DEF BlRecord

LEMMA CopyRecord ==
  ASSUME BlTypeOK
  PROVE  /\ Valid(main) => main \in BlRecord
         /\ Valid(bck) => bck \in BlRecord
         /\ ~Valid(Blank) /\ ~Valid(Torn)
         /\ \A r \in BlRecord : Valid(r)
  BY CopyAssumption DEF BlTypeOK, Valid

LEMMA InstalledRecord ==
  ASSUME shadow \in BlRecord, alt \in Partitions, hdr \in Images,
         NEW s,
         s = [shadow EXCEPT !.cons[alt] = TRUE,
                            !.ver[alt] = hdr,
                            !.active[TargetOf[alt]] = alt,
                            !.svn[TargetOf[alt]] = IF Auth THEN Svn[hdr] ELSE @]
  PROVE  /\ s \in BlRecord
         /\ s.cons = [shadow.cons EXCEPT ![alt] = TRUE]
         /\ s.ver = [shadow.ver EXCEPT ![alt] = hdr]
  BY PartitionAssumption, ImageAssumption DEF BlRecord

----------------------------------------------------------------------------
(* What holds of the partitions.                                           *)

\* Whole depends on the contents of the partition only.
LEMMA WholeSame ==
  ASSUME NEW p \in Partitions, NEW v, code'[p] = code[p], Whole(p, v)
  PROVE  Whole(p, v)'
  BY DEF Whole, Erased

\* Safe survives a change of code that leaves the consistent partitions of
\* the metadata alone.
LEMMA SafeSame ==
  ASSUME NEW r, Safe(r),
         \A p \in Partitions : r.cons[p] => code'[p] = code[p]
  PROVE  \A p \in Partitions : r.cons[p] => Whole(p, r.ver[p])'
  BY WholeSame DEF Safe

\* Sanitizing in FM mode only reloads the RAM copy.
LEMMA SanitizeInFm ==
  ASSUME CopyInv, pc = "ready", Sanitize
  PROVE  Load(main)
  BY DEF CopyInv, Sanitize

----------------------------------------------------------------------------
(* The inductive invariant: initial states.                                *)

LEMMA IndInit == Init => CoreInv
  <1> SUFFICES ASSUME Init PROVE CoreInv
    OBVIOUS
  <1> USE DEF Init, BlInit
  <1>1. TypeOK
    <2>1. code \in [Partitions -> [Pages -> PageData]]
      BY DEF PageData
    <2>2. BlTypeOK
      BY <2>1, ZeroRecord DEF BlTypeOK
    <2>3. 0 \in BlockNums /\ 0 \in 0 .. NumParts
      BY PartitionAssumption, ProtocolAssumption DEF BlockNums
    <2> QED
      BY <2>2, <2>3 DEF TypeOK, States, Statuses
  <1>2. CopyInv
    BY DEF CopyInv
  <1>3. SafeInv
    <2>1. ~Recoverable
      BY DEF Recoverable, Valid
    <2>2. ASSUME NEW p \in Partitions PROVE Whole(p, Factory)
      <3>1. code[p] \in {[k \in Pages |-> Blank], [k \in Pages |-> Factory]}
        OBVIOUS
      <3>2. \A k \in Pages : code[p][k] \in {Factory, Blank}
        BY <3>1
      <3> QED
        BY <3>2 DEF Whole
    <2> QED
      BY <2>1, <2>2 DEF SafeInv
  <1>4. TransferInv
    BY DEF TransferInv, Pending, Transferring
  <1> QED
    BY <1>1, <1>2, <1>3, <1>4 DEF CoreInv

----------------------------------------------------------------------------
(* The part of the invariant that BL-Data and the flash decide.            *)

BlInv == BlTypeOK /\ CopyInv /\ SafeInv

LEMMA BlIdleStep == BlInv /\ blIdle => BlInv'
  BY DEF BlInv, BlTypeOK, CopyInv, SafeInv, Recoverable, Effective, Safe, Whole,
         Erased, Valid, blIdle, blVars

\* A reload of the RAM copy when both copies in flash are the same.
LEMMA LoadStep ==
  ASSUME BlTypeOK, NEW r \in BlRecord, Safe(r), Load(r),
         main' = r, bck' = r, code' = code, fm' = fm
  PROVE  BlInv' /\ pc' \in {"erase", "entry", "ready"} /\ next' = "return"
  <1>1. pc' \in {"erase", "entry", "ready"} /\ next' = "return" /\ shadow' = r
    BY DEF Load, Return
  <1>2. BlTypeOK'
    BY <1>1 DEF BlTypeOK
  <1>3. Valid(main)'
    BY CopyRecord DEF Valid
  <1>4. CopyInv'
    BY <1>1, <1>3 DEF CopyInv
  <1>5. SafeInv'
    <2>1. Recoverable' /\ Effective' = r
      BY <1>3 DEF Recoverable, Effective
    <2>2. \A p \in Partitions : r.cons[p] => Whole(p, r.ver[p])'
      BY SafeSame
    <2> QED
      BY <1>1, <2>1, <2>2 DEF SafeInv, Safe
  <1> QED
    BY <1>1, <1>2, <1>4, <1>5 DEF BlInv

\* A writeback starts when the copies agree and what is to be written
\* promises nothing the flash does not hold.
LEMMA WritebackStarts ==
  ASSUME BlInv, main = bck, NEW r \in BlRecord, Safe(r),
         NEW then \in {"load", "block", "return"}, Writeback(r, then),
         UNCHANGED <<main, bck, code, fm>>
  PROVE  BlInv'
  <1>1. pc' = "wbMain" /\ next' = then /\ shadow' = r
    BY DEF Writeback
  <1>2. BlTypeOK'
    BY <1>1 DEF BlTypeOK, BlInv
  <1>3. CopyInv'
    BY <1>1 DEF CopyInv
  <1>4. SafeInv'
    BY <1>1 DEF BlInv, SafeInv, Safe, Whole, Erased, Recoverable, Effective, Valid
  <1> QED
    BY <1>2, <1>3, <1>4 DEF BlInv

LEMMA BootStepBl == BlInv /\ (Boot \/ StartApp) => BlInv'
  <1> SUFFICES ASSUME BlInv, Boot \/ StartApp PROVE BlInv'
    OBVIOUS
  <1> USE DEF BlInv
  <1>1. CASE StartApp
    BY <1>1 DEF StartApp, BlTypeOK, CopyInv, SafeInv, Recoverable, Effective,
                Safe, Whole, Erased, Valid, flash
  <1>2. CASE Boot
    <2>1. pc = "off" /\ Sanitize /\ UNCHANGED <<main, bck, code, fm>>
      BY <1>2 DEF Boot, flash
    <2>2. shadow = ZeroData
      BY <2>1 DEF CopyInv
    <2>3. CASE ~Valid(main) /\ ~Valid(bck) /\ Provision /\ main = bck
      <3> DEFINE r == [AllConsistent(ZeroData) EXCEPT !.active = DefaultActive]
      <3>1. r \in BlRecord /\ \A p \in Partitions : r.ver[p] = Factory
        BY ProvisionedRecord
      <3>2. Safe(r)
        BY <2>3, <3>1 DEF Safe, SafeInv, Recoverable
      <3>3. Writeback(r, "load")
        BY <2>2, <2>3 DEF Provision
      <3> HIDE DEF r
      <3> QED
        BY <2>1, <2>3, <3>1, <3>2, <3>3, WritebackStarts
    <2>4. CASE Halt
      BY <2>1, <2>4 DEF Halt, BlTypeOK, CopyInv, SafeInv, Recoverable,
                        Effective, Safe, Whole, Erased, Valid
    <2>5. CASE \/ ~Valid(main) /\ Valid(bck) /\ Fix("fixMain")
               \/ Valid(main) /\ Fix("fixBck")
      BY <2>1, <2>5 DEF Fix, BlTypeOK, CopyInv, SafeInv, Recoverable,
                        Effective, Safe, Whole, Erased, Valid
    <2>6. CASE Valid(main) /\ bck = main /\ Load(main)
      <3>1. main \in BlRecord /\ Safe(main)
        BY <2>6, CopyRecord DEF SafeInv, Recoverable, Effective
      <3> QED
        BY <2>1, <2>6, <3>1, LoadStep
    <2> QED
      BY <2>1, <2>3, <2>4, <2>5, <2>6 DEF Sanitize
  <1> QED
    BY <1>1, <1>2

LEMMA FixMainBl == BlInv /\ FixMain => BlInv'
  <1> SUFFICES ASSUME BlInv, FixMain PROVE BlInv'
    OBVIOUS
  <1>1. ~Valid(main) /\ Valid(bck) /\ main' = bck /\ Load(bck)
        /\ UNCHANGED <<bck, code, fm>>
    BY DEF FixMain, BlInv, CopyInv
  <1>2. bck \in BlRecord /\ Safe(bck)
    BY <1>1, CopyRecord DEF BlInv, SafeInv, Recoverable, Effective
  <1> QED
    BY <1>1, <1>2, LoadStep DEF BlInv

LEMMA FixBckBl == BlInv /\ FixBck => BlInv'
  <1> SUFFICES ASSUME BlInv, FixBck PROVE BlInv'
    OBVIOUS
  <1>1. Valid(main) /\ bck' = main /\ Load(main) /\ UNCHANGED <<main, code, fm>>
    BY DEF FixBck, BlInv, CopyInv
  <1>2. main \in BlRecord /\ Safe(main)
    BY <1>1, CopyRecord DEF BlInv, SafeInv, Recoverable, Effective
  <1> QED
    BY <1>1, <1>2, LoadStep DEF BlInv

LEMMA WritebackMainBl == BlInv /\ WritebackMain => BlInv'
  <1> SUFFICES ASSUME BlInv, WritebackMain PROVE BlInv'
    OBVIOUS
  <1>1. pc = "wbMain" /\ main' = shadow /\ pc' = "wbBck"
        /\ UNCHANGED <<bck, code, shadow, next, fm>>
    BY DEF WritebackMain
  <1>2. shadow \in BlRecord /\ Safe(shadow)
    BY <1>1 DEF BlInv, BlTypeOK, SafeInv
  <1>3. Valid(main)'
    BY <1>1, <1>2, CopyRecord DEF BlInv, Valid
  <1>4. BlTypeOK' /\ CopyInv'
    BY <1>1, <1>2, <1>3 DEF BlInv, BlTypeOK, CopyInv
  <1>5. SafeInv'
    <2>1. Recoverable' /\ Effective' = shadow
      BY <1>1, <1>3 DEF Recoverable, Effective
    <2> QED
      BY <1>1, <1>2, <2>1 DEF SafeInv, Safe, Whole, Erased
  <1> QED
    BY <1>4, <1>5 DEF BlInv

LEMMA WritebackBckBl == BlInv /\ WritebackBck => BlInv'
  <1> SUFFICES ASSUME BlInv, WritebackBck PROVE BlInv'
    OBVIOUS
  <1>1. pc = "wbBck" /\ bck' = shadow /\ UNCHANGED <<main, code, fm>>
    BY DEF WritebackBck
  <1>2. Valid(main) /\ shadow = main
    BY <1>1 DEF BlInv, CopyInv
  <1>3. main \in BlRecord /\ Safe(main)
    BY <1>2, CopyRecord DEF BlInv, SafeInv, Recoverable, Effective
  <1>4. CASE next = "load" /\ Load(main)
    BY <1>1, <1>2, <1>3, <1>4, LoadStep DEF BlInv
  <1>5. CASE /\ pc' \in {"block", "entry", "ready"}
             /\ UNCHANGED <<shadow, next>>
    <2>1. BlTypeOK'
      BY <1>1, <1>2, <1>3, <1>5 DEF BlInv, BlTypeOK
    <2>2. CopyInv'
      BY <1>1, <1>2, <1>5 DEF BlInv, CopyInv, Valid
    <2>3. SafeInv'
      BY <1>1, <1>2, <1>5 DEF BlInv, SafeInv, Recoverable, Effective, Safe, Whole,
                              Erased, Valid
    <2> QED
      BY <2>1, <2>2, <2>3 DEF BlInv
  <1> QED
    BY <1>4, <1>5 DEF WritebackBck, Return

LEMMA EraseDoneBl == BlInv /\ EraseDone => BlInv'
  <1> SUFFICES ASSUME BlInv, EraseDone PROVE BlInv'
    OBVIOUS
  <1> DEFINE r == AllConsistent(shadow)
  <1>1. /\ \A p \in Partitions : shadow.cons[p] \/ Erased(p)
        /\ Writeback(r, "return") /\ UNCHANGED <<main, bck, code, fm>>
    BY DEF EraseDone, flash
  <1>2. Valid(main) /\ main = bck /\ shadow = main
    BY DEF EraseDone, BlInv, CopyInv
  <1>3. r \in BlRecord /\ r.ver = shadow.ver
    BY AllConsistentRecord DEF BlInv, BlTypeOK
  <1>4. Safe(r)
    <2>1. Safe(shadow)
      BY <1>2 DEF BlInv, SafeInv, Recoverable, Effective
    <2> QED
      BY <1>1, <1>3, <2>1 DEF Safe, Whole
  <1> HIDE DEF r
  <1> QED
    BY <1>1, <1>2, <1>3, <1>4, WritebackStarts

\* A change of the application flash at a point where both copies are valid
\* and the same, confined to partitions they call inconsistent.
LEMMA CodeStep ==
  ASSUME BlInv, pc \in {"erase", "block"},
         code' \in [Partitions -> [Pages -> PageData]],
         \A p \in Partitions : shadow.cons[p] => code'[p] = code[p],
         UNCHANGED <<main, bck, shadow, next, fm>>,
         pc' \in {"erase", "ready"}
  PROVE  BlInv'
  <1>1. Valid(main) /\ bck = main /\ shadow = main
    BY DEF BlInv, CopyInv
  <1>2. Safe(main)
    BY <1>1 DEF BlInv, SafeInv, Recoverable, Effective
  <1>3. BlTypeOK' /\ CopyInv'
    BY <1>1 DEF BlInv, BlTypeOK, CopyInv, Valid
  <1>4. SafeInv'
    <2>1. Recoverable' /\ Effective' = main /\ pc' # "wbMain"
      BY <1>1 DEF Recoverable, Effective, Valid
    <2>2. \A p \in Partitions : main.cons[p] => Whole(p, main.ver[p])'
      BY <1>1, <1>2, SafeSame
    <2> QED
      BY <2>1, <2>2 DEF SafeInv, Safe
  <1> QED
    BY <1>3, <1>4 DEF BlInv

LEMMA ErasePageBl ==
  ASSUME BlInv, NEW p \in Partitions, NEW k \in Pages, ErasePage(p, k)
  PROVE  BlInv'
  <1>1. /\ pc = "erase" /\ ~shadow.cons[p]
        /\ code' = [code EXCEPT ![p][k] = Blank]
        /\ UNCHANGED <<main, bck, shadow, pc, next, fm>>
    BY DEF ErasePage
  <1>2. code' \in [Partitions -> [Pages -> PageData]]
    BY <1>1 DEF BlInv, BlTypeOK, PageData
  <1>3. \A q \in Partitions : shadow.cons[q] => code'[q] = code[q]
    BY <1>1 DEF BlInv, BlTypeOK
  <1> QED
    BY <1>1, <1>2, <1>3, CodeStep

LEMMA FlashStepBl == BlInv /\ FlashStep => BlInv'
  BY FixMainBl, FixBckBl, EraseDoneBl, WritebackMainBl, WritebackBckBl, ErasePageBl
  DEF FlashStep

\* A power loss.  The copy of BL-Data being written is not the one a boot
\* would need, and the application flash changes in a marked partition only.
LEMMA LosePowerBl ==
  ASSUME BlInv, NEW c \in [Partitions -> [Pages -> PageData]],
         c = code \/ /\ pc \in {"erase", "block"}
                     /\ \A p \in Partitions : shadow.cons[p] => c[p] = code[p],
         LosePower(c)
  PROVE  BlInv'
  <1> USE DEF BlInv
  <1>1. /\ main' \in {main, Blank, Torn} /\ bck' \in {bck, Blank, Torn}
        /\ code' = c /\ shadow' = ZeroData
        /\ pc' = "off" /\ next' = "return" /\ fm' = FALSE
    BY DEF LosePower, Interrupted
  <1>2. BlTypeOK' /\ CopyInv'
    BY <1>1, ZeroRecord DEF BlTypeOK, CopyInv
  <1>3. CASE Recoverable
    <2>1. Recoverable' /\ Effective' = Effective
      BY <1>3 DEF LosePower, Interrupted, CopyInv, Recoverable, Effective, Valid
    <2>2. \A p \in Partitions : Effective.cons[p] => code'[p] = code[p]
      <3>1. CASE c = code
        BY <1>1, <3>1
      <3>2. CASE /\ pc \in {"erase", "block"}
                 /\ \A p \in Partitions : shadow.cons[p] => c[p] = code[p]
        BY <1>1, <3>2 DEF CopyInv, Effective
      <3> QED
        BY <3>1, <3>2
    <2>3. ASSUME NEW r, r = Effective
          PROVE  SafeInv'
      <3>1. Safe(r) /\ \A p \in Partitions : r.cons[p] => code'[p] = code[p]
        BY <1>3, <2>2, <2>3 DEF SafeInv
      <3>2. \A p \in Partitions : r.cons[p] => Whole(p, r.ver[p])'
        BY <3>1, SafeSame
      <3>3. Recoverable' /\ Effective' = r /\ pc' # "wbMain"
        BY <1>1, <2>1, <2>3
      <3> QED
        BY <3>2, <3>3 DEF SafeInv, Safe
    <2> QED
      BY <1>2, <2>3
  <1>4. CASE ~Recoverable
    <2>1. code' = code
      BY <1>1, <1>4 DEF CopyInv, Recoverable
    <2>2. ~Recoverable'
      BY <1>1, <1>4, CopyRecord DEF Recoverable, Valid
    <2> QED
      BY <1>1, <1>2, <1>4, <2>1, <2>2 DEF SafeInv, Whole, Erased
  <1> QED
    BY <1>3, <1>4

----------------------------------------------------------------------------
(* The whole invariant, action by action.                                  *)

\* Unchanged DFU variables and flash writes that leave the transfer alone.
LEMMA BootStepInv == CoreInv /\ BootStep => CoreInv'
  <1> SUFFICES ASSUME CoreInv, BootStep PROVE CoreInv'
    OBVIOUS
  <1>1. BlInv'
    BY BootStepBl DEF BootStep, CoreInv, TypeOK, BlInv
  <1>2. TypeOK'
    BY <1>1 DEF BootStep, CoreInv, TypeOK, BlInv, dfuVars
  <1>3. pc \in {"off", "entry"} /\ UNCHANGED dfuVars
    BY DEF BootStep, Boot, StartApp
  <1>4. ~Pending /\ ~Transferring
    BY <1>3 DEF CoreInv, TransferInv, Pending
  <1>5. ~Transferring'
    BY <1>3, <1>4 DEF Transferring, dfuVars
  <1>6. ~Pending'
    BY DEF BootStep, Boot, StartApp, Sanitize, Provision, Halt, Fix, Load, Return,
           Writeback, Pending
  <1>7. TransferInv'
    BY <1>3, <1>5, <1>6 DEF CoreInv, TransferInv, dfuVars
  <1> QED
    BY <1>1, <1>2, <1>7 DEF CoreInv, BlInv

LEMMA FlashStepInv == CoreInv /\ FlashStep => CoreInv'
  <1> SUFFICES ASSUME CoreInv, FlashStep PROVE CoreInv'
    OBVIOUS
  <1>1. BlInv'
    BY FlashStepBl DEF CoreInv, TypeOK, BlInv
  <1>2. UNCHANGED dfuVars
    BY DEF FlashStep
  <1>3. TypeOK'
    BY <1>1, <1>2 DEF CoreInv, TypeOK, BlInv, dfuVars
  <1>4. TransferInv'
    <2>1. CASE Pending
      <3>1. /\ pc \in {"wbMain", "wbBck"} /\ next = "block"
            /\ WritebackMain \/ WritebackBck
        <4>1. \A p \in Partitions, k \in Pages : ErasePage(p, k) => pc = "erase"
          BY DEF ErasePage
        <4>2. FixMain \/ FixBck \/ EraseDone => pc \in {"fixMain", "fixBck", "erase"}
          BY DEF FixMain, FixBck, EraseDone
        <4>3. WritebackMain \/ WritebackBck
          BY <2>1, <4>1, <4>2 DEF FlashStep, Pending
        <4>4. pc \in {"wbMain", "wbBck"}
          BY <4>3 DEF WritebackMain, WritebackBck
        <4> QED
          BY <2>1, <4>3, <4>4 DEF Pending
      <3>2. Pending' /\ UNCHANGED <<code, shadow>>
        BY <3>1 DEF WritebackMain, WritebackBck, Pending
      <3> QED
        BY <1>2, <2>1, <3>2
        DEF CoreInv, TransferInv, Transferring, dfuVars
    <2>2. CASE ~Pending
      <3>1. pc # "ready"
        BY DEF FlashStep, FixMain, FixBck, EraseDone, ErasePage, WritebackMain,
               WritebackBck
      <3>2. ~Transferring
        BY <2>2, <3>1 DEF CoreInv, TransferInv
      <3>3. ~Pending'
        <4>1. CASE WritebackMain \/ WritebackBck
          BY <2>2, <4>1 DEF WritebackMain, WritebackBck, Load, Return, Pending
        <4>2. CASE FixMain \/ FixBck \/ EraseDone
          BY <4>2 DEF FixMain, FixBck, EraseDone, Writeback, Load, Return, Pending
        <4>3. CASE \E p \in Partitions, k \in Pages : ErasePage(p, k)
          BY <4>3 DEF ErasePage, Pending
        <4> QED
          BY <4>1, <4>2, <4>3 DEF FlashStep
      <3> QED
        BY <1>2, <3>2, <3>3 DEF CoreInv, TransferInv, Transferring, dfuVars
    <2> QED
      BY <2>1, <2>2
  <1> QED
    BY <1>1, <1>3, <1>4 DEF CoreInv, BlInv

\* What the invariant says of the block about to be written.
LEMMA PendingBlock ==
  ASSUME CoreInv, pc = "block"
  PROVE  /\ alt \in Partitions /\ blockCnt - 1 \in Pages /\ ~shadow.cons[alt]
         /\ blk = hdr /\ hdr \in Images /\ blockCnt >= 2
         /\ Transferring /\ dfuState = "DNLOAD_SYNC"
         /\ nextBlockNum = blockCnt /\ blockCnt \in 1 .. Size[hdr] + 1
         /\ Size[hdr] <= NumPages
         /\ \A k \in Pages : k < blockCnt - 1 => code[alt][k] = hdr
  <1>1. Pending /\ Transferring
    BY DEF CoreInv, TransferInv, Pending
  <1>2. alt \in 0 .. NumParts /\ alt # 0 /\ blockCnt \in Nat
    BY <1>1 DEF CoreInv, TypeOK, Transferring
  <1>3. hdr \in Images => Size[hdr] \in Nat
    BY ImageAssumption
  <1> QED
    BY <1>1, <1>2, <1>3, PartitionAssumption DEF CoreInv, TransferInv

LEMMA WriteBlockInv == CoreInv /\ WriteBlock => CoreInv'
  <1> SUFFICES ASSUME CoreInv, WriteBlock PROVE CoreInv'
    OBVIOUS
  <1>1. PICK content \in {blk, Torn} :
          /\ code' = [code EXCEPT ![alt][blockCnt - 1] = content]
          /\ rhStatus' = IF content = blk THEN "OK" ELSE "VERIFY"
    BY DEF WriteBlock
  <1>2. /\ pc = "block" /\ pc' = "ready"
        /\ UNCHANGED <<main, bck, shadow, next, fm, dfuState, dfuStatus, alt,
                       blockCnt, nextBlockNum, hdr, infoPending, blk>>
    BY DEF WriteBlock
  <1>3. code \in [Partitions -> [Pages -> PageData]] /\ content \in PageData
    BY DEF CoreInv, TypeOK, BlTypeOK, PageData
  <1>4. code' \in [Partitions -> [Pages -> PageData]]
    BY <1>1, <1>2, <1>3, PendingBlock
  <1>5. \A p \in Partitions : shadow.cons[p] => code'[p] = code[p]
    BY <1>1, <1>2, <1>3, PendingBlock
  <1>6. BlInv'
    BY <1>2, <1>4, <1>5, CodeStep DEF CoreInv, TypeOK, BlInv
  <1>7. TypeOK'
    BY <1>1, <1>2, <1>6 DEF CoreInv, TypeOK, BlInv, Statuses
  <1>8. TransferInv'
    <2>1. ~Pending'
      BY <1>2 DEF Pending
    <2>2. CASE content = blk
      <3>1. ASSUME NEW k \in Pages, k < blockCnt'
            PROVE  code'[alt'][k] = hdr'
        <4>1. /\ k \in Nat /\ blockCnt \in Nat /\ k < blockCnt
              /\ alt \in Partitions /\ blk = hdr /\ alt' = alt /\ hdr' = hdr
          BY <1>2, <3>1, PendingBlock DEF CoreInv, TypeOK
        <4>2. CASE k = blockCnt - 1
          BY <1>1, <1>3, <2>2, <4>1, <4>2
        <4>3. CASE k < blockCnt - 1
          <5>1. code[alt][k] = hdr
            BY <1>2, <4>3, PendingBlock
          <5>2. code'[alt][k] = code[alt][k]
            BY <1>1, <1>3, <4>1, <4>3
          <5> QED
            BY <4>1, <5>1, <5>2
        <4> QED
          BY <4>1, <4>2, <4>3
      <3> QED
        BY <1>1, <1>2, <2>1, <2>2, <3>1, PendingBlock DEF TransferInv, Transferring
    <2>3. CASE content # blk
      <3>1. rhStatus' = "VERIFY" /\ dfuState' = "DNLOAD_SYNC"
        BY <1>1, <1>2, <2>3, PendingBlock
      <3> QED
        BY <2>1, <3>1 DEF TransferInv, Transferring
    <2> QED
      BY <2>2, <2>3
  <1> QED
    BY <1>6, <1>7, <1>8 DEF CoreInv, BlInv

\* A reset leaves no transfer behind.
LEMMA ResetTransfer ==
  ASSUME CoreInv, ResetDfu, BlInv', pc' \in {"off", "ready"}
  PROVE  CoreInv'
  <1>1. TypeOK'
    <2>1. 0 \in BlockNums /\ 0 \in 0 .. NumParts
      BY PartitionAssumption, ProtocolAssumption DEF BlockNums
    <2> QED
      BY <2>1 DEF ResetDfu, CoreInv, TypeOK, BlInv, States, Statuses
  <1>2. TransferInv'
    BY DEF ResetDfu, TransferInv, Transferring, Pending
  <1> QED
    BY <1>1, <1>2 DEF CoreInv, BlInv

LEMMA EnterFmInv == CoreInv /\ EnterFm => CoreInv'
  <1> SUFFICES ASSUME CoreInv, EnterFm PROVE CoreInv'
    OBVIOUS
  <1>1. /\ pc = "entry" /\ pc' = "ready" /\ fm' = TRUE
        /\ UNCHANGED <<main, bck, code, shadow, next>>
    BY DEF EnterFm, flash
  <1>2. BlTypeOK' /\ CopyInv'
    BY <1>1 DEF CoreInv, TypeOK, BlTypeOK, CopyInv, Valid
  <1>3. SafeInv'
    BY <1>1 DEF CoreInv, SafeInv, Recoverable, Effective, Safe, Whole, Erased, Valid
  <1> QED
    BY <1>1, <1>2, <1>3, ResetTransfer DEF EnterFm, BlInv

LEMMA PowerLossInv == CoreInv /\ PowerLoss => CoreInv'
  <1> SUFFICES ASSUME CoreInv, PowerLoss PROVE CoreInv'
    OBVIOUS
  <1>1. code \in [Partitions -> [Pages -> PageData]] /\ BlInv
        /\ Blank \in PageData /\ Torn \in PageData
    BY DEF CoreInv, TypeOK, BlTypeOK, BlInv, PageData
  <1>2. CASE LosePower(code)
    BY <1>1, <1>2, LosePowerBl, ResetTransfer DEF PowerLoss, LosePower
  <1>3. CASE pc = "erase" /\ \E pages \in ErasingPages : LosePower(pages)
    <2>1. PICK pages \in ErasingPages : LosePower(pages)
      BY <1>3
    <2>2. CASE pages = code
      BY <1>1, <2>1, <2>2, LosePowerBl, ResetTransfer DEF PowerLoss, LosePower
    <2>3. CASE pages # code
      <3>1. PICK p \in Partitions, k \in Pages :
              ~shadow.cons[p] /\ pages = [code EXCEPT ![p][k] = Torn]
        BY <2>3 DEF ErasingPages
      <3>2. /\ pages \in [Partitions -> [Pages -> PageData]]
            /\ \A q \in Partitions : shadow.cons[q] => pages[q] = code[q]
        BY <1>1, <3>1
      <3> QED
        BY <1>1, <1>3, <2>1, <3>2, LosePowerBl, ResetTransfer
        DEF PowerLoss, LosePower
    <2> QED
      BY <2>2, <2>3
  <1>4. CASE /\ pc = "block"
             /\ \E t \in {Blank, Torn} :
                  LosePower([code EXCEPT ![alt][blockCnt - 1] = t])
    <2>1. PICK t \in {Blank, Torn} :
            LosePower([code EXCEPT ![alt][blockCnt - 1] = t])
      BY <1>4
    <2>2. alt \in Partitions /\ blockCnt - 1 \in Pages /\ ~shadow.cons[alt]
      BY <1>4, PendingBlock
    <2> DEFINE c == [code EXCEPT ![alt][blockCnt - 1] = t]
    <2>3. /\ c \in [Partitions -> [Pages -> PageData]]
          /\ \A q \in Partitions : shadow.cons[q] => c[q] = code[q]
      BY <1>1, <2>2
    <2> HIDE DEF c
    <2>4. LosePower(c)
      BY <2>1 DEF c
    <2> QED
      BY <1>1, <1>4, <2>3, <2>4, LosePowerBl, ResetTransfer DEF PowerLoss, LosePower
  <1> QED
    BY <1>2, <1>3, <1>4 DEF PowerLoss

----------------------------------------------------------------------------
(* The host's requests.                                                    *)

\* The invariant of BL-Data between two requests.
LEMMA ReadyBl ==
  ASSUME CoreInv, pc = "ready"
  PROVE  /\ BlInv /\ Valid(main) /\ bck = main /\ shadow = main
         /\ main \in BlRecord /\ Safe(main)
         /\ ~Pending
  <1>1. BlInv /\ Valid(main) /\ bck = main /\ shadow = main /\ ~Pending
    BY DEF CoreInv, TypeOK, BlInv, CopyInv, Pending
  <1>2. main \in BlRecord
    BY <1>1 DEF CoreInv, TypeOK, BlTypeOK
  <1>3. Safe(main)
    BY <1>1 DEF BlInv, SafeInv, Recoverable, Effective
  <1> QED
    BY <1>1, <1>2, <1>3

\* A request that sanitizes does no more than reload the RAM copy.
LEMMA SanitizeBl ==
  ASSUME CoreInv, pc = "ready", Sanitize, flashIdle
  PROVE  BlInv' /\ ~Pending'
  <1>1. Load(main) /\ main' = main /\ bck' = main /\ code' = code /\ fm' = fm
    BY ReadyBl, SanitizeInFm DEF BlInv, flashIdle
  <1>2. BlInv' /\ pc' \in {"erase", "entry", "ready"} /\ next' = "return"
    BY <1>1, ReadyBl, LoadStep DEF BlInv
  <1> QED
    BY <1>2 DEF Pending

\* A request after which there is no transfer.
LEMMA NoTransfer ==
  ASSUME BlInv', TypeOK', ~Pending', ~Transferring',
         dfuState' = "DNLOAD_IDLE" => rhStatus' = "OK"
  PROVE  CoreInv'
  BY DEF CoreInv, BlInv, TransferInv

LEMMA RefuseInv ==
  ASSUME CoreInv, pc = "ready", NEW s \in Statuses, Refuse(s)
  PROVE  CoreInv'
  <1>1. BlInv' /\ ~Pending'
    BY ReadyBl, BlIdleStep DEF Refuse, blIdle, blVars, Pending
  <1>2. TypeOK' /\ dfuState' = "ERROR"
    BY <1>1 DEF Refuse, SetErr, CoreInv, TypeOK, BlInv, States
  <1> QED
    BY <1>1, <1>2, NoTransfer DEF Transferring

\* The number a host gives the next block, as long as it fits.
LEMMA NextNumFits ==
  ASSUME NEW num \in Nat, num + 1 < BlockNumMod
  PROVE  NextNum(num) = num + 1
  BY ProtocolAssumption DEF NextNum

LEMMA NextNumType ==
  ASSUME NEW num \in BlockNums
  PROVE  NextNum(num) \in BlockNums
  <1>1. BlockNumMod \in Nat /\ BlockNumMod > 0 /\ num + 1 \in Nat
    BY PartitionAssumption, ProtocolAssumption DEF BlockNums
  <1> QED
    BY <1>1 DEF NextNum, BlockNums

\* What the two shapes of an accepted block leave in DFU core's variables.
LEMMA AcceptedType ==
  ASSUME CoreInv, NEW num \in BlockNums, NEW len,
         TransferStarts(num, len) \/ TransferGoesOn(num, len)
  PROVE  /\ pc = "ready" /\ dfuState' = "DNLOAD_SYNC"
         /\ dfuStatus' \in Statuses /\ alt' = alt /\ alt \in 0 .. NumParts
         /\ blockCnt' \in Nat /\ nextBlockNum' \in BlockNums
  BY NextNumType DEF TransferStarts, TransferGoesOn, FromHost, CoreInv, TypeOK

LEMMA DnloadHeaderInv ==
  ASSUME CoreInv, FirstBlockNums \subseteq {0}, NEW num \in BlockNums,
         NEW len \in Lens, NEW i \in Images, NEW p \in Partitions,
         NEW form \in Forms, DnloadHeader(num, len, i, p, form)
  PROVE  CoreInv'
  <1>1. /\ TransferStarts(num, len) /\ alt # 0
        /\ rhStatus' = HeaderStatus(i, p, form, len)
        /\ hdr' = IF len # "full" THEN hdr ELSE IF form = "ok" THEN i ELSE NoHeader
        /\ blIdle /\ UNCHANGED <<infoPending, blk>>
    BY DEF DnloadHeader
  <1>2. BlInv' /\ ~Pending'
    BY <1>1, AcceptedType, ReadyBl, BlIdleStep DEF blIdle, blVars, Pending
  <1>3. HeaderStatus(i, p, form, len) \in Statuses
    BY DEF HeaderStatus, Statuses
  <1>4. TypeOK'
    BY <1>1, <1>2, <1>3, AcceptedType DEF CoreInv, TypeOK, BlInv, States
  <1>5. CASE rhStatus' # "OK"
    BY <1>1, <1>2, <1>4, <1>5, AcceptedType, NoTransfer DEF Transferring
  <1>6. CASE rhStatus' = "OK"
    <2>1. hdr' = i /\ Size[i] <= NumPages
      <3>1. Size[i] \in Nat /\ NumPages \in Nat
        BY PartitionAssumption, ImageAssumption
      <3>2. len = "full" /\ form = "ok" /\ ~(Size[i] > NumPages)
        BY <1>1, <1>6 DEF HeaderStatus, Forms
      <3> QED
        BY <1>1, <3>1, <3>2
    <2>2. num = 0 /\ blockCnt' = 1 /\ nextBlockNum' = NextNum(0)
      BY <1>1 DEF TransferStarts
    <2>3. 1 < BlockNumMod /\ Size[i] \in Nat \ {0}
      BY PartitionAssumption, ImageAssumption, ProtocolAssumption
    <2>4. nextBlockNum' = 1 /\ 1 \in 1 .. Size[i] + 1
      BY <2>2, <2>3, NextNumFits
    <2>5. pc' = "ready"
      BY <1>1, AcceptedType DEF blIdle, blVars
    <2>6. \A k \in Pages : ~(k < 1)
      OBVIOUS
    <2>7. TransferInv'
      BY <1>2, <1>6, <2>1, <2>2, <2>4, <2>5, <2>6 DEF TransferInv
    <2> QED
      BY <1>2, <1>4, <2>7 DEF CoreInv, BlInv
  <1> QED
    BY <1>5, <1>6

\* A data block that is accepted.
LEMMA DataAccepted ==
  ASSUME CoreInv, NEW num \in BlockNums, NEW len \in Lens, alt # 0,
         TransferGoesOn(num, len), blockCnt <= Size[hdr], hdr \in Images,
         blk' = hdr, rhStatus' = rhStatus, UNCHANGED <<hdr, infoPending>>,
         flashIdle,
         IF IsFirstBlock
           THEN Writeback([shadow EXCEPT !.cons[alt] = FALSE], "block")
           ELSE pc' = "block" /\ UNCHANGED <<shadow, next>>
  PROVE  CoreInv'
  <1>1. /\ pc = "ready" /\ dfuState = "DNLOAD_IDLE" /\ num = nextBlockNum
        /\ blockCnt' = blockCnt + 1 /\ nextBlockNum' = NextNum(num)
        /\ dfuState' = "DNLOAD_SYNC" /\ UNCHANGED <<dfuStatus, alt>>
    BY DEF TransferGoesOn, FromHost
  <1>2. Transferring /\ ~Pending /\ rhStatus = "OK" /\ alt \in Partitions
    BY <1>1, ReadyBl, PartitionAssumption
    DEF CoreInv, TransferInv, Transferring, TypeOK
  <1>3. /\ Size[hdr] <= NumPages /\ Size[hdr] \in Nat /\ blockCnt \in 1 .. Size[hdr]
        /\ nextBlockNum = blockCnt
        /\ \A k \in Pages : k < blockCnt => code[alt][k] = hdr
        /\ blockCnt >= 2 => ~shadow.cons[alt]
    BY <1>2, ImageAssumption DEF CoreInv, TransferInv
  <1>4. nextBlockNum' = blockCnt + 1
    BY <1>1, <1>3, NextNumFits, PartitionAssumption, ProtocolAssumption
  <1>5. UNCHANGED <<main, bck, code, fm>>
    BY DEF flashIdle
  <1>6. BlInv' /\ Pending' /\ ~shadow'.cons[alt]
    <2>1. CASE IsFirstBlock
      <3>1. PICK s : s = [shadow EXCEPT !.cons[alt] = FALSE]
        OBVIOUS
      <3>2. Writeback(s, "block") /\ s \in BlRecord /\ s.ver = shadow.ver
            /\ s.cons = [shadow.cons EXCEPT ![alt] = FALSE]
        BY <1>1, <1>2, <2>1, <3>1, ReadyBl, MarkedRecord
      <3>3. ~s.cons[alt] /\ \A p \in Partitions : s.cons[p] => shadow.cons[p]
        BY <1>1, <1>2, <3>2, ReadyBl DEF BlRecord
      <3>4. Safe(s)
        BY <1>1, <3>2, <3>3, ReadyBl DEF Safe
      <3>5. BlInv'
        BY <1>1, <1>5, <3>2, <3>4, ReadyBl, WritebackStarts
      <3> QED
        BY <3>2, <3>3, <3>5 DEF Writeback, Pending
    <2>2. CASE ~IsFirstBlock
      <3>1. pc' = "block" /\ UNCHANGED <<shadow, next>> /\ ~shadow.cons[alt]
        BY <1>3, <2>2 DEF IsFirstBlock
      <3>2. BlTypeOK' /\ CopyInv'
        BY <1>1, <1>5, <3>1 DEF CoreInv, TypeOK, BlTypeOK, CopyInv, Valid
      <3>3. SafeInv'
        BY <1>1, <1>5, <3>1 DEF CoreInv, SafeInv, Recoverable, Effective, Safe,
                                Whole, Erased, Valid
      <3> QED
        BY <3>1, <3>2, <3>3 DEF BlInv, Pending
    <2> QED
      BY <2>1, <2>2
  <1>7. nextBlockNum' \in BlockNums
    BY <1>1, NextNumType
  <1>8. TypeOK'
    BY <1>1, <1>3, <1>6, <1>7 DEF CoreInv, TypeOK, BlInv, States
  <1>9. \A k \in Pages : k < blockCnt' - 1 => code'[alt'][k] = hdr'
    BY <1>1, <1>3, <1>5
  <1>10. blockCnt' >= 2 /\ blockCnt' \in 1 .. Size[hdr] + 1
    BY <1>1, <1>3
  <1>11. TransferInv'
    BY <1>1, <1>2, <1>3, <1>4, <1>6, <1>9, <1>10 DEF TransferInv, Transferring
  <1> QED
    BY <1>6, <1>8, <1>11 DEF CoreInv, BlInv

LEMMA DnloadDataInv ==
  ASSUME CoreInv, NEW num \in BlockNums, NEW len \in Lens,
         NEW d \in Images \cup {Corrupt}, DnloadData(num, len, d)
  PROVE  CoreInv'
  <1>1. /\ alt # 0 /\ TransferGoesOn(num, len) /\ UNCHANGED <<hdr, infoPending>>
        /\ flashIdle
    BY DEF DnloadData, flashIdle, blIdle, blVars
  <1>2. pc = "ready" /\ dfuState' = "DNLOAD_SYNC"
    BY <1>1, AcceptedType
  <1>3. hdr \in Images
    BY <1>1, <1>2, ReadyBl
    DEF TransferGoesOn, CoreInv, TransferInv, Transferring
  <1>4. CASE rhStatus' = "ADDRESS" /\ blIdle /\ UNCHANGED blk
    <2>1. BlInv' /\ ~Pending'
      BY <1>2, <1>4, ReadyBl, BlIdleStep DEF blIdle, blVars, Pending
    <2>2. TypeOK'
      BY <1>1, <1>4, <2>1, AcceptedType DEF CoreInv, TypeOK, BlInv, States, Statuses
    <2> QED
      BY <1>2, <1>4, <2>1, <2>2, NoTransfer DEF Transferring
  <1>5. CASE rhStatus' = "FILE" /\ Sanitize /\ UNCHANGED blk
    <2>1. BlInv' /\ ~Pending'
      BY <1>1, <1>2, <1>5, SanitizeBl
    <2>2. TypeOK'
      BY <1>1, <1>5, <2>1, AcceptedType DEF CoreInv, TypeOK, BlInv, States, Statuses
    <2> QED
      BY <1>2, <1>5, <2>1, <2>2, NoTransfer DEF Transferring
  <1>6. CASE /\ blockCnt <= Size[hdr]
             /\ d = hdr /\ rhStatus' = rhStatus /\ blk' = d
             /\ IF IsFirstBlock
                  THEN Writeback([shadow EXCEPT !.cons[alt] = FALSE], "block")
                  ELSE pc' = "block" /\ UNCHANGED <<shadow, next>>
    BY <1>1, <1>3, <1>6, DataAccepted
  <1> QED
    BY <1>4, <1>5, <1>6 DEF DnloadData

\* The end of a firmware transfer in which every block was received.
LEMMA InstallBl ==
  ASSUME CoreInv, pc = "ready", Transferring, blockCnt = Size[hdr] + 1,
         InstallImage, flashIdle
  PROVE  BlInv' /\ ~Pending'
  <1>1. /\ alt \in Partitions /\ hdr \in Images /\ blockCnt \in Nat
        /\ \A k \in Pages : k < blockCnt => code[alt][k] = hdr
    BY ReadyBl, PartitionAssumption DEF CoreInv, TypeOK, TransferInv, Transferring
  <1>2. \A k \in Pages : k <= Size[hdr] => code[alt][k] = hdr
    BY <1>1, ImageAssumption
  <1>3. PICK s : s = [shadow EXCEPT !.cons[alt] = TRUE,
                        !.ver[alt] = hdr,
                        !.active[TargetOf[alt]] = alt,
                        !.svn[TargetOf[alt]] = IF Auth THEN Svn[hdr] ELSE @]
    OBVIOUS
  <1>4. /\ s \in BlRecord
        /\ s.cons = [shadow.cons EXCEPT ![alt] = TRUE]
        /\ s.ver = [shadow.ver EXCEPT ![alt] = hdr]
    BY <1>1, <1>3, ReadyBl, InstalledRecord
  <1>5. Safe(s)
    <2>1. Whole(alt, hdr)
      BY <1>1, <1>2 DEF Whole
    <2>2. ASSUME NEW p \in Partitions, s.cons[p] PROVE Whole(p, s.ver[p])
      <3>1. shadow \in BlRecord /\ Safe(shadow)
        BY ReadyBl
      <3>2. CASE p = alt
        BY <1>1, <1>4, <2>1, <3>1, <3>2 DEF BlRecord
      <3>3. CASE p # alt
        <4>1. shadow.cons[p] /\ s.ver[p] = shadow.ver[p]
          BY <1>4, <2>2, <3>1, <3>3 DEF BlRecord
        <4> QED
          BY <3>1, <4>1 DEF Safe
      <3> QED
        BY <3>2, <3>3
    <2> QED
      BY <2>2 DEF Safe
  <1>6. Writeback(s, "return")
    BY <1>3 DEF InstallImage
  <1> QED
    BY <1>4, <1>5, <1>6, ReadyBl, WritebackStarts
    DEF flashIdle, Writeback, Pending

LEMMA DnloadEndsInv ==
  ASSUME CoreInv, NEW num \in BlockNums, DnloadEnds(num)
  PROVE  CoreInv'
  <1>1. /\ pc = "ready" /\ dfuState = "DNLOAD_IDLE" /\ num = nextBlockNum
        /\ UNCHANGED <<alt, blockCnt, nextBlockNum, hdr, rhStatus, infoPending, blk>>
    BY DEF DnloadEnds, FromHost
  <1>2. dfuState' \in {"MANIFEST_SYNC", "ERROR"} /\ dfuStatus' \in Statuses
    BY DEF DnloadEnds, SetErr, CoreInv, TypeOK, Statuses
  <1>3. BlInv' /\ ~Pending'
    <2>1. CASE blIdle
      BY <1>1, <2>1, ReadyBl, BlIdleStep DEF blIdle, blVars, Pending
    <2>2. CASE alt # 0 /\ AllReceived(num) /\ InstallImage /\ flashIdle
      <3>1. Transferring /\ blockCnt = nextBlockNum
        BY <1>1, <2>2, ReadyBl DEF CoreInv, TransferInv, Transferring
      <3> QED
        BY <1>1, <2>2, <3>1, InstallBl DEF AllReceived
    <2>3. CASE Sanitize /\ flashIdle
      BY <1>1, <2>3, SanitizeBl
    <2> QED
      BY <2>1, <2>2, <2>3 DEF DnloadEnds
  <1>4. TypeOK'
    BY <1>1, <1>2, <1>3 DEF CoreInv, TypeOK, BlInv, States
  <1> QED
    BY <1>2, <1>3, <1>4, NoTransfer DEF Transferring

\* A request to the QFM handler has nothing of a firmware transfer.
LEMMA QfmStep ==
  ASSUME CoreInv, alt = 0, NEW num \in BlockNums, NEW len \in Lens,
         TransferStarts(num, len) \/ TransferGoesOn(num, len),
         rhStatus' \in Statuses, infoPending' \in BOOLEAN,
         UNCHANGED <<hdr, blk>>, BlInv', ~Pending'
  PROVE  CoreInv'
  <1>1. TypeOK'
    BY AcceptedType DEF CoreInv, TypeOK, BlInv, States
  <1> QED
    BY <1>1, AcceptedType, NoTransfer DEF Transferring

LEMMA DnloadRequestInv ==
  ASSUME CoreInv, NEW num \in BlockNums, NEW len \in Lens, NEW req \in Requests,
         DnloadRequest(num, len, req)
  PROVE  CoreInv'
  <1>1. /\ alt = 0 /\ TransferStarts(num, len) /\ flashIdle /\ UNCHANGED <<hdr, blk>>
        /\ rhStatus' \in Statuses /\ infoPending' \in BOOLEAN /\ pc = "ready"
    BY DEF DnloadRequest, TransferStarts, FromHost, Statuses
  <1>2. CASE UNCHANGED <<shadow, pc, next>>
    <2>1. blIdle
      BY <1>1, <1>2 DEF flashIdle, blIdle, blVars
    <2> QED
      BY <1>1, <2>1, ReadyBl, BlIdleStep, QfmStep DEF blIdle, blVars, Pending
  <1>3. CASE Writeback([shadow EXCEPT !.cons = [p \in Partitions |-> FALSE]], "load")
    <2>1. PICK s : s = [shadow EXCEPT !.cons = [p \in Partitions |-> FALSE]]
      OBVIOUS
    <2>2. s \in BlRecord /\ Safe(s)
      BY <1>1, <2>1, ReadyBl, ClearedRecord DEF Safe
    <2>3. Writeback(s, "load")
      BY <1>3, <2>1
    <2>4. BlInv' /\ ~Pending'
      BY <1>1, <2>2, <2>3, ReadyBl, WritebackStarts DEF flashIdle, Writeback, Pending
    <2> QED
      BY <1>1, <2>4, QfmStep
  <1> QED
    BY <1>2, <1>3 DEF DnloadRequest

LEMMA DnloadKeyInv ==
  ASSUME CoreInv, NEW num \in BlockNums, NEW len \in Lens, NEW which \in KeyKinds,
         NEW new \in Keys, NEW genuine \in BOOLEAN,
         DnloadKey(num, len, which, new, genuine)
  PROVE  CoreInv'
  <1>1. /\ alt = 0 /\ TransferStarts(num, len) /\ flashIdle /\ UNCHANGED <<hdr, blk>>
        /\ rhStatus' \in Statuses /\ infoPending' \in BOOLEAN /\ pc = "ready"
    BY DEF DnloadKey, TransferStarts, FromHost, Statuses
  <1>2. CASE UNCHANGED <<shadow, pc, next>>
    <2>1. blIdle
      BY <1>1, <1>2 DEF flashIdle, blIdle, blVars
    <2> QED
      BY <1>1, <2>1, ReadyBl, BlIdleStep, QfmStep DEF blIdle, blVars, Pending
  <1>3. CASE Writeback(WithKey(which, new), "return")
    <2>1. PICK s : s = WithKey(which, new)
      OBVIOUS
    <2>2. s \in BlRecord /\ s.cons = shadow.cons /\ s.ver = shadow.ver
      BY <1>1, <2>1, ReadyBl DEF WithKey, BlRecord
    <2>3. Safe(s)
      BY <1>1, <2>2, ReadyBl DEF Safe
    <2>4. BlInv' /\ ~Pending'
      BY <1>1, <1>3, <2>1, <2>2, <2>3, ReadyBl, WritebackStarts
      DEF flashIdle, Writeback, Pending
    <2> QED
      BY <1>1, <2>4, QfmStep
  <1> QED
    BY <1>2, <1>3 DEF DnloadKey

LEMMA DnloadExtraInv ==
  ASSUME CoreInv, NEW num \in BlockNums, NEW len \in Lens, DnloadExtra(num, len)
  PROVE  CoreInv'
  <1>1. /\ alt = 0 /\ TransferGoesOn(num, len) /\ blIdle /\ UNCHANGED <<hdr, blk>>
        /\ rhStatus' \in Statuses /\ infoPending' \in BOOLEAN /\ pc = "ready"
    BY DEF DnloadExtra, TransferGoesOn, FromHost, Statuses
  <1> QED
    BY <1>1, ReadyBl, BlIdleStep, QfmStep DEF blIdle, blVars, Pending

LEMMA DnloadInv == CoreInv /\ FirstBlockNums \subseteq {0} /\ Dnload => CoreInv'
  <1> SUFFICES ASSUME CoreInv, FirstBlockNums \subseteq {0}, Dnload PROVE CoreInv'
    OBVIOUS
  <1>1. ASSUME NEW num \in BlockNums, NEW len \in Lens, DnloadRefused(num, len)
        PROVE  CoreInv'
    BY <1>1, RefuseInv DEF DnloadRefused, FromHost, Statuses
  <1> QED
    BY <1>1, DnloadEndsInv, DnloadExtraInv, DnloadHeaderInv, DnloadDataInv,
       DnloadRequestInv, DnloadKeyInv
    DEF Dnload

\* A request that leaves BL-Data alone or sanitizes, and leaves no transfer.
LEMMA OtherRequest ==
  ASSUME CoreInv, pc = "ready", blIdle \/ (Sanitize /\ flashIdle),
         dfuState' \in States, dfuStatus' \in Statuses, alt' \in 0 .. NumParts,
         blockCnt' \in Nat, nextBlockNum' \in BlockNums, UNCHANGED <<hdr, blk>>,
         rhStatus' \in Statuses, infoPending' \in BOOLEAN,
         dfuState' \notin {"DNLOAD_SYNC", "DNLOAD_IDLE"}
  PROVE  CoreInv'
  <1>1. BlInv' /\ ~Pending'
    BY ReadyBl, BlIdleStep, SanitizeBl DEF blIdle, blVars, Pending
  <1>2. TypeOK'
    BY <1>1 DEF CoreInv, TypeOK, BlInv
  <1> QED
    BY <1>1, <1>2, NoTransfer DEF Transferring

LEMMA UploadInv ==
  ASSUME CoreInv, NEW num \in BlockNums, NEW reqLen \in ReqLens,
         Upload(num, reqLen)
  PROVE  CoreInv'
  <1>1. /\ dfuState' \in {"IDLE", "UPLOAD_IDLE"} /\ blockCnt' = 1
        /\ nextBlockNum' \in BlockNums /\ infoPending' \in BOOLEAN
        /\ pc = "ready" /\ blIdle /\ UNCHANGED <<dfuStatus, alt, hdr, rhStatus, blk>>
    BY NextNumType DEF Upload, FromHost, CoreInv, TypeOK
  <1> QED
    BY <1>1, OtherRequest DEF CoreInv, TypeOK, States

LEMMA GetStatusInv == CoreInv /\ GetStatus => CoreInv'
  <1> SUFFICES ASSUME CoreInv, GetStatus PROVE CoreInv'
    OBVIOUS
  <1>1. /\ pc = "ready" /\ blIdle /\ dfuState \in {"DNLOAD_SYNC", "MANIFEST_SYNC"}
        /\ dfuStatus' = rhStatus
        /\ dfuState' = IF rhStatus # "OK" THEN "ERROR"
                       ELSE IF dfuState = "DNLOAD_SYNC" THEN "DNLOAD_IDLE"
                       ELSE "IDLE"
        /\ UNCHANGED <<alt, blockCnt, nextBlockNum, hdr, rhStatus, infoPending, blk>>
    BY DEF GetStatus, FromHost
  <1>2. CASE dfuState' \in {"ERROR", "IDLE"}
    BY <1>1, <1>2, OtherRequest DEF CoreInv, TypeOK, States
  <1>3. CASE dfuState' = "DNLOAD_IDLE"
    <2>1. BlInv' /\ ~Pending' /\ UNCHANGED <<code, shadow, pc>> /\ ~Pending
      BY <1>1, ReadyBl, BlIdleStep DEF blIdle, blVars, Pending
    <2>2. TypeOK'
      BY <1>1, <1>3, <2>1 DEF CoreInv, TypeOK, BlInv, States
    <2>3. rhStatus' = "OK" /\ (Transferring' => Transferring)
      BY <1>1, <1>3 DEF Transferring
    <2>4. TransferInv'
      BY <1>1, <1>3, <2>1, <2>3 DEF CoreInv, TransferInv
    <2> QED
      BY <2>1, <2>2, <2>4 DEF CoreInv, BlInv
  <1> QED
    BY <1>1, <1>2, <1>3

LEMMA ClrStatusInv == CoreInv /\ ClrStatus => CoreInv'
  <1> SUFFICES ASSUME CoreInv, ClrStatus PROVE CoreInv'
    OBVIOUS
  <1>1. CASE Refuse("STALLEDPKT")
    BY <1>1, RefuseInv DEF ClrStatus, FromHost, Statuses
  <1>2. CASE ~Refuse("STALLEDPKT")
    BY <1>2, OtherRequest
    DEF ClrStatus, FromHost, CoreInv, TypeOK, States, Statuses
  <1> QED
    BY <1>1, <1>2

LEMMA AbortInv == CoreInv /\ Abort => CoreInv'
  <1> SUFFICES ASSUME CoreInv, Abort PROVE CoreInv'
    OBVIOUS
  <1>1. CASE Refuse("STALLEDPKT")
    BY <1>1, RefuseInv DEF Abort, FromHost, Statuses
  <1>2. CASE ~Refuse("STALLEDPKT")
    BY <1>2, OtherRequest DEF Abort, FromHost, CoreInv, TypeOK, States
  <1> QED
    BY <1>1, <1>2

LEMMA SetAltInv ==
  ASSUME CoreInv, NEW a \in 0 .. NumParts, SetAlt(a)
  PROVE  CoreInv'
  BY OtherRequest DEF SetAlt, FromHost, CoreInv, TypeOK, States, Statuses

LEMMA RequestInv == CoreInv /\ FirstBlockNums \subseteq {0} /\ Request => CoreInv'
  <1> SUFFICES ASSUME CoreInv, FirstBlockNums \subseteq {0}, Request PROVE CoreInv'
    OBVIOUS
  <1>1. ASSUME NEW num \in BlockNums, UploadRefused(num)
        PROVE  CoreInv'
    BY <1>1, RefuseInv DEF UploadRefused, FromHost, Statuses
  <1> QED
    BY <1>1, DnloadInv, UploadInv, GetStatusInv, ClrStatusInv, AbortInv, SetAltInv
    DEF Request

LEMMA StutterInv == CoreInv /\ UNCHANGED vars => CoreInv'
  <1> SUFFICES ASSUME CoreInv, UNCHANGED vars PROVE CoreInv'
    OBVIOUS
  <1>1. BlInv'
    BY BlIdleStep DEF vars, blIdle, blVars, CoreInv, TypeOK, BlInv
  <1>2. TypeOK'
    BY <1>1 DEF vars, CoreInv, TypeOK, BlInv
  <1>3. (Pending' <=> Pending) /\ (Transferring' <=> Transferring)
    BY DEF vars, Pending, Transferring
  <1>4. TransferInv'
    BY <1>3 DEF vars, CoreInv, TransferInv
  <1> QED
    BY <1>1, <1>2, <1>4 DEF CoreInv, BlInv

LEMMA IndNext ==
  ASSUME FirstBlockNums \subseteq {0}
  PROVE  CoreInv /\ [Next]_vars => CoreInv'
  BY BootStepInv, FlashStepInv, WriteBlockInv, EnterFmInv, RequestInv,
     PowerLossInv, StutterInv
  DEF Next

----------------------------------------------------------------------------
(* Theorems.                                                               *)

\* Every reachable state of the bootloader satisfies the inductive invariant:
\* BL-Data copies, the metadata's promises and the open transfer's progress
\* agree at every flash write of bl_data.c, qfu.c and qfm.c, and after a power
\* loss at any of them, when the host numbers the blocks from zero.
LEMMA CoreInvariance ==
  ASSUME FirstBlockNums \subseteq {0}
  PROVE  Spec => []CoreInv
  <1>1. Init => CoreInv
    BY IndInit
  <1>2. CoreInv /\ [Next]_vars => CoreInv'
    BY IndNext
  <1> QED
    BY <1>1, <1>2, PTL DEF Spec

\* Every variable of the bootloader and of DFU core keeps its type; in
\* particular the BL-Data that is written is never Blank or Torn.
THEOREM TypeCorrect ==
  ASSUME FirstBlockNums \subseteq {0}
  PROVE  Spec => []TypeOK
  <1>1. CoreInv => TypeOK
    BY DEF CoreInv
  <1> QED
    BY <1>1, CoreInvariance, PTL

\* The copy of BL-Data bl_data_sanitize will go by never calls a partition
\* consistent that holds part of an image, or blocks of two: wherever power is
\* lost during a QFU transfer or an application erase.
THEOREM UpdatesAreAtomic ==
  ASSUME FirstBlockNums \subseteq {0}
  PROVE  Spec => []WholeOrInconsistent
  <1>1. CoreInv => WholeOrInconsistent
    BY DEF CoreInv, SafeInv, Safe, WholeOrInconsistent
  <1> QED
    BY <1>1, CoreInvariance, PTL

\* When FM mode waits for a request, or the application runs, the two copies
\* of BL-Data in flash are equal, and equal to bl_data_shadow in FM mode.
THEOREM CopiesInAgreement ==
  ASSUME FirstBlockNums \subseteq {0}
  PROVE  Spec => []CopiesAgree
  <1>1. CoreInv => CopiesAgree
    BY DEF CoreInv, CopyInv, CopiesAgree
  <1> QED
    BY <1>1, CoreInvariance, PTL

\* The flash writes of the steps that are not a power loss spare one copy.
LEMMA FlashStepRecoverable == CoreInv /\ FlashStep /\ Recoverable => Recoverable'
  <1> SUFFICES ASSUME CoreInv, FlashStep, Recoverable PROVE Recoverable'
    OBVIOUS
  <1>1. \A r \in BlRecord : Valid(r)
    BY CopyAssumption DEF Valid
  <1>2. CASE FixMain \/ FixBck
    BY <1>2 DEF FixMain, FixBck, CoreInv, CopyInv, Recoverable, Valid
  <1>3. CASE WritebackMain \/ WritebackBck
    <2>1. shadow \in BlRecord
      BY DEF CoreInv, TypeOK, BlTypeOK
    <2> QED
      BY <1>1, <1>3, <2>1
      DEF WritebackMain, WritebackBck, CoreInv, CopyInv, Recoverable, Valid
  <1>4. CASE EraseDone \/ \E p \in Partitions, k \in Pages : ErasePage(p, k)
    BY <1>4 DEF EraseDone, ErasePage, flash, Recoverable, Valid
  <1> QED
    BY <1>2, <1>3, <1>4 DEF FlashStep

LEMMA PowerLossRecoverable == CoreInv /\ PowerLoss /\ Recoverable => Recoverable'
  <1> SUFFICES ASSUME CoreInv, PowerLoss, Recoverable PROVE Recoverable'
    OBVIOUS
  <1>1. \E page : LosePower(page)
    BY DEF PowerLoss
  <1>2. /\ main' = main \/ pc \in {"fixMain", "wbMain"}
        /\ bck' = bck \/ pc \in {"fixBck", "wbBck"}
    BY <1>1 DEF LosePower
  <1>3. CASE pc \in {"fixMain", "wbMain"}
    <2>1. Valid(bck) /\ bck' = bck
      BY <1>2, <1>3 DEF CoreInv, CopyInv, Recoverable
    <2> QED
      BY <2>1 DEF Recoverable, Valid
  <1>4. CASE pc \in {"fixBck", "wbBck"}
    <2>1. Valid(main) /\ main' = main
      BY <1>2, <1>4 DEF CoreInv, CopyInv
    <2> QED
      BY <2>1 DEF Recoverable, Valid
  <1> QED
    BY <1>2, <1>3, <1>4 DEF Recoverable, Valid

\* The flash writes of a request's handler are steps of their own.
LEMMA RequestFlash == Request => UNCHANGED <<main, bck, code>>
  <1> USE DEF Refuse, flashIdle, blIdle, blVars
  <1>1. ASSUME NEW num \in BlockNums, NEW len \in Lens
        PROVE  /\ DnloadRefused(num, len) => UNCHANGED <<main, bck, code>>
               /\ DnloadEnds(num) => UNCHANGED <<main, bck, code>>
               /\ DnloadExtra(num, len) => UNCHANGED <<main, bck, code>>
    BY DEF DnloadRefused, DnloadEnds, DnloadExtra
  <1>2. ASSUME NEW num \in BlockNums, NEW len \in Lens, NEW i \in Images,
               NEW p \in Partitions, NEW form \in Forms,
               DnloadHeader(num, len, i, p, form)
        PROVE  UNCHANGED <<main, bck, code>>
    BY <1>2 DEF DnloadHeader
  <1>3. ASSUME NEW num \in BlockNums, NEW len \in Lens,
               NEW d \in Images \cup {Corrupt}, DnloadData(num, len, d)
        PROVE  UNCHANGED <<main, bck, code>>
    BY <1>3 DEF DnloadData
  <1>4. ASSUME NEW num \in BlockNums, NEW len \in Lens, NEW req \in Requests,
               DnloadRequest(num, len, req)
        PROVE  UNCHANGED <<main, bck, code>>
    BY <1>4 DEF DnloadRequest
  <1>5. ASSUME NEW num \in BlockNums, NEW len \in Lens, NEW which \in KeyKinds,
               NEW new \in Keys, NEW genuine \in BOOLEAN,
               DnloadKey(num, len, which, new, genuine)
        PROVE  UNCHANGED <<main, bck, code>>
    BY <1>5 DEF DnloadKey
  <1>6. Dnload => UNCHANGED <<main, bck, code>>
    BY <1>1, <1>2, <1>3, <1>4, <1>5 DEF Dnload
  <1>7. CASE Request /\ ~Dnload
    BY <1>7 DEF Request, Upload, UploadRefused, GetStatus, ClrStatus, Abort, SetAlt
  <1> QED
    BY <1>6, <1>7

LEMMA NextRecoverable == CoreInv /\ [Next]_vars /\ Recoverable => Recoverable'
  <1> SUFFICES ASSUME CoreInv, [Next]_vars, Recoverable PROVE Recoverable'
    OBVIOUS
  <1>1. CASE BootStep \/ WriteBlock \/ EnterFm \/ Request \/ UNCHANGED vars
    <2>1. UNCHANGED <<main, bck>>
      BY <1>1, RequestFlash
      DEF BootStep, Boot, StartApp, flash, WriteBlock, EnterFm, vars
    <2> QED
      BY <2>1 DEF Recoverable, Valid
  <1> QED
    BY <1>1, FlashStepRecoverable, PowerLossRecoverable DEF Next

\* Once one copy of BL-Data is valid, one is valid for ever: the writes of
\* bl_data_shadow_writeback and of the two repairs in bl_data_sanitize always
\* spare a good copy, so that no power loss leads to bl_loop_if_not_blank.
THEOREM NeverBricked ==
  ASSUME FirstBlockNums \subseteq {0}
  PROVE  Spec => StaysRecoverable
  <1>1. CoreInv /\ [Next]_vars => [Recoverable => Recoverable']_vars
    BY NextRecoverable
  <1> QED
    BY <1>1, CoreInvariance, PTL DEF Spec, StaysRecoverable

----------------------------------------------------------------------------
(* The rest of the inductive invariant: what a writeback may make of       *)
(* BL-Data, what the header was checked against, and where marks may be.   *)

MoreInv == WritebackInv /\ HeaderInv /\ LeftoverInv

LEMMA MoreInit == Init => MoreInv
  BY DEF Init, BlInit, MoreInv, WritebackInv, HeaderInv, Transferring, LeftoverInv

\* Whether r may follow depends on the flash only, which a writeback that
\* starts leaves alone.
LEMMA SucceedsSame ==
  ASSUME NEW r, Succeeds(r), UNCHANGED <<main, code>>, shadow' = r
  PROVE  WritebackInv'
  BY DEF WritebackInv, Succeeds, Marks, Discards, Installs, Provisions, KeepsSvn,
         Valid, Erased

LEMMA NotWriting == pc' # "wbMain" => WritebackInv'
  BY DEF WritebackInv

LEMMA NotTransferring == ~Transferring' => HeaderInv'
  BY DEF HeaderInv

\* Version numbers can be compared.
LEMMA SvnType ==
  ASSUME NEW r \in BlRecord
  PROVE  \A t \in Targets : r.svn[t] \in Nat
  BY ImageAssumption DEF BlRecord

LEMMA BootStepMore == CoreInv /\ MoreInv /\ BootStep => MoreInv'
  <1> SUFFICES ASSUME CoreInv, MoreInv, BootStep PROVE MoreInv'
    OBVIOUS
  <1>1. /\ pc \in {"off", "entry"} /\ UNCHANGED <<main, bck, code, fm>>
        /\ UNCHANGED dfuVars
    BY DEF BootStep, Boot, StartApp, flash
  <1>2. alt = 0 /\ alt' = 0
    BY <1>1 DEF MoreInv, LeftoverInv, dfuVars
  <1>3. WritebackInv'
    <2>1. CASE StartApp
      BY <2>1, NotWriting DEF StartApp
    <2>2. CASE Boot /\ ~Provision
      BY <2>2, NotWriting DEF Boot, Sanitize, Halt, Fix, Load, Return
    <2>3. CASE Boot /\ Provision
      <3> DEFINE r == [AllConsistent(ZeroData) EXCEPT !.active = DefaultActive]
      <3>1. \A p \in Partitions : r.cons[p] /\ r.ver[p] = Factory
        BY ProvisionedRecord
      <3>2. shadow' = r /\ pc' = "wbMain"
        BY <2>3 DEF Boot, Provision, Writeback, CoreInv, CopyInv
      <3>3. ~Valid(main)
        BY <2>3, <3>2 DEF Boot, Sanitize, Fix, Load, Return
      <3> HIDE DEF r
      <3>4. Succeeds(r)
        BY <3>1, <3>3 DEF Succeeds, Provisions
      <3> QED
        BY <1>1, <3>2, <3>4, SucceedsSame
    <2> QED
      BY <2>1, <2>2, <2>3 DEF BootStep
  <1>4. pc' = "ready" => fm'
    BY <1>1 DEF BootStep, Boot, StartApp, Sanitize, Provision, Writeback, Halt,
                Fix, Load, Return
  <1> QED
    BY <1>2, <1>3, <1>4 DEF MoreInv, HeaderInv, Transferring, LeftoverInv

\* A reload of the RAM copy that changes nothing of it.
LEMMA Reloaded ==
  ASSUME Load(shadow), fm' = fm
  PROVE  /\ shadow' = shadow /\ (pc' = "ready" => fm')
         /\ fm => pc' \in {"erase", "ready"}
         /\ pc' = "ready" => \A p \in Partitions : shadow.cons[p]
  BY DEF Load, Return

LEMMA FlashStepMore == CoreInv /\ MoreInv /\ FlashStep => MoreInv'
  <1> SUFFICES ASSUME CoreInv, MoreInv, FlashStep PROVE MoreInv'
    OBVIOUS
  <1>1. UNCHANGED dfuVars
    BY DEF FlashStep
  <1>2. CASE FixMain \/ FixBck
    <2>1. pc' # "wbMain" /\ (pc' = "ready" => fm') /\ pc \in {"fixMain", "fixBck"}
      BY <1>2 DEF FixMain, FixBck, Load, Return
    <2>2. alt' = 0
      BY <1>1, <2>1 DEF MoreInv, LeftoverInv, dfuVars
    <2> QED
      BY <2>1, <2>2, NotWriting DEF MoreInv, HeaderInv, Transferring, LeftoverInv
  <1>3. CASE EraseDone
    <2> DEFINE r == AllConsistent(shadow)
    <2>1. /\ pc = "erase" /\ shadow' = r /\ pc' = "wbMain"
          /\ UNCHANGED <<main, code, fm>>
          /\ \A p \in Partitions : shadow.cons[p] \/ Erased(p)
      BY <1>3 DEF EraseDone, Writeback, flash
    <2>2. Valid(main) /\ shadow = main /\ shadow \in BlRecord
      BY <2>1 DEF CoreInv, CopyInv, TypeOK, BlTypeOK
    <2>3. /\ r.ver = main.ver /\ r.svn = main.svn
          /\ \A p \in Partitions : r.cons[p]
      BY <2>2 DEF AllConsistent, BlRecord
    <2> HIDE DEF r
    <2>4. Succeeds(r)
      BY <2>1, <2>2, <2>3, SvnType DEF Succeeds, Discards, KeepsSvn
    <2>5. WritebackInv'
      BY <2>1, <2>4, SucceedsSame
    <2>6. ~Transferring'
      BY <1>1, <2>1 DEF CoreInv, TransferInv, Transferring, Pending, dfuVars
    <2> QED
      BY <1>1, <2>1, <2>3, <2>5, <2>6, NotTransferring
      DEF MoreInv, LeftoverInv, dfuVars
  <1>4. CASE \E p \in Partitions, k \in Pages : ErasePage(p, k)
    <2>1. pc = "erase" /\ UNCHANGED <<shadow, pc, fm>>
      BY <1>4 DEF ErasePage
    <2> QED
      BY <1>1, <2>1, NotWriting
      DEF MoreInv, HeaderInv, Transferring, LeftoverInv, dfuVars
  <1>5. CASE WritebackMain
    <2>1. pc = "wbMain" /\ pc' = "wbBck" /\ UNCHANGED <<shadow, fm>>
      BY <1>5 DEF WritebackMain
    <2> QED
      BY <1>1, <2>1, NotWriting
      DEF MoreInv, HeaderInv, Transferring, LeftoverInv, dfuVars
  <1>6. CASE WritebackBck
    <2>1. pc = "wbBck" /\ main = shadow /\ fm' = fm
      BY <1>6 DEF WritebackBck, CoreInv, CopyInv
    <2>2. \/ Load(shadow)
          \/ shadow' = shadow /\ pc' = "block"
          \/ shadow' = shadow /\ pc' = Return
      BY <1>6, <2>1 DEF WritebackBck
    <2>3. shadow' = shadow /\ pc' # "wbMain"
      BY <2>2 DEF Load, Return
    <2>4. HeaderInv'
      BY <1>1, <2>3 DEF MoreInv, HeaderInv, Transferring, dfuVars
    <2>5. (pc' = "ready" => fm') /\ (fm => pc' \in {"ready", "erase", "block"})
      BY <2>1, <2>2 DEF Load, Return
    <2>6. LeftoverInv'
      BY <1>1, <2>1, <2>3, <2>5 DEF MoreInv, LeftoverInv, dfuVars
    <2> QED
      BY <2>3, <2>4, <2>6, NotWriting DEF MoreInv
  <1> QED
    BY <1>2, <1>3, <1>4, <1>5, <1>6 DEF FlashStep

LEMMA WriteBlockMore == CoreInv /\ MoreInv /\ WriteBlock => MoreInv'
  <1> SUFFICES ASSUME CoreInv, MoreInv, WriteBlock PROVE MoreInv'
    OBVIOUS
  <1>1. /\ pc = "block" /\ pc' = "ready"
        /\ UNCHANGED <<shadow, fm, dfuState, alt, hdr>>
    BY DEF WriteBlock
  <1>2. Transferring /\ alt # 0
    BY <1>1, PendingBlock DEF Transferring
  <1> QED
    BY <1>1, <1>2, NotWriting DEF MoreInv, HeaderInv, LeftoverInv

LEMMA ResetMore ==
  ASSUME ResetDfu, pc' = "off" \/ (pc' = "ready" /\ fm')
  PROVE  MoreInv'
  BY DEF ResetDfu, MoreInv, WritebackInv, HeaderInv, Transferring, LeftoverInv

LEMMA PowerLossMore == PowerLoss => MoreInv'
  BY ResetMore DEF PowerLoss, LosePower

LEMMA EnterFmMore == EnterFm => MoreInv'
  BY ResetMore DEF EnterFm

\* A request that leaves BL-Data alone.  It may open a transfer, keep one, or
\* fail; it may not close one with the partition marked.
LEMMA IdleMore ==
  ASSUME MoreInv, pc = "ready", blIdle, alt' = alt, HeaderInv',
         dfuState' = dfuState
           \/ dfuState' \in {"DNLOAD_SYNC", "DNLOAD_IDLE", "ERROR"}
           \/ dfuState \notin {"DNLOAD_SYNC", "DNLOAD_IDLE", "ERROR"}
  PROVE  MoreInv'
  <1>1. UNCHANGED <<shadow, pc, fm>>
    BY DEF blIdle, blVars
  <1> QED
    BY <1>1, NotWriting DEF MoreInv, LeftoverInv

\* A request that goes to, or stays at, the alternate setting of QFM.
LEMMA QfmIdleMore ==
  ASSUME MoreInv, pc = "ready", UNCHANGED <<pc, fm>>, alt' = 0
  PROVE  MoreInv'
  BY DEF MoreInv, WritebackInv, HeaderInv, Transferring, LeftoverInv

\* A request that sanitizes: what is still marked is erased next.
LEMMA SanitizeMore ==
  ASSUME CoreInv, MoreInv, pc = "ready", Sanitize, flashIdle, ~Transferring'
  PROVE  MoreInv'
  <1>1. Load(shadow) /\ fm' = fm /\ fm
    BY ReadyBl, SanitizeInFm DEF CoreInv, flashIdle, MoreInv, LeftoverInv
  <1>2. /\ shadow' = shadow /\ pc' \in {"erase", "ready"} /\ fm'
        /\ pc' = "ready" => \A p \in Partitions : shadow.cons[p]
    BY <1>1, Reloaded
  <1> QED
    BY <1>2, NotWriting, NotTransferring DEF MoreInv, LeftoverInv

LEMMA RefuseMore ==
  ASSUME MoreInv, pc = "ready", NEW s, Refuse(s)
  PROVE  MoreInv'
  <1>1. HeaderInv'
    BY DEF Refuse, SetErr, HeaderInv, Transferring
  <1> QED
    BY <1>1, IdleMore DEF Refuse, SetErr

LEMMA DnloadHeaderMore ==
  ASSUME MoreInv, NEW num \in BlockNums, NEW len \in Lens, NEW i \in Images,
         NEW p \in Partitions, NEW form \in Forms,
         DnloadHeader(num, len, i, p, form)
  PROVE  MoreInv'
  <1>1. /\ pc = "ready" /\ dfuState' = "DNLOAD_SYNC" /\ alt' = alt /\ alt # 0
        /\ blIdle /\ rhStatus' = HeaderStatus(i, p, form, len)
        /\ hdr' = IF len # "full" THEN hdr ELSE IF form = "ok" THEN i ELSE NoHeader
    BY DEF DnloadHeader, TransferStarts, FromHost
  <1>2. HeaderInv'
    <2>1. CASE rhStatus' = "OK"
      <3>1. len = "full" /\ form = "ok" /\ Authentic(i)
        BY <1>1, <2>1 DEF HeaderStatus, Forms
      <3> QED
        BY <1>1, <3>1 DEF Authentic, HeaderInv, blIdle, blVars
    <2>2. CASE rhStatus' # "OK"
      BY <2>2 DEF HeaderInv, Transferring
    <2> QED
      BY <2>1, <2>2
  <1> QED
    BY <1>1, <1>2, IdleMore

\* What marking the partition, or going on with the next block, leaves.
LEMMA DnloadDataMore ==
  ASSUME CoreInv, MoreInv, NEW num \in BlockNums, NEW len \in Lens,
         NEW d \in Images \cup {Corrupt}, DnloadData(num, len, d)
  PROVE  MoreInv'
  <1>1. /\ pc = "ready" /\ dfuState = "DNLOAD_IDLE" /\ dfuState' = "DNLOAD_SYNC"
        /\ alt' = alt /\ hdr' = hdr /\ alt # 0 /\ alt \in Partitions
    BY PartitionAssumption
    DEF DnloadData, TransferGoesOn, FromHost, CoreInv, TypeOK
  <1>2. CASE rhStatus' = "ADDRESS" /\ blIdle
    <2>1. HeaderInv'
      BY <1>2 DEF HeaderInv, Transferring
    <2> QED
      BY <1>1, <1>2, <2>1, IdleMore
  <1>3. CASE rhStatus' = "FILE" /\ Sanitize /\ flashIdle
    BY <1>1, <1>3, SanitizeMore DEF Transferring
  <1>4. CASE /\ rhStatus' = rhStatus /\ flashIdle
             /\ Writeback([shadow EXCEPT !.cons[alt] = FALSE], "block")
    <2>1. PICK s : s = [shadow EXCEPT !.cons[alt] = FALSE]
      OBVIOUS
    <2>2. /\ shadow' = s /\ pc' = "wbMain"
          /\ UNCHANGED <<main, code, fm>>
      BY <1>4, <2>1 DEF Writeback, flashIdle
    <2>3. /\ shadow = main /\ Valid(main) /\ shadow \in BlRecord
      BY <1>1, ReadyBl
    <2>4. /\ s.ver = main.ver /\ s.svn = main.svn
          /\ s.cons = [main.cons EXCEPT ![alt] = FALSE]
          /\ \A p \in Partitions : s.cons[p] => main.cons[p]
          /\ \A p \in Partitions : p # alt => s.cons[p] = main.cons[p]
      BY <1>1, <2>1, <2>3 DEF BlRecord
    <2>5. Succeeds(s)
      BY <2>3, <2>4, SvnType DEF Succeeds, Marks, KeepsSvn
    <2>6. HeaderInv'
      BY <1>1, <1>4, <2>2, <2>3, <2>4 DEF MoreInv, HeaderInv, Transferring
    <2>7. LeftoverInv'
      BY <1>1, <2>2, <2>3, <2>4 DEF MoreInv, LeftoverInv
    <2> QED
      BY <2>2, <2>5, <2>6, <2>7, SucceedsSame DEF MoreInv
  <1>5. CASE /\ rhStatus' = rhStatus /\ flashIdle
             /\ pc' = "block" /\ UNCHANGED <<shadow, next>>
    <2>1. HeaderInv'
      BY <1>1, <1>5 DEF MoreInv, HeaderInv, Transferring
    <2>2. LeftoverInv'
      BY <1>1, <1>5 DEF MoreInv, LeftoverInv, flashIdle
    <2> QED
      BY <1>5, <2>1, <2>2, NotWriting DEF MoreInv
  <1> QED
    BY <1>2, <1>3, <1>4, <1>5 DEF DnloadData, blIdle, blVars, flashIdle

\* The image that is installed was announced by a header with a version
\* number that is high enough, and its partition holds it.
LEMMA DnloadEndsMore ==
  ASSUME CoreInv, MoreInv, NEW num \in BlockNums, DnloadEnds(num)
  PROVE  MoreInv'
  <1>1. /\ pc = "ready" /\ dfuState = "DNLOAD_IDLE" /\ num = nextBlockNum
        /\ dfuState' \in {"MANIFEST_SYNC", "ERROR"}
        /\ alt' = alt /\ rhStatus' = rhStatus /\ hdr' = hdr
    BY DEF DnloadEnds, FromHost, SetErr
  <1>2. ~Transferring'
    BY <1>1 DEF Transferring
  <1>3. CASE alt = 0 /\ blIdle
    BY <1>1, <1>3, QfmIdleMore DEF blIdle, blVars
  <1>4. CASE Sanitize /\ flashIdle
    BY <1>1, <1>2, <1>4, SanitizeMore
  <1>5. CASE alt # 0 /\ AllReceived(num) /\ InstallImage /\ flashIdle
    <2>1. /\ Transferring /\ ~Pending /\ alt \in Partitions
          /\ shadow = main /\ Valid(main) /\ main \in BlRecord
      BY <1>1, <1>5, ReadyBl, PartitionAssumption
      DEF CoreInv, TypeOK, TransferInv, Transferring
    <2>2. /\ hdr \in Images /\ Size[hdr] \in Nat \ {0} /\ Size[hdr] <= NumPages
          /\ blockCnt = Size[hdr] + 1
          /\ \A k \in Pages : k < blockCnt => code[alt][k] = hdr
          /\ ~main.cons[alt]
      BY <1>1, <1>5, <2>1, ImageAssumption
      DEF CoreInv, TransferInv, AllReceived
    <2>3. ~Erased(alt)
      <3>1. 1 \in Pages /\ 1 < blockCnt
        BY <2>2, PartitionAssumption
      <3>2. code[alt][1] # Blank
        BY <2>2, <3>1, PageAssumption
      <3> QED
        BY <3>1, <3>2 DEF Erased
    <2>4. PICK s : s = [shadow EXCEPT !.cons[alt] = TRUE,
                          !.ver[alt] = hdr,
                          !.active[TargetOf[alt]] = alt,
                          !.svn[TargetOf[alt]] = IF Auth THEN Svn[hdr] ELSE @]
      OBVIOUS
    <2>5. /\ s.cons = [main.cons EXCEPT ![alt] = TRUE]
          /\ s.ver = [main.ver EXCEPT ![alt] = hdr]
          /\ s.svn = [main.svn EXCEPT ![TargetOf[alt]] = IF Auth THEN Svn[hdr] ELSE @]
      BY <2>1, <2>4 DEF BlRecord
    <2>6. KeepsSvn(s)
      <3>1. Auth => Svn[hdr] >= main.svn[TargetOf[alt]]
        BY <2>1 DEF MoreInv, HeaderInv
      <3>2. main.svn \in [Targets -> 0 .. SvnMax]
        BY <2>1 DEF BlRecord
      <3> QED
        BY <2>1, <2>5, <3>1, <3>2, SvnType DEF KeepsSvn
    <2>7. Succeeds(s)
      BY <2>1, <2>2, <2>3, <2>5, <2>6 DEF Succeeds, Installs
    <2>8. shadow' = s /\ pc' = "wbMain" /\ UNCHANGED <<main, code, fm>>
      BY <1>5, <2>4 DEF InstallImage, Writeback, flashIdle
    <2>9. \A p \in Partitions : s.cons[p]
      BY <1>1, <1>5, <2>1, <2>5 DEF MoreInv, LeftoverInv, BlRecord
    <2>10. LeftoverInv'
      BY <1>1, <1>5, <2>8, <2>9 DEF MoreInv, LeftoverInv
    <2> QED
      BY <1>2, <2>7, <2>8, <2>10, SucceedsSame, NotTransferring DEF MoreInv
  <1> QED
    BY <1>3, <1>4, <1>5 DEF DnloadEnds

\* A writeback a device management request starts.
LEMMA QfmWriteback ==
  ASSUME CoreInv, MoreInv, pc = "ready", alt' = 0, NEW r \in BlRecord,
         r.ver = shadow.ver, r.svn = shadow.svn,
         \A p \in Partitions : r.cons[p] => shadow.cons[p],
         NEW then, Writeback(r, then), flashIdle
  PROVE  MoreInv'
  <1>1. shadow = main /\ Valid(main) /\ main \in BlRecord
    BY ReadyBl
  <1>2. Succeeds(r)
    BY <1>1, SvnType DEF Succeeds, Marks, KeepsSvn
  <1>3. shadow' = r /\ pc' = "wbMain" /\ UNCHANGED <<main, code, fm>>
    BY DEF Writeback, flashIdle
  <1> QED
    BY <1>2, <1>3, SucceedsSame DEF MoreInv, HeaderInv, Transferring, LeftoverInv

LEMMA DnloadRequestMore ==
  ASSUME CoreInv, MoreInv, NEW num \in BlockNums, NEW len \in Lens,
         NEW req \in Requests, DnloadRequest(num, len, req)
  PROVE  MoreInv'
  <1>1. pc = "ready" /\ alt' = 0 /\ flashIdle
    BY DEF DnloadRequest, TransferStarts, FromHost
  <1>2. CASE UNCHANGED <<shadow, pc, next>>
    BY <1>1, <1>2, QfmIdleMore DEF flashIdle
  <1>3. CASE Writeback([shadow EXCEPT !.cons = [p \in Partitions |-> FALSE]], "load")
    <2>1. PICK s : s = [shadow EXCEPT !.cons = [p \in Partitions |-> FALSE]]
      OBVIOUS
    <2>2. /\ s \in BlRecord /\ s.ver = shadow.ver /\ s.svn = shadow.svn
          /\ \A p \in Partitions : ~s.cons[p]
      BY <1>1, <2>1, ReadyBl DEF BlRecord
    <2> QED
      BY <1>1, <1>3, <2>1, <2>2, QfmWriteback
  <1> QED
    BY <1>2, <1>3 DEF DnloadRequest

LEMMA DnloadKeyMore ==
  ASSUME CoreInv, MoreInv, NEW num \in BlockNums, NEW len \in Lens,
         NEW which \in KeyKinds, NEW new \in Keys, NEW genuine \in BOOLEAN,
         DnloadKey(num, len, which, new, genuine)
  PROVE  MoreInv'
  <1>1. pc = "ready" /\ alt' = 0 /\ flashIdle
    BY DEF DnloadKey, TransferStarts, FromHost
  <1>2. CASE UNCHANGED <<shadow, pc, next>>
    BY <1>1, <1>2, QfmIdleMore DEF flashIdle
  <1>3. CASE Writeback(WithKey(which, new), "return")
    <2>1. PICK s : s = WithKey(which, new)
      OBVIOUS
    <2>2. /\ s \in BlRecord /\ s.ver = shadow.ver /\ s.svn = shadow.svn
          /\ s.cons = shadow.cons
      BY <1>1, <2>1, ReadyBl DEF WithKey, BlRecord
    <2> QED
      BY <1>1, <1>3, <2>1, <2>2, QfmWriteback
  <1> QED
    BY <1>2, <1>3 DEF DnloadKey

LEMMA DnloadMore == CoreInv /\ MoreInv /\ Dnload => MoreInv'
  <1> SUFFICES ASSUME CoreInv, MoreInv, Dnload PROVE MoreInv'
    OBVIOUS
  <1>1. ASSUME NEW num \in BlockNums, NEW len \in Lens, DnloadRefused(num, len)
        PROVE  MoreInv'
    BY <1>1, RefuseMore DEF DnloadRefused, FromHost
  <1>2. ASSUME NEW num \in BlockNums, NEW len \in Lens, DnloadExtra(num, len)
        PROVE  MoreInv'
    BY <1>2, QfmIdleMore DEF DnloadExtra, TransferGoesOn, FromHost, blIdle, blVars
  <1> QED
    BY <1>1, <1>2, DnloadEndsMore, DnloadHeaderMore, DnloadDataMore,
       DnloadRequestMore, DnloadKeyMore
    DEF Dnload

LEMMA UploadMore ==
  ASSUME MoreInv, NEW num \in BlockNums, NEW reqLen \in ReqLens,
         Upload(num, reqLen)
  PROVE  MoreInv'
  <1>1. /\ dfuState' \in {"IDLE", "UPLOAD_IDLE"}
        /\ pc = "ready" /\ blIdle /\ alt' = alt
    BY DEF Upload, FromHost
  <1>2. dfuState \in {"IDLE", "UPLOAD_IDLE"}
    BY DEF Upload
  <1>3. HeaderInv'
    BY <1>1 DEF HeaderInv, Transferring
  <1> QED
    BY <1>1, <1>2, <1>3, IdleMore

\* GET_STATUS ends no transfer of the QFU handler while the partition is
\* marked: DNLOAD_SYNC goes to DNLOAD_IDLE or to ERROR.
LEMMA GetStatusMore == MoreInv /\ GetStatus => MoreInv'
  <1> SUFFICES ASSUME MoreInv, GetStatus PROVE MoreInv'
    OBVIOUS
  <1>1. /\ pc = "ready" /\ blIdle /\ alt' = alt /\ hdr' = hdr
        /\ rhStatus' = rhStatus /\ shadow' = shadow
        /\ dfuState' \in {"ERROR", "DNLOAD_IDLE", "IDLE"}
        /\ dfuState' = "IDLE" => dfuState = "MANIFEST_SYNC"
        /\ dfuState' = "DNLOAD_IDLE" => dfuState = "DNLOAD_SYNC"
    BY DEF GetStatus, FromHost, blIdle, blVars
  <1>2. HeaderInv'
    BY <1>1 DEF MoreInv, HeaderInv, Transferring
  <1> QED
    BY <1>1, <1>2, IdleMore

LEMMA RequestMore == CoreInv /\ MoreInv /\ Request => MoreInv'
  <1> SUFFICES ASSUME CoreInv, MoreInv, Request PROVE MoreInv'
    OBVIOUS
  <1>1. ASSUME NEW num \in BlockNums, UploadRefused(num)
        PROVE  MoreInv'
    BY <1>1, RefuseMore DEF UploadRefused, FromHost
  <1>2. CASE ClrStatus
    <2>1. CASE Refuse("STALLEDPKT")
      BY <1>2, <2>1, RefuseMore DEF ClrStatus, FromHost
    <2>2. CASE ~Refuse("STALLEDPKT")
      <3>1. /\ pc = "ready" /\ dfuState' = "IDLE" /\ alt' = alt
            /\ \/ alt = 0 /\ blIdle
               \/ Sanitize /\ flashIdle
        BY <1>2, <2>2 DEF ClrStatus, FromHost
      <3>2. CASE alt = 0 /\ blIdle
        BY <3>1, <3>2, QfmIdleMore DEF blIdle, blVars
      <3>3. CASE Sanitize /\ flashIdle
        BY <3>1, <3>3, SanitizeMore DEF Transferring
      <3> QED
        BY <3>1, <3>2, <3>3
    <2> QED
      BY <2>1, <2>2
  <1>3. CASE Abort
    <2>1. CASE Refuse("STALLEDPKT")
      BY <1>3, <2>1, RefuseMore DEF Abort, FromHost
    <2>2. CASE ~Refuse("STALLEDPKT")
      <3>1. /\ pc = "ready" /\ dfuState' = "IDLE" /\ alt' = alt
            /\ \/ Sanitize /\ flashIdle
               \/ alt = 0 /\ blIdle
               \/ dfuState = "UPLOAD_IDLE" /\ blIdle
        BY <1>3, <2>2 DEF Abort, FromHost
      <3>2. HeaderInv' /\ ~Transferring'
        BY <3>1 DEF HeaderInv, Transferring
      <3>3. CASE Sanitize /\ flashIdle
        BY <3>1, <3>2, <3>3, SanitizeMore
      <3>4. CASE alt = 0 /\ blIdle
        BY <3>1, <3>4, QfmIdleMore DEF blIdle, blVars
      <3>5. CASE dfuState = "UPLOAD_IDLE" /\ blIdle
        BY <3>1, <3>2, <3>5, IdleMore
      <3> QED
        BY <3>1, <3>3, <3>4, <3>5
    <2> QED
      BY <2>1, <2>2
  <1>4. ASSUME NEW a \in 0 .. NumParts, SetAlt(a)
        PROVE  MoreInv'
    <2>1. /\ pc = "ready" /\ dfuState' = "IDLE"
          /\ \/ alt' = 0 /\ blIdle
             \/ Sanitize /\ flashIdle
      BY <1>4 DEF SetAlt, FromHost
    <2>2. CASE alt' = 0 /\ blIdle
      BY <2>1, <2>2, QfmIdleMore DEF blIdle, blVars
    <2>3. CASE Sanitize /\ flashIdle
      BY <2>1, <2>3, SanitizeMore DEF Transferring
    <2> QED
      BY <2>1, <2>2, <2>3
  <1> QED
    BY <1>1, <1>2, <1>3, <1>4, DnloadMore, UploadMore, GetStatusMore DEF Request

LEMMA MoreNext == CoreInv /\ MoreInv /\ [Next]_vars => MoreInv'
  <1> SUFFICES ASSUME CoreInv, MoreInv, [Next]_vars PROVE MoreInv'
    OBVIOUS
  <1>1. CASE UNCHANGED vars
    BY <1>1 DEF vars, MoreInv, WritebackInv, Succeeds, Marks, Discards, Installs,
                Provisions, KeepsSvn, Valid, Erased, HeaderInv, Transferring,
                LeftoverInv
  <1> QED
    BY <1>1, BootStepMore, FlashStepMore, WriteBlockMore, EnterFmMore,
       RequestMore, PowerLossMore
    DEF Next

----------------------------------------------------------------------------
(* Theorems about versions, marks and slots.                               *)

\* Every reachable state of the bootloader satisfies the whole inductive
\* invariant: besides CoreInv, what bl_data_shadow_writeback is about to
\* write follows from what is in flash by one of the four changes the
\* handlers make, and marks are left by an open or failed transfer only.
THEOREM Invariance ==
  ASSUME FirstBlockNums \subseteq {0}
  PROVE  Spec => []IndInv
  <1>1. Init => CoreInv /\ MoreInv
    BY IndInit, MoreInit
  <1>2. CoreInv /\ MoreInv /\ [Next]_vars => (CoreInv /\ MoreInv)'
    BY IndNext, MoreNext
  <1>3. CoreInv /\ MoreInv => IndInv
    BY DEF IndInv, MoreInv
  <1> QED
    BY <1>1, <1>2, <1>3, PTL DEF Spec

\* Every way out of a failed transfer (CLRSTATUS, ABORT, another alternate
\* setting, an early end) has bl_data_sanitize erase what it wrote before the
\* next request is taken: with a partition selected and no transfer open,
\* none is marked.
THEOREM NothingLeftOver ==
  ASSUME FirstBlockNums \subseteq {0}
  PROVE  Spec => []NoLeftovers
  <1>1. IndInv => NoLeftovers
    BY DEF IndInv, LeftoverInv, NoLeftovers
  <1> QED
    BY <1>1, Invariance, PTL

\* The BL-Data a boot would go by changes only when Main is rewritten from the
\* shadow; the repairs and power losses keep it.
LEMMA EffectiveStep ==
  ASSUME CoreInv, Recoverable, [Next]_vars
  PROVE  \/ Effective' = Effective
         \/ WritebackMain /\ Valid(main) /\ Effective' = shadow
  <1>1. CASE BootStep \/ WriteBlock \/ EnterFm \/ Request \/ UNCHANGED vars
    <2>1. UNCHANGED <<main, bck>>
      BY <1>1, RequestFlash
      DEF BootStep, Boot, StartApp, flash, WriteBlock, EnterFm, vars
    <2> QED
      BY <2>1 DEF Effective, Valid
  <1>2. CASE FixMain
    BY <1>2 DEF FixMain, CoreInv, CopyInv, Effective, Valid
  <1>3. CASE FixBck \/ WritebackBck
    BY <1>3 DEF FixBck, WritebackBck, CoreInv, CopyInv, Effective, Valid
  <1>4. CASE EraseDone \/ \E p \in Partitions, k \in Pages : ErasePage(p, k)
    BY <1>4 DEF EraseDone, ErasePage, flash, Effective, Valid
  <1>5. CASE WritebackMain
    <2>1. shadow \in BlRecord /\ main = bck /\ main' = shadow
      BY <1>5 DEF WritebackMain, CoreInv, CopyInv, TypeOK, BlTypeOK
    <2>2. Valid(main) /\ Valid(main)'
      BY <2>1, CopyRecord DEF Recoverable, CoreInv, TypeOK, Valid
    <2> QED
      BY <1>5, <2>1, <2>2 DEF Effective
  <1>6. CASE PowerLoss
    <2>1. \E page : LosePower(page)
      BY <1>6 DEF PowerLoss
    <2> QED
      BY <2>1 DEF LosePower, Interrupted, CoreInv, CopyInv, Recoverable, Effective,
                  Valid
  <1> QED
    BY <1>1, <1>2, <1>3, <1>4, <1>5, <1>6 DEF Next, FlashStep

LEMMA EffectiveRecord ==
  ASSUME CoreInv, Recoverable
  PROVE  Effective \in BlRecord
  BY CopyRecord DEF CoreInv, TypeOK, Recoverable, Effective

\* The security version number qfu_check_ext_hdr holds a target's images to
\* never falls in the BL-Data a boot would go by: not when an image is
\* installed, a key changed, an update given up or power lost.
THEOREM VersionsNeverFall ==
  ASSUME FirstBlockNums \subseteq {0}
  PROVE  Spec => SvnNeverFalls
  <1>1. ASSUME IndInv, [Next]_vars, Recoverable
        PROVE  \A t \in Targets : Effective'.svn[t] >= Effective.svn[t]
    <2>1. CASE Effective' = Effective
      BY <1>1, <2>1, EffectiveRecord, SvnType DEF IndInv
    <2>2. CASE WritebackMain /\ Valid(main) /\ Effective' = shadow
      BY <1>1, <2>2
      DEF WritebackMain, IndInv, WritebackInv, Succeeds, KeepsSvn, Effective
    <2> QED
      BY <1>1, <2>1, <2>2, EffectiveStep DEF IndInv
  <1>2. IndInv /\ [Next]_vars
          => [Recoverable => \A t \in Targets :
                               Effective'.svn[t] >= Effective.svn[t]]_vars
    BY <1>1
  <1> QED
    BY <1>2, Invariance, PTL DEF Spec, SvnNeverFalls

----------------------------------------------------------------------------
(* The firmware slots: every step of the bootloader is a step of           *)
(* FirmwareSlot on what the effective BL-Data and the flash say of each    *)
(* partition, or none.                                                     *)

\* The abstract state, as FwUpdate maps it.
SlotOf(p) == IF Recoverable /\ ~Effective.cons[p] THEN Updating
             ELSE IF Erased(p) THEN Empty
             ELSE IF Recoverable THEN Effective.ver[p]
             ELSE Factory

slots == [p \in Partitions |-> SlotOf(p)]

LEMMA SlotsInit == Init => slots \in [Partitions -> Images \cup {Factory, Empty}]
  BY DEF Init, BlInit, slots, SlotOf, Recoverable, Valid

\* A step that keeps the effective BL-Data, and changes marked partitions
\* only, cannot be seen.
LEMMA SlotsSame ==
  ASSUME CoreInv, Recoverable' <=> Recoverable,
         Recoverable => Effective' = Effective,
         \A p \in Partitions :
           code'[p] = code[p] \/ (Recoverable /\ ~Effective.cons[p])
  PROVE  slots' = slots
  <1>1. ASSUME NEW p \in Partitions PROVE SlotOf(p)' = SlotOf(p)
    BY DEF SlotOf, Erased
  <1> QED
    BY <1>1 DEF slots

\* What can be seen of a step: nothing, or one of the three slot operations.
SlotStep ==
  \/ slots' = slots
  \/ \E S \in SUBSET Partitions :
       slots' = [p \in Partitions |-> IF p \in S THEN Updating ELSE slots[p]]
  \/ \E p \in Partitions, i \in Images :
       slots[p] = Updating /\ slots' = [slots EXCEPT ![p] = i]
  \/ slots' = [p \in Partitions |->
                 IF slots[p] = Updating THEN Empty ELSE slots[p]]

\* The step that completes an update of BL-Data in Main is the one that shows.
LEMMA WritebackMainSlots ==
  ASSUME CoreInv, WritebackInv, WritebackMain
  PROVE  SlotStep
  <1>1. /\ pc = "wbMain" /\ main = bck /\ main' = shadow /\ code' = code
        /\ shadow \in BlRecord /\ Valid(main)'
        /\ Recoverable' /\ Effective' = shadow
        /\ \A p \in Partitions : Erased(p)' = Erased(p)
    <2>1. pc = "wbMain" /\ main = bck /\ main' = shadow /\ code' = code
          /\ shadow \in BlRecord
      BY DEF WritebackMain, CoreInv, CopyInv, TypeOK, BlTypeOK
    <2>2. Valid(main)'
      BY <2>1, CopyRecord DEF CoreInv, TypeOK, Valid
    <2> QED
      BY <2>1, <2>2 DEF Recoverable, Effective, Erased
  <1>2. \A p \in Partitions :
          slots'[p] = IF ~shadow.cons[p] THEN Updating
                      ELSE IF Erased(p) THEN Empty ELSE shadow.ver[p]
    BY <1>1 DEF slots, SlotOf
  <1>3. CASE ~Valid(main)
    <2>1. ~Recoverable /\ Provisions(shadow)
      BY <1>1, <1>3 DEF Recoverable, WritebackInv, Succeeds
    <2>2. ASSUME NEW p \in Partitions PROVE SlotOf(p)' = SlotOf(p)
      BY <1>1, <2>1, <2>2 DEF SlotOf, Provisions
    <2> QED
      BY <2>2 DEF slots, SlotStep
  <1>4. CASE Valid(main)
    <2>1. /\ Recoverable /\ Effective = main /\ main \in BlRecord
          /\ Marks(shadow) \/ Discards(shadow)
             \/ \E p \in Partitions, i \in Images : Installs(shadow, p, i)
      BY <1>1, <1>4, CopyRecord
      DEF Recoverable, Effective, WritebackInv, Succeeds, CoreInv, TypeOK
    <2>2. \A p \in Partitions :
            slots[p] = IF ~main.cons[p] THEN Updating
                       ELSE IF Erased(p) THEN Empty ELSE main.ver[p]
      BY <2>1 DEF slots, SlotOf
    <2>3. \A p \in Partitions :
            /\ Images \cup {Factory} # {}
            /\ main.ver[p] \in Images \cup {Factory}
            /\ main.ver[p] # Updating /\ Empty # Updating
      BY <2>1, SlotAssumption DEF BlRecord
    <2>4. CASE Marks(shadow)
      <3> DEFINE S == {p \in Partitions : ~shadow.cons[p]}
                 new == [p \in Partitions |-> IF p \in S THEN Updating ELSE slots[p]]
      <3>1. ASSUME NEW p \in Partitions PROVE slots'[p] = new[p]
        BY <1>2, <2>2, <2>4 DEF Marks
      <3>2. slots' = new
        BY <3>1 DEF slots
      <3> QED
        BY <3>2 DEF SlotStep
    <2>5. CASE Discards(shadow)
      <3> DEFINE new == [p \in Partitions |->
                           IF slots[p] = Updating THEN Empty ELSE slots[p]]
      <3>1. ASSUME NEW p \in Partitions PROVE slots'[p] = new[p]
        BY <1>2, <2>2, <2>3, <2>5 DEF Discards
      <3>2. slots' = new
        BY <3>1 DEF slots
      <3> QED
        BY <3>2 DEF SlotStep
    <2>6. CASE \E p \in Partitions, i \in Images : Installs(shadow, p, i)
      <3>1. PICK p \in Partitions, i \in Images : Installs(shadow, p, i)
        BY <2>6
      <3> DEFINE new == [slots EXCEPT ![p] = i]
      <3>2. slots[p] = Updating /\ slots'[p] = i
        BY <1>2, <2>1, <2>2, <3>1 DEF Installs, BlRecord
      <3>3. ASSUME NEW q \in Partitions, q # p PROVE slots'[q] = slots[q]
        BY SMTT(30), <1>2, <2>1, <2>2, <3>1, <3>3 DEF Installs, BlRecord
      <3>4. slots' = new
        BY <3>2, <3>3 DEF slots
      <3> QED
        BY <3>2, <3>4 DEF SlotStep
    <2> QED
      BY <2>1, <2>4, <2>5, <2>6
  <1> QED
    BY <1>3, <1>4

\* Pages are written and erased in marked partitions only.
LEMMA CodeChanges ==
  ASSUME CoreInv, [Next]_vars
  PROVE  \A p \in Partitions :
           code'[p] = code[p] \/ (Recoverable /\ ~Effective.cons[p])
  <1> USE DEF CoreInv, TypeOK, BlTypeOK
  <1>1. pc \in {"erase", "block"} => Recoverable /\ Effective = shadow
    BY DEF CopyInv, Recoverable, Effective
  <1>2. CASE code' = code
    BY <1>2
  <1>3. ASSUME NEW p \in Partitions, NEW k \in Pages, ErasePage(p, k)
        PROVE  \A q \in Partitions :
                 code'[q] = code[q] \/ (Recoverable /\ ~Effective.cons[q])
    BY <1>1, <1>3 DEF ErasePage
  <1>4. CASE WriteBlock
    BY <1>1, <1>4, PendingBlock DEF WriteBlock
  <1>5. CASE PowerLoss
    <2>1. CASE LosePower(code)
      BY <1>2, <2>1 DEF LosePower
    <2>2. CASE pc = "erase" /\ \E pages \in ErasingPages : LosePower(pages)
      <3>1. PICK pages \in ErasingPages : LosePower(pages)
        BY <2>2
      <3>2. code' = pages
        BY <3>1 DEF LosePower
      <3>3. CASE pages = code
        BY <3>2, <3>3
      <3>4. CASE pages # code
        <4>1. PICK p \in Partitions, k \in Pages :
                ~shadow.cons[p] /\ pages = [code EXCEPT ![p][k] = Torn]
          BY <3>4 DEF ErasingPages
        <4> QED
          BY <1>1, <2>2, <3>2, <4>1
      <3> QED
        BY <3>3, <3>4
    <2>3. CASE /\ pc = "block"
               /\ \E t \in {Blank, Torn} :
                    LosePower([code EXCEPT ![alt][blockCnt - 1] = t])
      BY <1>1, <2>3, PendingBlock DEF LosePower
    <2> QED
      BY <1>5, <2>1, <2>2, <2>3 DEF PowerLoss
  <1>6. CASE BootStep \/ EnterFm \/ UNCHANGED vars
    BY <1>2, <1>6 DEF BootStep, Boot, StartApp, EnterFm, flash, vars
  <1>7. CASE FixMain \/ FixBck \/ EraseDone \/ WritebackMain \/ WritebackBck
    BY <1>2, <1>7 DEF FixMain, FixBck, EraseDone, WritebackMain, WritebackBck, flash
  <1>8. CASE Request
    BY <1>2, <1>8, RequestFlash
  <1> QED
    BY <1>3, <1>4, <1>5, <1>6, <1>7, <1>8 DEF Next, FlashStep

\* A step that does not rewrite Main cannot be seen.
LEMMA OtherSlots ==
  ASSUME CoreInv, [Next]_vars, ~WritebackMain
  PROVE  slots' = slots
  <1>1. \A p \in Partitions :
          code'[p] = code[p] \/ (Recoverable /\ ~Effective.cons[p])
    BY CodeChanges
  <1>2. CASE Recoverable
    BY <1>1, <1>2, EffectiveStep, NextRecoverable, SlotsSame
  <1>3. CASE ~Recoverable
    <2>1. ~Recoverable'
      <3>1. CASE BootStep \/ WriteBlock \/ EnterFm \/ Request \/ UNCHANGED vars
        <4>1. UNCHANGED <<main, bck>>
          BY <3>1, RequestFlash
          DEF BootStep, Boot, StartApp, flash, WriteBlock, EnterFm, vars
        <4> QED
          BY <1>3, <4>1 DEF Recoverable, Valid
      <3>2. CASE FlashStep
        BY <1>3, <3>2
        DEF FlashStep, FixMain, FixBck, EraseDone, ErasePage, WritebackBck, flash,
            CoreInv, CopyInv, Recoverable, Valid
      <3>3. CASE PowerLoss
        BY <1>3, <3>3
        DEF PowerLoss, LosePower, Interrupted, Recoverable, Valid
      <3> QED
        BY <3>1, <3>2, <3>3 DEF Next
    <2> QED
      BY <1>1, <1>3, <2>1, SlotsSame
  <1> QED
    BY <1>2, <1>3

LEMMA SlotsStep == IndInv /\ [Next]_vars => [Slot!Next]_slots
  <1> SUFFICES ASSUME IndInv, [Next]_vars PROVE [Slot!Next]_slots
    OBVIOUS
  <1>1. SlotStep
    BY WritebackMainSlots, OtherSlots DEF IndInv, SlotStep
  <1> QED
    BY <1>1 DEF SlotStep, slots, SlotOf, Slot!Next, Slot!Begin, Slot!Install,
                Slot!Discard

\* Seen through the BL-Data a boot would go by, an update is atomic: an image
\* is neither replaced nor dropped before its partition was marked, only a
\* marked partition is installed to or discarded, and every other step of
\* bl_data.c, qfu.c, qfm.c and dfu_core.c, power losses included, is invisible.
THEOREM UpdateImplementsSlots ==
  ASSUME FirstBlockNums \subseteq {0}
  PROVE  Spec => ImplementsSlots
  <1>1. Init => Slot!Init
    BY SlotsInit DEF Slot!Init, slots, SlotOf
  <1>2. IndInv /\ [Next]_vars => [Slot!Next]_slots
    BY SlotsStep
  <1> QED
    BY <1>1, <1>2, Invariance, PTL
    DEF Spec, ImplementsSlots, Slot!Spec, slots, SlotOf
=============================================================================
