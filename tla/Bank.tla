--------------------------------- MODULE Bank ---------------------------------
(***************************************************************************)
(* The register banks of the ENC28J60 in the window enc28j60.c opens at    *)
(* the end of ENC28J60_Init: the chip may interrupt, and main, without     *)
(* PRIMASK, is still inside ENC28J60_PHY_Read.  ENC28J60_Set_Bank compares *)
(* with a cached bank, clears and sets two bits of ECON1 and then notes    *)
(* the new bank; the handler cuts in between any two bytes on the SPI bus, *)
(* moves the bank itself and raises main's chip select.  Afterwards main   *)
(* talks to the chip only in ENC28J60_Packet_Send, under PRIMASK.          *)
(*                                                                         *)
(* A bank is the set of its BSEL bits: {} is bank 0, {0, 1} is bank 3.     *)
(* Deselecting is one step with a command's last byte: nothing that can    *)
(* happen between them reaches the bank.  Two halves of a pointer register *)
(* are one access, and the values moved are left out.                      *)
(*                                                                         *)
(* The names differ from those of Enc28j60, which follows the same driver  *)
(* from one register access to the next.                                   *)
(***************************************************************************)
EXTENDS Integers, Sequences

VARIABLES
  bsel,     \* chip: ECON1.BSEL1:0
  link,     \* chip: "idle" while CS is high, then "fresh", then the opcode it got
  cache,    \* enc28j60_dev.enc28j60bank
  step,     \* main: the access of ENC28J60_PHY_Read it is in
  stage,    \* main: where it is in ENC28J60_Read or ENC28J60_Write
  byte,     \* main: the bytes of the command it is through with
  handler,  \* EXTI1_IRQHandler is running
  masked,   \* INTX_DISABLE is in force
  missed    \* ghost: accesses of the handler or of a send that fell into another bank

place == <<step, stage, byte>>   \* where main is
bankVars == <<bsel, link, cache, place, handler, masked, missed>>
-----------------------------------------------------------------------------
(* The addresses of these registers carry bank 0, and every bank has them. *)
Common == {"EIR", "ESTAT", "ECON1"}

BankOf(r) == CASE r = "EPKTCNT" -> {0}
               [] r \in {"MICMD", "MIREGADR", "MIRDL", "MIRDH"} -> {1}
               [] r = "MISTAT" -> {0, 1}
               [] OTHER -> {}

(* What ENC28J60_PHY_Read reads and writes; it comes back to MISTAT while    *)
(* the PHY is busy.                                                          *)
PhyRead == <<"MICMD", "MIREGADR", "MICMD", "MISTAT", "MICMD", "MIRDL", "MIRDH">>

InPhy == step <= Len(PhyRead)
Reg == PhyRead[step]

BankInit ==
  /\ bsel = {} /\ link = "idle" /\ cache = {}
  /\ step = 1 /\ stage = "test" /\ byte = 0
  /\ handler = FALSE /\ masked = FALSE /\ missed = {}
-----------------------------------------------------------------------------
(* ENC28J60_Set_Bank compares. *)
Test ==
  /\ InPhy /\ stage = "test" /\ ~handler
  /\ stage' = IF cache = BankOf(Reg) THEN "access" ELSE "clear"
  /\ UNCHANGED <<step, byte, bsel, link, cache, handler, masked, missed>>

Commands == {"clear", "set", "access"}

(* ENC28J60_CS=0 and, next, the opcode.  With CS raised under main the       *)
(* opcode reaches nobody.                                                    *)
Select ==
  /\ stage \in Commands /\ byte = 0 /\ ~handler
  /\ link' = "fresh" /\ byte' = 1
  /\ UNCHANGED <<step, stage, bsel, cache, handler, masked, missed>>

Opcode ==
  /\ stage \in Commands /\ byte = 1 /\ ~handler
  /\ link' = IF link = "fresh" THEN stage ELSE link
  /\ byte' = 2
  /\ UNCHANGED <<step, stage, bsel, cache, handler, masked, missed>>

(* ECON1 takes the data byte of the command it got: BFC clears its bits, BFS *)
(* sets them.                                                                *)
Take(bits) == bsel' = CASE link = "clear" -> bsel \ bits
                        [] link = "set"   -> bsel \cup bits
                        [] OTHER          -> bsel

(* Main's data byte and ENC28J60_CS=1, and on to the next command: the       *)
(* access itself ends with the next register, MISTAT with itself or the next.*)
Data ==
  /\ stage \in Commands /\ byte = 2 /\ ~handler
  /\ Take(IF stage = "clear" THEN {0, 1} ELSE BankOf(Reg))
  /\ link' = "idle" /\ byte' = 0
  /\ stage' = CASE stage = "clear" -> "set" [] stage = "set" -> "note" [] OTHER -> "test"
  /\ step' \in IF stage # "access" THEN {step}
               ELSE IF Reg = "MISTAT" THEN {step, step + 1} ELSE {step + 1}
  /\ UNCHANGED <<cache, handler, masked, missed>>

(* enc28j60_dev.enc28j60bank=(bank&BANK_MASK) *)
Note ==
  /\ stage = "note" /\ ~handler
  /\ cache' = BankOf(Reg) /\ stage' = "access"
  /\ UNCHANGED <<step, byte, bsel, link, handler, masked, missed>>
-----------------------------------------------------------------------------
(* Accesses where nothing interrupts.  ENC28J60_Set_Bank compares the k-th   *)
(* with a cache that, from the second on, holds the bank of the one before,  *)
Cached(regs, k) == IF k = 1 THEN cache ELSE BankOf(regs[k - 1])

(* and a bank, once switched, is the register's own from then on.            *)
BankAt(regs, k) ==
  IF \E j \in 1 .. k : Cached(regs, j) # BankOf(regs[j]) THEN BankOf(regs[k]) ELSE bsel

Misses(regs, k) == regs[k] \notin Common /\ BankAt(regs, k) # BankOf(regs[k])

Uninterrupted(regs) ==
  /\ bsel' = BankAt(regs, Len(regs)) /\ cache' = BankOf(regs[Len(regs)])
  /\ missed' = missed \cup {regs[k] : k \in {j \in DOMAIN regs : Misses(regs, j)}}

(* ENC28J60_Packet_Send, under PRIMASK from end to end. *)
SendRegs == <<"ECON1", "EWRPT", "ETXND", "EIR">>

PacketSend ==
  /\ ~InPhy /\ ~handler
  /\ Uninterrupted(SendRegs)
  /\ masked' = FALSE
  /\ UNCHANGED <<link, place, handler>>

(* The handler starts with a BFC of EIE, the bytes BB and 80.  If the chip   *)
(* has main's opcode, it takes BB for main's data, both bank bits of ECON1   *)
(* among others.  ENC28J60_CS=1 then ends main's command too.                *)
Enter ==
  /\ ~handler /\ ~masked
  /\ handler' = TRUE /\ link' = "idle"
  /\ Take({0, 1})
  /\ UNCHANGED <<cache, place, masked, missed>>

(* Mutant: ENC28J60_Packet_Receive does not look at EPKTCNT. *)
ReceiveRegsUnasked == <<"ESTAT", "ERDPT", "ERXRDPT">>

(* What ENC28J60_Packet_Receive accesses for a frame, ... *)
ReceiveRegs == <<"EPKTCNT", "ESTAT", "ERDPT", "ERXRDPT">>

(* ... where there is none, ... *)
NoFrameRegs == <<"EPKTCNT">>

(* ... and what ENC28J60_ISRHandler does for RXERIF. *)
ErrorRegs == <<"EPKTCNT", "ERXRDPT">>

(* One round of ENC28J60_ISRHandler.  A frame may be answered once the       *)
(* netif is there.  Without a frame PRIMASK is left set.                     *)
Round ==
  /\ handler
  /\ \E received \in {<< >>, NoFrameRegs, ReceiveRegs}
                       \cup (IF InPhy THEN {} ELSE {ReceiveRegs \o SendRegs}),
        error \in {<< >>, ErrorRegs} :
       /\ Uninterrupted(<<"EIR">> \o received \o error)
       /\ masked' = IF received = << >> THEN masked ELSE received = NoFrameRegs
  /\ UNCHANGED <<link, place, handler>>

Leave ==
  /\ handler /\ handler' = FALSE
  /\ UNCHANGED <<bsel, link, cache, place, masked, missed>>
-----------------------------------------------------------------------------
BankNext == Test \/ Select \/ Opcode \/ Data \/ Note \/ PacketSend \/ Enter \/ Round \/ Leave

BankSpec == BankInit /\ [][BankNext]_bankVars
-----------------------------------------------------------------------------
Banks == SUBSET {0, 1}

BankTypeOK ==
  /\ bsel \in Banks /\ cache \in Banks
  /\ link \in {"idle", "fresh"} \cup Commands
  /\ step \in 1 .. Len(PhyRead) + 1
  /\ stage \in {"test", "note"} \cup Commands /\ byte \in 0 .. 2
  /\ handler \in BOOLEAN /\ masked \in BOOLEAN

(* Whatever state of main's bank switch the handler cuts into, none of its   *)
(* own accesses, and none of a send, falls into another bank.  The handler   *)
(* compares with a cache that main may not have brought up to date: what     *)
(* saves it is that each round reads a register of every bank first, and     *)
(* EPKTCNT before it touches a pointer.                                      *)
AccessHits == missed = {}

(* Why, as an inductive invariant: outside "set" and "note" the cache may    *)
(* name a bank the handler has moved away from, but never bank 0 while       *)
(* another is selected.                                                      *)
BankInv ==
  /\ BankTypeOK /\ AccessHits
  /\ ~InPhy => stage = "test"
  /\ link = "fresh" => byte = 1
  /\ link \in Commands => byte = 2 /\ link = stage
  /\ stage \in {"set", "note"} \/ (cache = {} => bsel = {})
=============================================================================
