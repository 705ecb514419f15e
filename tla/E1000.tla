------------------------------- MODULE E1000 -------------------------------
(***************************************************************************)
(* The descriptor rings of the Intel 8254x/i217 driver, src/MeOS/i217.cpp. *)
(* Two actors share them: the driver (e1000_sendPacket, the interrupt      *)
(* handler e1000_callback with e1000_recv_packet) and the device.  The     *)
(* device is not code of the repository; its steps follow the 8254x ring  *)
(* rules the driver relies on: it owns the descriptors from head up to,    *)
(* not including, tail, and stops when head = tail.  Received packets      *)
(* carry the ids 1, 2, ... in arrival order, sent packets likewise.        *)
(***************************************************************************)
EXTENDS Integers, Sequences, SequencesExt, FiniteSets

CONSTANTS
  NumRx,       \* E1000_NUM_RX_DESC (32 in the code)
  NumTx,       \* E1000_NUM_TX_DESC (8 in the code)
  MaxPackets,  \* bound on packets arriving from the wire
  MaxSends     \* bound on calls of e1000_sendPacket

ASSUME NumRx \in Nat \ {0, 1} /\ NumTx \in Nat \ {0, 1}

VARIABLES
  rdh, rdt,    \* REG_RXDESCHEAD / REG_RXDESCTAIL
  rx_cur,      \* dev->rx_cur
  rx_pkt,      \* rx_pkt[i]: packet stored in rx descriptor i, 0 for none
  arrived,     \* packets that reached the device from the wire
  stored,      \* history: packets the device stored, in order
  delivered,   \* packets e1000_recv_packet handed on, in order
  rx_pc,       \* "idle", or "parse": the handler between the tail write
               \* and the hand-off of the packet buffer
  rx_buf,      \* the descriptor whose buffer (pkt) the handler is parsing
  icr,         \* pending interrupt causes (ICR bits, cleared on read)
  tdh, tdt,    \* REG_TXDESCHEAD / REG_TXDESCTAIL
  tx_cur,      \* dev->tx_cur
  tx_pkt,      \* tx_pkt[i]: packet of tx descriptor i, 0 while cmd = 0
  tx_dd,       \* tx_dd[i]: status DD written back by the device
  sent,        \* history: the first MaxSends + 1 transmissions, in order
  sent_empty,  \* whether the device transmitted a descriptor with cmd 0
  send_pc,     \* "idle", "fill" (descriptor written, tail not yet) or
               \* "spin" (the while loop of e1000_sendPacket)
  old_cur,     \* old_cur of the call in progress
  sends        \* calls of e1000_sendPacket so far

rxVars == <<rdh, rdt, rx_cur, rx_pkt, arrived, stored, delivered, rx_pc, rx_buf>>
txVars == <<tdh, tdt, tx_cur, tx_pkt, tx_dd, sent, sent_empty, send_pc, old_cur, sends>>
vars == <<rxVars, icr, txVars>>

RxRing == 0 .. NumRx - 1
TxRing == 0 .. NumTx - 1
Causes == {"rxt0", "rxo", "txdw"}

-----------------------------------------------------------------------------
\* mutant: the receive tail set to NUM_RX_DESC, as tx_init does for transmit
RxInitMutant ==
  /\ rdh = 0 /\ rdt = NumRx /\ rx_cur = 0
  /\ rx_pkt = [i \in RxRing |-> 0]

\* rx_init: descriptors without status, head 0, tail NUM_RX_DESC - 1
RxInit ==
  /\ rdh = 0 /\ rdt = NumRx - 1 /\ rx_cur = 0
  /\ rx_pkt = [i \in RxRing |-> 0]

\* tx_init: descriptors with cmd 0, head 0, tail NUM_TX_DESC
TxInit ==
  /\ tdh = 0 /\ tdt = NumTx /\ tx_cur = 0
  /\ tx_pkt = [i \in TxRing |-> 0]
  /\ tx_dd = [i \in TxRing |-> FALSE]

\* e1000_start: interrupts enabled (pending causes read away), then
\* rx_init and tx_init; no traffic yet
Init ==
  /\ RxInit /\ TxInit
  /\ icr = {}
  /\ arrived = 0 /\ stored = <<>> /\ delivered = <<>>
  /\ rx_pc = "idle" /\ rx_buf = 0
  /\ sent = <<>> /\ sent_empty = FALSE
  /\ send_pc = "idle" /\ old_cur = 0 /\ sends = 0

-----------------------------------------------------------------------------
(* The device (environment).                                               *)

\* a packet arrives: stored at head if the device owns a descriptor,
\* dropped (receiver overrun) otherwise
DeviceReceive ==
  /\ arrived < MaxPackets
  /\ arrived' = arrived + 1
  /\ IF rdh # rdt
     THEN /\ rx_pkt' = [rx_pkt EXCEPT ![rdh] = arrived + 1]
          /\ rdh' = (rdh + 1) % NumRx
          /\ stored' = Append(stored, arrived + 1)
          /\ icr' = icr \cup {"rxt0"}
     ELSE /\ icr' = icr \cup {"rxo"}
          /\ UNCHANGED <<rdh, rx_pkt, stored>>
  /\ UNCHANGED <<rdt, rx_cur, delivered, rx_pc, rx_buf, txVars>>

\* the transmitter processes the descriptor at head while head # tail; it
\* writes DD back only for descriptors whose cmd has RS set
DeviceTransmit ==
  /\ tdh # tdt
  /\ tdh' = (tdh + 1) % NumTx
  /\ IF tx_pkt[tdh] # 0
     THEN /\ sent' = IF Len(sent) <= MaxSends THEN Append(sent, tx_pkt[tdh]) ELSE sent
          /\ tx_dd' = [tx_dd EXCEPT ![tdh] = TRUE]
          /\ icr' = icr \cup {"txdw"}
          /\ UNCHANGED sent_empty
     ELSE /\ sent_empty' = TRUE
          /\ UNCHANGED <<sent, tx_dd, icr>>
  /\ UNCHANGED <<rxVars, tdt, tx_cur, tx_pkt, send_pc, old_cur, sends>>

-----------------------------------------------------------------------------
(* The driver.                                                             *)

\* e1000_recv_packet up to its tail write: note the buffer of descriptor
\* rx_cur (its status is not looked at), advance rx_cur and write it to the
\* tail register, which gives that descriptor back to the device
RecvPacket ==
  /\ rx_buf' = rx_cur
  /\ rx_cur' = (rx_cur + 1) % NumRx
  /\ rdt' = (rx_cur + 1) % NumRx
  /\ rx_pc' = "parse"

\* e1000_callback: the interrupt is taken while a cause is pending and no
\* handler runs; reading ICR clears it; a receive-timer cause handles
\* exactly one descriptor
Callback ==
  /\ rx_pc = "idle"
  /\ icr # {}
  /\ icr' = {}
  /\ IF "rxt0" \in icr THEN RecvPacket ELSE UNCHANGED <<rx_cur, rdt, rx_pc, rx_buf>>
  /\ UNCHANGED <<rdh, rx_pkt, arrived, stored, delivered, txVars>>

\* the rest of e1000_recv_packet: the Ethernet header is read from the
\* buffer, after the device may have stored into it again
RecvHandOn ==
  /\ rx_pc = "parse"
  /\ delivered' = Append(delivered, rx_pkt[rx_buf])
  /\ rx_pc' = "idle"
  /\ UNCHANGED <<rdh, rdt, rx_cur, rx_pkt, arrived, stored, rx_buf, icr, txVars>>

\* e1000_sendPacket, its first statements: descriptor tx_cur gets the
\* buffer, the length, cmd with RS set, and status 0
SendFill ==
  /\ send_pc = "idle"
  /\ sends < MaxSends
  /\ sends' = sends + 1
  /\ tx_pkt' = [tx_pkt EXCEPT ![tx_cur] = sends + 1]
  /\ tx_dd' = [tx_dd EXCEPT ![tx_cur] = FALSE]
  /\ send_pc' = "fill"
  /\ UNCHANGED <<rxVars, icr, tdh, tdt, tx_cur, sent, sent_empty, old_cur>>

\* old_cur = tx_cur, tx_cur advanced and written to the tail register
SendTail ==
  /\ send_pc = "fill"
  /\ old_cur' = tx_cur
  /\ tx_cur' = (tx_cur + 1) % NumTx
  /\ tdt' = (tx_cur + 1) % NumTx
  /\ send_pc' = "spin"
  /\ UNCHANGED <<rxVars, icr, tdh, tx_pkt, tx_dd, sent, sent_empty, sends>>

\* the busy wait ends once the device wrote DD into descriptor old_cur
SendReturn ==
  /\ send_pc = "spin"
  /\ tx_dd[old_cur]
  /\ send_pc' = "idle"
  /\ UNCHANGED <<rxVars, icr, tdh, tdt, tx_cur, tx_pkt, tx_dd, sent, sent_empty, old_cur, sends>>

Next ==
  \/ DeviceReceive
  \/ DeviceTransmit
  \/ Callback
  \/ RecvHandOn
  \/ SendFill
  \/ SendTail
  \/ SendReturn

\* The interrupt is serviced while a cause is pending and its handler runs
\* to its end, the device works its transmit queue, a started send reaches
\* its tail write and the spinning CPU sees DD once it is written.  Arrivals
\* come from the wire and are not forced.
Spec ==
  Init /\ [][Next]_vars
  /\ WF_vars(Callback) /\ WF_vars(RecvHandOn)
  /\ WF_vars(DeviceTransmit) /\ WF_vars(SendTail) /\ WF_vars(SendReturn)

-----------------------------------------------------------------------------

TypeOK ==
  /\ rdh \in RxRing /\ rdt \in RxRing /\ rx_cur \in RxRing
  /\ rx_pkt \in [RxRing -> 0 .. MaxPackets]
  /\ arrived \in 0 .. MaxPackets
  /\ stored \in BoundedSeq(1 .. MaxPackets, MaxPackets)
  /\ delivered \in BoundedSeq(0 .. MaxPackets, MaxPackets)
  /\ rx_pc \in {"idle", "parse"} /\ rx_buf \in RxRing
  /\ icr \subseteq Causes
  /\ tdh \in TxRing /\ tdt \in TxRing \cup {NumTx} /\ tx_cur \in TxRing
  /\ tx_pkt \in [TxRing -> 0 .. MaxSends] /\ tx_dd \in [TxRing -> BOOLEAN]
  /\ sent \in BoundedSeq(1 .. MaxSends, MaxSends + 1) /\ sent_empty \in BOOLEAN
  /\ send_pc \in {"idle", "fill", "spin"} /\ old_cur \in TxRing
  /\ sends \in 0 .. MaxSends

(***************************************************************************)
(* Every call of e1000_sendPacket returns: the device eventually writes DD *)
(* into the descriptor its busy wait polls.                                *)
(***************************************************************************)
SendReturns == send_pc = "spin" ~> send_pc = "idle"

(***************************************************************************)
(* Every stored packet is eventually handed on: once the device has       *)
(* stored k packets, e1000_recv_packet eventually delivers k.  The        *)
(* interrupt is serviced while a cause is pending (WF on Callback), but   *)
(* e1000_callback handles one descriptor per RXT0 interrupt and reading   *)
(* ICR clears the cause, so packets stored under one interrupt depend on  *)
(* later traffic to be delivered.                                          *)
(***************************************************************************)
RxDelivered == \A k \in 1 .. MaxPackets : Len(stored) >= k ~> Len(delivered) >= k

====
