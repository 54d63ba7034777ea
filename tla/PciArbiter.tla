----------------------------- MODULE PciArbiter -----------------------------
(***************************************************************************)
(* The PCI bus as the server sees it (server/PciProtocol.cc): the four     *)
(* phases of the clock, the arbiter that samples REQ# at the posedge and   *)
(* hands out GNT# after it, the tracking of the bus master, and the        *)
(* blending of the signals that all devices share.                         *)
(*                                                                         *)
(* A device is its ident.  Of the shared signals the two that say who owns *)
(* the bus are kept, FRAME# and IRDY#; the others are blended alike.       *)
(***************************************************************************)
EXTENDS Integers, FiniteSets

CONSTANTS
  Dev,            \* idents of the devices of the bus, hosts included
  Park,           \* what the option bus_park may say: "none", "last"
  Linger,         \* gnt_linger
  None            \* the null plug

Slots == 16       \* the width of req_n_
Bit   == {"0", "1", "X", "Z"}

ASSUME ArbiterConstantsOK ==
  /\ Dev \subseteq 0..(Slots - 1)
  /\ Park \subseteq {"none", "last"}
  /\ Linger \in Nat
  /\ None \notin Dev

VARIABLES
  park_mode,      \* park_mode_
  phase,          \* phase_: 0 posedge, 1 hold, 2 negedge, 3 setup
  req_n,          \* idents that req_n_ has at BIT_0
  granted,        \* granted_
  master,         \* master_
  gnt,            \* devices that are sent GNT# low
  fault,          \* the server process has been ended by a signal
  out_req, out_frame, out_irdy,    \* client_signals, by device
  pci_frame, pci_irdy              \* send_signals, by device

arbiterVars == <<park_mode, phase, req_n, granted, master, gnt, fault>>
outVars     == <<out_req, out_frame, out_irdy>>
sendVars    == <<pci_frame, pci_irdy>>

(* run_init; the first step of the bus is phase 1.                         *)
ArbiterInit ==
  /\ park_mode \in Park
  /\ phase = 0 /\ req_n = {} /\ granted = None /\ master = None
  /\ gnt = {} /\ fault = FALSE
  /\ out_req   = [d \in Dev |-> "1"]
  /\ out_frame = [d \in Dev |-> "Z"]
  /\ out_irdy  = [d \in Dev |-> "Z"]
  /\ pci_frame = [d \in Dev |-> "Z"]
  /\ pci_irdy  = [d \in Dev |-> "Z"]

-----------------------------------------------------------------------------
(* The value of a shared line: blend_bits over all the devices.            *)
Blend(out) ==
  LET driven == {out[d] : d \in Dev} \ {"Z"}
  IN  IF driven = {} THEN "Z"
      ELSE IF Cardinality(driven) = 1 THEN CHOOSE v \in Bit : v \in driven
      ELSE "X"

(* What a device is sent back does not include what it drives itself.      *)
subtract_feedback(sig, ref) ==
  IF ref # "Z" /\ sig = ref THEN "Z" ELSE sig

blend_bi_signals_ ==
  /\ pci_frame' = [d \in Dev |-> subtract_feedback(Blend(out_frame), out_frame[d])]
  /\ pci_irdy'  = [d \in Dev |-> subtract_feedback(Blend(out_irdy), out_irdy[d])]

-----------------------------------------------------------------------------
Holds(d) == out_frame[d] = "0" \/ out_irdy[d] = "0"

(* Faulty variant: the grantee becomes master while the old one holds on.  *)
track_master_eager ==
  master' = IF granted # None THEN granted
            ELSE IF master # None /\ ~Holds(master) THEN None ELSE master

(* The tracking of the master, with the grant before this clock's          *)
(* arbitration.                                                            *)
track_master ==
  master' =
    CASE master = None /\ granted = None -> None
      [] master = None /\ granted # None ->
           IF out_frame[granted] = "0" THEN granted ELSE None
      [] master # None /\ master = granted -> master
      [] master # None /\ granted \notin {None, master} ->
           IF Holds(master) THEN master ELSE granted
      [] OTHER -> IF Holds(master) THEN master ELSE None

(* Phase 0.  A REQ# at Z or X is no request.                               *)
track_req_n_ ==
  /\ req_n' = {d \in Dev : out_req[d] = "0"}
  /\ track_master
  /\ UNCHANGED <<granted, gnt, fault>>

(* Steps of the round robin from one ident to another, 1 to Slots.         *)
Distance(from, to) == 1 + ((to - from - 1) % Slots)
Nearest(from, D) == CHOOSE d \in D : \A e \in D : Distance(from, d) <= Distance(from, e)

(* lrand_() % gnt_linger_.  A gnt_linger of 0 divides by zero.             *)
DivideByZero == -1
LingerDraw == IF Linger = 0 THEN {DivideByZero} ELSE 0..(Linger - 1)

(* No requests: unless the bus parks, a master's grant may be recalled.    *)
(* The random number is drawn last.                                        *)
Recall ==
  /\ req_n = {}
  /\ IF master = None \/ granted = None \/ park_mode = "last"
     THEN UNCHANGED <<granted, gnt, fault>>
     ELSE \E n \in LingerDraw :
            /\ fault' = (n = DivideByZero)
            /\ granted' = IF n = 0 THEN None ELSE granted
            /\ gnt' = IF n = 0 THEN gnt \ {granted} ELSE gnt

Keep ==
  /\ req_n # {} /\ granted \in req_n
  /\ UNCHANGED <<granted, gnt, fault>>

(* Faulty variants: the old grantee keeps its GNT#; the search starts over *)
(* at ident 0.                                                             *)
GrantBoth ==
  /\ req_n # {} /\ granted \notin req_n
  /\ \E from \in IF granted = None THEN 0..(Slots - 1) ELSE {granted} :
       /\ granted' = Nearest(from, req_n)
       /\ gnt' = gnt \cup {granted'}
  /\ UNCHANGED fault

GrantLowest ==
  /\ req_n # {} /\ granted \notin req_n
  /\ granted' = Nearest(Slots - 1, req_n)
  /\ gnt' = (gnt \ {granted}) \cup {granted'}
  /\ UNCHANGED fault

(* The requester next in turn; in turn from a random ident if none has the *)
(* grant.                                                                  *)
Grant ==
  /\ req_n # {} /\ granted \notin req_n
  /\ \E from \in IF granted = None THEN 0..(Slots - 1) ELSE {granted} :
       /\ granted' = Nearest(from, req_n)
       /\ gnt' = (gnt \ {granted}) \cup {granted'}
  /\ UNCHANGED fault

(* Phase 1.                                                                *)
arbitrate_ ==
  /\ Recall \/ Keep \/ Grant
  /\ UNCHANGED <<req_n, master>>

run_run ==
  /\ ~fault
  /\ UNCHANGED park_mode
  /\ phase' = (phase + 1) % 4
  /\ CASE phase' = 0 -> track_req_n_
       [] phase' = 1 -> arbitrate_
       [] OTHER -> UNCHANGED <<req_n, granted, master, gnt, fault>>
  /\ blend_bi_signals_

-----------------------------------------------------------------------------
(* Types of the arbiter's state, and of the signals it exchanges.          *)
ArbiterTypeOK ==
  /\ park_mode \in Park
  /\ phase \in 0..3
  /\ req_n \subseteq Dev /\ gnt \subseteq Dev
  /\ granted \in Dev \cup {None} /\ master \in Dev \cup {None}
  /\ fault \in BOOLEAN
  /\ out_req \in [Dev -> Bit] /\ out_frame \in [Dev -> Bit] /\ out_irdy \in [Dev -> Bit]
  /\ pci_frame \in [Dev -> Bit] /\ pci_irdy \in [Dev -> Bit]

(* arbitrate_, "This should always leave us with no more then 1 device     *)
(* granted": the GNT# lines agree with granted_.                           *)
OneGrant == gnt = IF granted = None THEN {} ELSE {granted}
=============================================================================
