----------------------------- MODULE Selection -----------------------------
(***************************************************************************)
(* Which display a command goes to: discovery on the USB bus, the product  *)
(* table, and the choice between a running daemon and the display itself   *)
(* (tryx-device/src/discovery.rs and product.rs, tryxctl/src/legacy.rs and *)
(* kanali.rs).                                                             *)
(*                                                                         *)
(* A display on the bus is a record: the vendor and product ids, whether   *)
(* the product string starts with cm01, whether a tty or a printer         *)
(* interface is exposed (an interface counts only if it alone matches),    *)
(* and the access the process has.  A display's place on the bus is its    *)
(* name, so the names are model values: stable_id and the port names are   *)
(* one-to-one with them.                                                   *)
(***************************************************************************)
EXTENDS FiniteSets

CONSTANTS
    Places,     \* where a display can be plugged in
    None        \* no option, no daemon, no choice

ASSUME PlacesAssumption == None \notin Places /\ IsFiniteSet(Places)

Access == {"accessible", "denied", "busy"}
Ids == {"1021", "1011", "2011", "0006"}     \* 0006 is the booting gadget

Displays ==
    [vendor : {"391a"}, pid : Ids, cm01 : {FALSE}, port : {0, 1, 2},
        access : Access]
    \cup
    [vendor : {"18d1"}, pid : {"2d04"}, cm01 : BOOLEAN, port : {0, 1},
        access : {"accessible", "denied"}]

\* Product::from_product_id; the booting gadget has no product.
from_product_id(pid) ==
    CASE pid = "1021" -> "panorama-se"
      [] pid = "1011" -> "panorama"
      [] pid = "2011" -> "turris"
      [] OTHER -> None

Capable(product) ==
    CASE product = "panorama-se" ->
            {"upload", "catalog", "configuration", "overlay", "flash"}
      [] product = "panorama" -> {"upload", "catalog", "configuration", "overlay"}
      [] product = "turris" -> {"upload"}
      [] OTHER -> {}

-----------------------------------------------------------------------------
(* Discovery.  A bus is a partial function from places to displays.        *)

Plugged(bus) == DOMAIN bus

printer_devices(bus) == {d \in Plugged(bus) : bus[d].vendor = "391a"}

legacy_devices(bus) ==
    {d \in Plugged(bus) : bus[d].vendor = "18d1" /\ bus[d].cm01}

Candidates(bus) ==
    {d \in printer_devices(bus) : from_product_id(bus[d].pid) # None}

\* The one printer interface with one bulk endpoint in each direction.
find_printer_interface(display) ==
    CASE display.port = 0 -> "missing"
      [] display.port = 1 -> "found"
      [] OTHER -> "ambiguous"

-----------------------------------------------------------------------------
(* A choice is a record of the protocol and the place, or a refusal.       *)

Refused == [protocol |-> "refused", at |-> None]
Chosen(protocol, d) == [protocol |-> protocol, at |-> d]

\* kanali::ready
ready(bus, d) ==
    IF /\ bus[d].access = "accessible"
       /\ find_printer_interface(bus[d]) = "found"
    THEN Chosen("kanali", d)
    ELSE Refused

\* kanali::select
kanali_select(bus, id) ==
    IF id # None
    THEN IF id \in Candidates(bus) THEN ready(bus, id) ELSE Refused
    ELSE IF Cardinality(Candidates(bus)) = 1
         THEN ready(bus, CHOOSE d \in Candidates(bus) : TRUE)
         ELSE Refused

\* legacy::select.  A named port is opened whatever discovery says of it; one
\* that is not there, or that may not be opened, fails then.
legacy_select(bus, tty) ==
    LET legacy == legacy_devices(bus)
        Opens(d) == /\ d \in Plugged(bus)
                    /\ bus[d].port = 1
                    /\ bus[d].access = "accessible"
    IN  IF tty # None
        THEN IF tty \in legacy /\ Opens(tty) THEN Chosen("legacy", tty) ELSE Refused
        ELSE IF Cardinality(legacy) = 1
             THEN LET d == CHOOSE d \in legacy : TRUE
                  IN  IF Opens(d) THEN Chosen("legacy", d) ELSE Refused
             ELSE Refused

\* Session::select_backend
select_backend(bus, opts) ==
    IF opts.tty # None THEN legacy_select(bus, opts.tty)
    ELSE IF opts.device # None THEN kanali_select(bus, opts.device)
    ELSE IF legacy_devices(bus) = {} /\ Candidates(bus) # {}
         THEN kanali_select(bus, None)
         ELSE legacy_select(bus, None)

\* Mutant: a daemon carries every command.
AnyDaemon(opts, status) == status.protocol # "refused"

\* Session::daemon_owns_target.  status is the daemon's: the protocol and the
\* port or id it holds, or held last.
daemon_owns_target(opts, status) ==
    IF opts.tty # None
    THEN status.protocol = "legacy" /\ opts.tty = status.at
    ELSE IF opts.device # None
         THEN status.protocol = "kanali" /\ opts.device = status.at
         ELSE TRUE

\* Session::connect, with status = Refused when no daemon answers.
connect(bus, opts, status) ==
    IF ~opts.direct /\ status # Refused /\ daemon_owns_target(opts, status)
    THEN [via |-> "daemon", to |-> status]
    ELSE [via |-> "direct", to |-> select_backend(bus, opts)]

=============================================================================
