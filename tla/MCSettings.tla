----------------------------- MODULE MCSettings -----------------------------
(***************************************************************************)
(* Small instances of Settings for TLC.                                    *)
(***************************************************************************)
EXTENDS Settings, TLC

CONSTANTS p, q

Legacy(access) ==
    [vendor |-> "18d1", pid |-> "2d04", cm01 |-> TRUE, port |-> 1, access |-> access]
Kanali(pid) ==
    [vendor |-> "391a", pid |-> pid, cm01 |-> FALSE, port |-> 1, access |-> "accessible"]

\* A display of each firmware, two legacy ones, an upload-only product, a
\* display that may not be opened beside one that may.
MCBuses ==
    { p :> Legacy("accessible") @@ q :> Kanali("1021"),
      p :> Legacy("accessible") @@ q :> Legacy("accessible"),
      p :> Kanali("2011"),
      p :> Legacy("denied") @@ q :> Kanali("1011") }

OneBus == { p :> Legacy("accessible") }
KanaliBus == { p :> Kanali("1021") }

By(tty, device) == [tty |-> tty, device |-> device, direct |-> FALSE]
MCAims == {NoAim, By(None, q)}
NoAims == {NoAim}

=============================================================================
