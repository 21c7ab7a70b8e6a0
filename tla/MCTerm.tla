-------------------------------- MODULE MCTerm --------------------------------
(***************************************************************************)
(* Two devices, one of which is reopened under another descriptor; the     *)
(* settings are those of a terminal, changed in mode and speed.  One       *)
(* request is the panel's line, the other is found invalid after mode and  *)
(* speed have been set.                                                    *)
(***************************************************************************)
EXTENDS Term

MCFd == {3, 4, 5}
MCDev == {"panel", "other"}
MCDevOf == [f \in MCFd |-> IF f = 4 THEN "other" ELSE "panel"]

MCDefault == [speed |-> 19200, bits |-> 8, flags |-> {"COOKED", "PARENB"}]
MCForeign == {[speed |-> 19200, bits |-> 8, flags |-> {}]}

MCRequest == {
  [raw |-> TRUE, baud |-> 19200, parity |-> "P_NONE", bits |-> 8,
   flow |-> "FC_NONE", local |-> FALSE, hup |-> FALSE],
  [raw |-> TRUE, baud |-> 19200, parity |-> "P_NONE", bits |-> 8,
   flow |-> "none", local |-> FALSE, hup |-> FALSE]}
=============================================================================
