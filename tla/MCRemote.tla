------------------------------- MODULE MCRemote -------------------------------
(***************************************************************************)
(* Keys for Remote: the standby key (code 66, whose seventh bit is set), a *)
(* key of the same address with a code below 64, and one of another        *)
(* address.                                                                *)
(***************************************************************************)
EXTENDS Remote

MCKey == {[addr |-> 16, cmd |-> 66],
          [addr |-> 16, cmd |-> 17],
          [addr |-> 5, cmd |-> 53]}
=============================================================================
