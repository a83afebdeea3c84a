---------------------------- MODULE MCInstaller ----------------------------
(***************************************************************************)
(* TLC instances of Installer, over a machine with a serial number and one *)
(* port, and a machine without a serial number and with two ports.         *)
(***************************************************************************)
EXTENDS Installer

CONSTANTS named, sn1, a1, b1, b2

MCDmi  == [m \in Machines |-> IF m = named THEN sn1 ELSE NoSN]
MCNics == [m \in Machines |-> IF m = named THEN {a1} ELSE {b1, b2}]
MCNetworks == {{a1}, {b1}}
=============================================================================
