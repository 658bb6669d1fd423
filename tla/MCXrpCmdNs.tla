---------------------------- MODULE MCXrpCmdNs ----------------------------
(***************************************************************************)
(* An instance of XrpCmdNs for TLC.                                        *)
(***************************************************************************)
EXTENDS XrpCmdNs

CONSTANTS h1, h2
===========================================================================
