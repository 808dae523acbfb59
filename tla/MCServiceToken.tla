---------------------------- MODULE MCServiceToken ----------------------------
(* An instance of ServiceToken for TLC.                                        *)
EXTENDS ServiceToken
===============================================================================
