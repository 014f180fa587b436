----------------------------- MODULE MCActionPump -----------------------------
(* The module TLC instantiates: the configurations give ActionPump's constants *)
(* their values.                                                               *)
EXTENDS ActionPump

===============================================================================
