--------------------------- MODULE MCDriverLifecycle ---------------------------
(* Three lidars, one of them configured, and slots for two. *)
EXTENDS DriverLifecycle

CONSTANTS h1, h2, h3

MCHandle == {h1, h2, h3}
MCConfigured == {h1}
==============================================================================
