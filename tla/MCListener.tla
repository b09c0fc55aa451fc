---- MODULE MCListener ----
EXTENDS Listener, TLC
====
