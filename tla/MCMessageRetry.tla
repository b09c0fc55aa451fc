---- MODULE MCMessageRetry ----
EXTENDS MessageRetry, TLC
====
