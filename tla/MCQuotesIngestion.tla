-------------------------- MODULE MCQuotesIngestion --------------------------
(* An hour of three ticks, the default settings, two restarts.             *)
EXTENDS QuotesIngestion
=============================================================================
