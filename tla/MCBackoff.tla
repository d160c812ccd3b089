------------------------------- MODULE MCBackoff --------------------------------
(* Two processes that start again and again and share one config file.          *)
EXTENDS Backoff

MCKeys == {"retries", "at"}
================================================================================
