-------------------------- MODULE MCRedisSubscriber --------------------------
(* The constants of RedisSubscriber for TLC. *)
EXTENDS RedisSubscriber

CONSTANTS stored, parsed

(* The topics are interchangeable: the first call asks for this one. *)
FirstAsksForStored == conn'[1].topic # parsed
=============================================================================
